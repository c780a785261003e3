------------------------------- MODULE Pricing -------------------------------
(***************************************************************************)
(* src/price-service.ts: the price of one attestation and the two caches   *)
(* it is made from, as x402-service.ts quotes and redeems it.              *)
(*                                                                         *)
(* A Request is a call of getAttestationPrice or of isPriceFeedAvailable   *)
(* in progress: the price part and the fee part run side by side, each     *)
(* step here is what runs between two answers of FTSO, Kraken or the FDC   *)
(* contracts, and calls may overtake each other.  Amounts are integers:    *)
(* USD and rates in cents, the fee in FLR, without the rounding of floats. *)
(* Time is counted in ticks.                                               *)
(***************************************************************************)
EXTENDS Integers, FiniteSets

CONSTANTS
    Requests,
    Rates,          \* rates in cents a feed may answer, 0 and less included
    Fees,           \* request fees a contract may answer, dust (0) included
    EnvFee,         \* ATTESTATION_FEE_FLR
    Configs,        \* values of the X402_... settings
    DropsPerXrp,
    QuoteTtl,       \* X402_QUOTE_TTL_MS
    MaxTime         \* bound on the time

\* refresh and maxAge are X402_PRICE_REFRESH_MS and X402_PRICE_MAX_AGE_MS;
\* buffer is in percent.
Config == [floor : Int, cap : Int, step : Int, markup : Int, buffer : Int,
           refresh : Nat, maxAge : Nat]

ASSUME PricingAssumption ==
    /\ Rates \subseteq Int /\ Fees \subseteq Nat
    /\ EnvFee \in Nat \ {0} /\ DropsPerXrp \in Nat \ {0}
    /\ Configs \subseteq Config
    /\ QuoteTtl \in Nat /\ MaxTime \in Nat

VARIABLES
    conf,           \* the settings of this process
    now,
    priceCache, feeCache,
    req,            \* each request and the results of its parts
    quote           \* the quote made last

vars == <<conf, now, priceCache, feeCache, req, quote>>

-----------------------------------------------------------------------------
(***************************************************************************)
(* calculateAttestationPrice                                               *)
(***************************************************************************)
Least(a, b)    == IF a <= b THEN a ELSE b
Greatest(a, b) == IF a >= b THEN a ELSE b
CeilDiv(a, b)  == -((-a) \div b)

RoundUpToStep(value, step) == CeilDiv(value, step) * step

Usable(c, flr, xrp, fee) ==
    /\ flr > 0 /\ xrp > 0 /\ fee > 0
    /\ c.markup > 0 /\ c.floor > 0 /\ c.cap > 0 /\ c.step > 0 /\ c.buffer >= 0
    /\ c.cap >= c.floor

MarkedUp(c, flr, fee) == fee * flr * c.markup
Clamped(c, v)         == Least(c.cap, Greatest(c.floor, v))

\* Mutant: the step may carry the price over the cap.
Usd_NotCapped(c, flr, fee) ==
    Greatest(c.floor, RoundUpToStep(Clamped(c, MarkedUp(c, flr, fee)), c.step))

Usd(c, flr, fee) ==
    Clamped(c, RoundUpToStep(Clamped(c, MarkedUp(c, flr, fee)), c.step))

Drops(c, usd, xrp) == CeilDiv(usd * DropsPerXrp * (100 + c.buffer), xrp * 100)

-----------------------------------------------------------------------------
(***************************************************************************)
(* The caches.  ts is the time of the call that filled an entry, read the  *)
(* time at which its answer came.                                          *)
(***************************************************************************)
NoPrice == [flr |-> 0, xrp |-> 0, ts |-> 0, read |-> 0]
NoFee   == [fee |-> 0, ts |-> 0, source |-> "none"]
NoQuote == [usd |-> 0, drops |-> 0, flr |-> 0, xrp |-> 0, fee |-> NoFee, read |-> 0,
            start |-> 0, priceAt |-> 0, feeAt |-> 0, at |-> 0]

PriceStages == {"none", "ftso", "kraken", "done", "failed"}
FeeStages   == {"none", "chain", "done"}
NoRequest   == [start |-> 0, priceStage |-> "none", feeStage |-> "none",
                price |-> NoPrice, priceAt |-> 0, fee |-> NoFee, feeAt |-> 0]

Fresh(ts, t)     == t - ts < conf.refresh
CacheUsable(ts, t) == t - ts <= conf.maxAge

Init ==
    /\ conf \in Configs
    /\ now = 0
    /\ priceCache = NoPrice
    /\ feeCache = NoFee
    /\ req = [r \in Requests |-> NoRequest]
    /\ quote = NoQuote

\* The end of the price part: the entry is checked against its age.
WithPrice(q, p) ==
    IF CacheUsable(p.ts, now)
    THEN [q EXCEPT !.priceStage = "done", !.price = p, !.priceAt = now]
    ELSE [q EXCEPT !.priceStage = "failed"]

WithFee(q, f) == [q EXCEPT !.feeStage = "done", !.fee = f, !.feeAt = now]

Waiting(r) == req[r].priceStage \in {"ftso", "kraken"} \/ req[r].feeStage = "chain"
Idle(r)    == req[r] = NoRequest

\* Both parts look into their cache at once.  A probe has no fee part.
Ask(r, probe) ==
    LET q == [NoRequest EXCEPT !.start = now]
        p == IF priceCache # NoPrice /\ Fresh(priceCache.ts, now)
             THEN WithPrice(q, priceCache) ELSE [q EXCEPT !.priceStage = "ftso"]
        f == IF feeCache # NoFee /\ Fresh(feeCache.ts, now) /\ CacheUsable(feeCache.ts, now)
             THEN WithFee(p, feeCache) ELSE [p EXCEPT !.feeStage = "chain"]
    IN  /\ Idle(r)
        /\ req' = [req EXCEPT ![r] = IF probe THEN p ELSE f]
        /\ UNCHANGED <<conf, now, priceCache, feeCache, quote>>

\* Whoever answers last fills the cache, however early it was asked.
StorePrice(r, flr, xrp) ==
    /\ priceCache' = [flr |-> flr, xrp |-> xrp, ts |-> req[r].start, read |-> now]
    /\ req' = [req EXCEPT ![r] = WithPrice(@, priceCache')]

\* FTSO, then Kraken: both rates have to be positive.
Answers(r, source, flr, xrp) ==
    /\ req[r].priceStage = source
    /\ flr > 0 /\ xrp > 0
    /\ StorePrice(r, flr, xrp)
    /\ UNCHANGED <<conf, now, feeCache, quote>>

FtsoFails(r) ==
    /\ req[r].priceStage = "ftso"
    /\ req' = [req EXCEPT ![r].priceStage = "kraken"]
    /\ UNCHANGED <<conf, now, priceCache, feeCache, quote>>

\* Mutant: with both feeds down any cached price will do.
KrakenFails_AnyCache(r) ==
    /\ req[r].priceStage = "kraken"
    /\ req' = [req EXCEPT ![r] =
                 IF priceCache # NoPrice
                 THEN [@ EXCEPT !.priceStage = "done", !.price = priceCache, !.priceAt = now]
                 ELSE [@ EXCEPT !.priceStage = "failed"]]
    /\ UNCHANGED <<conf, now, priceCache, feeCache, quote>>

\* The cache is the last resort, if it was usable when the request began;
\* its age is checked once more.
KrakenFails(r) ==
    /\ req[r].priceStage = "kraken"
    /\ req' = [req EXCEPT ![r] =
                 IF priceCache # NoPrice /\ CacheUsable(priceCache.ts, @.start)
                 THEN WithPrice(@, priceCache) ELSE [@ EXCEPT !.priceStage = "failed"]]
    /\ UNCHANGED <<conf, now, priceCache, feeCache, quote>>

FeeAnswers(r, fee) ==
    /\ req[r].feeStage = "chain"
    /\ fee > 0
    /\ feeCache' = [fee |-> fee, ts |-> req[r].start, source |-> "chain"]
    /\ req' = [req EXCEPT ![r] = WithFee(@, feeCache')]
    /\ UNCHANGED <<conf, now, priceCache, quote>>

\* Mutant: any cached fee will do when the chain does not answer.
FeeFails_AnyCache(r) ==
    /\ req[r].feeStage = "chain"
    /\ feeCache' = IF feeCache # NoFee THEN feeCache
                   ELSE [fee |-> EnvFee, ts |-> req[r].start, source |-> "env"]
    /\ req' = [req EXCEPT ![r] = WithFee(@, feeCache')]
    /\ UNCHANGED <<conf, now, priceCache, quote>>

\* An entry that was usable when the request began, of whichever source, or
\* else the setting, cached as well.  No age is checked again.
FeeFails(r) ==
    /\ req[r].feeStage = "chain"
    /\ feeCache' = IF feeCache # NoFee /\ CacheUsable(feeCache.ts, req[r].start) THEN feeCache
                   ELSE [fee |-> EnvFee, ts |-> req[r].start, source |-> "env"]
    /\ req' = [req EXCEPT ![r] = WithFee(@, feeCache')]
    /\ UNCHANGED <<conf, now, priceCache, quote>>

Ready(r) == ~Idle(r) /\ ~Waiting(r)

Priced(q) == /\ q.priceStage = "done" /\ q.feeStage = "done"
             /\ Usable(conf, q.price.flr, q.price.xrp, q.fee.fee)

MakeQuote(q) ==
    LET usd == Usd(conf, q.price.flr, q.fee.fee)
    IN  [usd |-> usd, drops |-> Drops(conf, usd, q.price.xrp), flr |-> q.price.flr,
         xrp |-> q.price.xrp, fee |-> q.fee, read |-> q.price.read,
         start |-> q.start, priceAt |-> q.priceAt, feeAt |-> q.feeAt, at |-> now]

\* buildPaymentRequired, at once after the later part; 503 without a price.
Finish(r) ==
    /\ Ready(r)
    /\ req' = [req EXCEPT ![r] = NoRequest]
    /\ quote' = IF Priced(req[r]) THEN MakeQuote(req[r]) ELSE quote
    /\ UNCHANGED <<conf, now, priceCache, feeCache>>

\* Mutant: quotes do not expire.
Live_Always == quote # NoQuote

\* getQuote: a payment may be made on this quote.
Live == quote # NoQuote /\ now - quote.at <= QuoteTtl

\* An answer may take any time: the fetch from Kraken has no abort signal.
\* What is ready runs before time passes.
Tick ==
    /\ now < MaxTime
    /\ \A r \in Requests : ~Ready(r)
    /\ now' = now + 1
    /\ UNCHANGED <<conf, priceCache, feeCache, req, quote>>

Serve(r) ==
    \/ \E source \in {"ftso", "kraken"}, flr \in Rates, xrp \in Rates : Answers(r, source, flr, xrp)
    \/ FtsoFails(r) \/ KrakenFails(r)
    \/ \E fee \in Fees : FeeAnswers(r, fee)
    \/ FeeFails(r) \/ Finish(r)

Next ==
    \/ \E r \in Requests : Serve(r) \/ \E probe \in BOOLEAN : Ask(r, probe)
    \/ Tick

Spec == Init /\ [][Next]_vars

-----------------------------------------------------------------------------
(***************************************************************************)
(* Properties                                                              *)
(***************************************************************************)
Price == [flr : Nat, xrp : Nat, ts : Nat, read : Nat]
Fee   == [fee : Nat, ts : Nat, source : {"none", "chain", "env"}]

\* Every variable has its type.
TypeOK ==
    /\ conf \in Configs
    /\ now \in 0..MaxTime
    /\ priceCache \in Price
    /\ feeCache \in Fee
    /\ req \in [Requests -> [start : Nat, priceStage : PriceStages, feeStage : FeeStages,
                             price : Price, priceAt : Nat, fee : Fee, feeAt : Nat]]
    /\ quote \in [usd : Int, drops : Int, flr : Nat, xrp : Nat, fee : Fee, read : Nat,
                  start : Nat, priceAt : Nat, feeAt : Nat, at : Nat]

Quoted == quote # NoQuote

\* "Never returns a USD price below the floor", nor above the cap, for all
\* settings the code does not refuse, wherever the steps lie.
QuoteInRange == Quoted => conf.floor <= quote.usd /\ quote.usd <= conf.cap

\* A quote covers the marked-up fee, up to the cap; it charges less than a
\* step more than that or the floor.
QuoteCoversCost ==
    LET due == MarkedUp(conf, quote.flr, quote.fee.fee)
    IN  Quoted => /\ quote.usd >= Least(conf.cap, due)
                  /\ quote.usd < Greatest(conf.floor, due) + conf.step

\* The amount in drops is worth the price and the buffer at the quoted rate,
\* and a drop less would not be.
DropsCoverPrice ==
    LET worth(d) == d * quote.xrp * 100
        due == quote.usd * DropsPerXrp * (100 + conf.buffer)
    IN  Quoted => worth(quote.drops) >= due /\ worth(quote.drops - 1) < due

\* Every amount that is quoted is right in each of these ways.
QuoteIsRight == QuoteInRange /\ QuoteCoversCost /\ DropsCoverPrice

\* How much later than the price the fee of a quote came.
FeeDelay == Greatest(0, quote.feeAt - quote.priceAt)

\* "rejected once older than 300s (fail closed - never quote a stale price)"
\* is true of the price part and not of the quote, which is made when the
\* fee is there as well: at that time the rates are at most the maximum age
\* old and the delay of the fee, whichever request filled the cache, and
\* however late and in whatever order the feeds answer.
QuotedRateAge == Quoted => quote.at - quote.read <= conf.maxAge + FeeDelay

\* A price that can be paid is older by the time to live of the quote.
PayablePriceAge == Live => now - quote.read <= conf.maxAge + FeeDelay + QuoteTtl

\* "If that call fails, ATTESTATION_FEE_FLR is used": the code uses it only
\* without a fee in the cache that was usable when the call began, so that
\* a quote is made of a fee as old as the maximum age and the request's own
\* time, which is not checked again as the rates are.
QuotedFeeAge == Quoted => quote.at - quote.fee.ts <= conf.maxAge + (quote.at - quote.start)
=============================================================================
