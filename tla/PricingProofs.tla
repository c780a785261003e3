---------------------------- MODULE PricingProofs ----------------------------
(***************************************************************************)
(* What is proved about Pricing for all settings, rates, fees, numbers of  *)
(* requests and bounds on the time: the range and the cover of a quote,    *)
(* and the age of the rates and of the fee in it.                          *)
(***************************************************************************)
EXTENDS Pricing, TLAPS

-----------------------------------------------------------------------------
(***************************************************************************)
(* Arithmetic                                                              *)
(***************************************************************************)
\* Rounding up gives the least multiple that is not below the value.
LEMMA CeilDivBounds ==
    ASSUME NEW a \in Int, NEW b \in Int, b > 0
    PROVE  /\ CeilDiv(a, b) \in Int
           /\ CeilDiv(a, b) * b >= a
           /\ (CeilDiv(a, b) - 1) * b < a
  <1> DEFINE q == (-a) \div b
  <1>1. q \in Int
    OBVIOUS
  <1>2. b * q <= -a /\ -a < b * q + b
    BY SMTT(30)
  <1> QED
    BY <1>1, <1>2 DEF CeilDiv

\* roundUpToStep never rounds down and adds less than a step.
LEMMA RoundUpBounds ==
    ASSUME NEW v \in Int, NEW step \in Int, step > 0
    PROVE  /\ RoundUpToStep(v, step) \in Int
           /\ v <= RoundUpToStep(v, step)
           /\ RoundUpToStep(v, step) < v + step
  <1> DEFINE q == CeilDiv(v, step)
  <1>1. q \in Int /\ q * step >= v /\ (q - 1) * step < v
    BY CeilDivBounds
  <1>2. (q - 1) * step = q * step - step
    BY <1>1
  <1>3. q * step \in Int
    BY <1>1
  <1> HIDE DEF q
  <1>4. v <= q * step /\ q * step < v + step
    BY <1>1, <1>2, <1>3
  <1> QED
    BY <1>3, <1>4 DEF RoundUpToStep, q

\* A price that is clamped to the floor and the cap lies between them.
LEMMA ClampedBounds ==
    ASSUME NEW c \in Config, NEW v \in Int, c.cap >= c.floor
    PROVE  /\ Clamped(c, v) \in Int
           /\ c.floor <= Clamped(c, v) /\ Clamped(c, v) <= c.cap
           /\ Clamped(c, v) >= Least(c.cap, v)
           /\ Clamped(c, v) <= Greatest(c.floor, v)
  BY DEF Config, Clamped, Least, Greatest

\* The price in USD: floor and cap hold, the marked-up fee is covered up to
\* the cap, and less than a step is added.
LEMMA UsdBounds ==
    ASSUME NEW c \in Config, NEW flr \in Nat, NEW fee \in Nat,
           c.cap >= c.floor, c.step > 0
    PROVE  /\ Usd(c, flr, fee) \in Int
           /\ c.floor <= Usd(c, flr, fee) /\ Usd(c, flr, fee) <= c.cap
           /\ Usd(c, flr, fee) >= Least(c.cap, MarkedUp(c, flr, fee))
           /\ Usd(c, flr, fee) < Greatest(c.floor, MarkedUp(c, flr, fee)) + c.step
  <1> DEFINE due == MarkedUp(c, flr, fee)
             inner == Clamped(c, due)
             stepped == RoundUpToStep(inner, c.step)
  <1>1. due \in Int
    BY DEF MarkedUp, Config
  <1>2. c.floor \in Int /\ c.cap \in Int /\ c.step \in Int
    BY DEF Config
  <1> HIDE DEF due
  <1>3. /\ inner \in Int /\ c.floor <= inner /\ inner <= c.cap
        /\ inner >= Least(c.cap, due) /\ inner <= Greatest(c.floor, due)
    BY <1>1, ClampedBounds
  <1> HIDE DEF inner
  <1>4. stepped \in Int /\ inner <= stepped /\ stepped < inner + c.step
    BY <1>2, <1>3, RoundUpBounds
  <1> HIDE DEF stepped
  <1>5. Clamped(c, stepped) = Least(c.cap, stepped)
    BY <1>2, <1>3, <1>4 DEF Clamped, Least, Greatest
  <1>6. Usd(c, flr, fee) = Least(c.cap, stepped)
    BY <1>5 DEF Usd, due, inner, stepped
  <1>7. /\ Least(c.cap, stepped) \in Int
        /\ c.floor <= Least(c.cap, stepped) /\ Least(c.cap, stepped) <= c.cap
        /\ Least(c.cap, stepped) >= Least(c.cap, due)
        /\ Least(c.cap, stepped) < Greatest(c.floor, due) + c.step
    BY <1>1, <1>2, <1>3, <1>4 DEF Least, Greatest
  <1> QED
    BY <1>6, <1>7 DEF due

\* The price in drops is the least that is worth the price and the buffer.
LEMMA DropsBounds ==
    ASSUME NEW c \in Config, NEW usd \in Int, NEW xrp \in Nat, xrp > 0
    PROVE  /\ Drops(c, usd, xrp) \in Int
           /\ Drops(c, usd, xrp) * xrp * 100 >= usd * DropsPerXrp * (100 + c.buffer)
           /\ (Drops(c, usd, xrp) - 1) * xrp * 100 < usd * DropsPerXrp * (100 + c.buffer)
  <1> DEFINE due == usd * DropsPerXrp * (100 + c.buffer)
             rate == xrp * 100
             d == CeilDiv(due, rate)
  <1>1. due \in Int
    BY PricingAssumption DEF Config
  <1>2. rate \in Int /\ rate > 0
    OBVIOUS
  <1>3. d \in Int /\ d * rate >= due /\ (d - 1) * rate < due
    <2> HIDE DEF due, rate
    <2> QED
      BY <1>1, <1>2, CeilDivBounds
  <1>4. Drops(c, usd, xrp) = d
    BY DEF Drops
  <1> HIDE DEF d, due
  <1>5. d * rate = d * xrp * 100 /\ (d - 1) * rate = (d - 1) * xrp * 100
    BY <1>3
  <1> QED
    BY <1>3, <1>4, <1>5 DEF due

-----------------------------------------------------------------------------
(***************************************************************************)
(* Types                                                                   *)
(***************************************************************************)
RequestType == [start : Nat, priceStage : PriceStages, feeStage : FeeStages,
                price : Price, priceAt : Nat, fee : Fee, feeAt : Nat]
QuoteType   == [usd : Int, drops : Int, flr : Nat, xrp : Nat, fee : Fee, read : Nat,
                start : Nat, priceAt : Nat, feeAt : Nat, at : Nat]

\* Checking an entry against its age keeps the type of a request.
LEMMA WithPriceType ==
    ASSUME TypeOK, NEW q \in RequestType, NEW p \in Price
    PROVE  WithPrice(q, p) \in RequestType
  <1>1. now \in Nat
    BY PricingAssumption DEF TypeOK
  <1> QED
    BY <1>1 DEF WithPrice, RequestType, PriceStages

\* So does taking a fee.
LEMMA WithFeeType ==
    ASSUME TypeOK, NEW q \in RequestType, NEW f \in Fee
    PROVE  WithFee(q, f) \in RequestType
  <1>1. now \in Nat
    BY PricingAssumption DEF TypeOK
  <1> QED
    BY <1>1 DEF WithFee, RequestType, FeeStages

\* The values that stand for nothing have the types as well.
LEMMA NothingType == NoRequest \in RequestType /\ NoPrice \in Price /\ NoFee \in Fee
  BY DEF NoRequest, NoPrice, NoFee, RequestType, PriceStages, FeeStages, Price, Fee

\* A quote that is made from a request has numbers in it.
LEMMA MakeQuoteType ==
    ASSUME TypeOK, NEW r \in Requests, Priced(req[r])
    PROVE  MakeQuote(req[r]) \in QuoteType
  <1> DEFINE q == req[r]
             usd == Usd(conf, q.price.flr, q.fee.fee)
  <1>1. /\ q.price.flr \in Nat /\ q.price.xrp \in Nat /\ q.price.read \in Nat
        /\ q.fee \in Fee /\ q.fee.fee \in Nat /\ q.priceAt \in Nat /\ q.feeAt \in Nat
        /\ q.start \in Nat /\ now \in Nat
    BY PricingAssumption DEF TypeOK, Price, Fee
  <1>2. conf \in Config /\ q.price.xrp > 0 /\ conf.cap >= conf.floor /\ conf.step > 0
    BY PricingAssumption DEF TypeOK, Priced, Usable
  <1>3. usd \in Int
    BY <1>1, <1>2, UsdBounds
  <1>4. Drops(conf, usd, q.price.xrp) \in Int
    <2> HIDE DEF usd
    <2> QED
      BY <1>1, <1>2, <1>3, DropsBounds
  <1> QED
    BY <1>1, <1>3, <1>4 DEF MakeQuote, QuoteType

\* The initial state has its types.
LEMMA InitType == Init => TypeOK
  <1> SUFFICES ASSUME Init
               PROVE  TypeOK
    OBVIOUS
  <1>1. req \in [Requests -> RequestType] /\ priceCache \in Price /\ feeCache \in Fee
    BY NothingType DEF Init
  <1>2. quote \in QuoteType
    BY NothingType DEF Init, NoQuote, QuoteType
  <1>3. now \in 0..MaxTime /\ conf \in Configs
    BY PricingAssumption DEF Init
  <1> QED
    BY <1>1, <1>2, <1>3 DEF TypeOK, RequestType, QuoteType

\* Every step keeps the types.
LEMMA NextType == TypeOK /\ [Next]_vars => TypeOK'
  <1> SUFFICES ASSUME TypeOK, [Next]_vars
               PROVE  TypeOK'
    OBVIOUS
  <1> USE DEF RequestType, QuoteType
  <1>0. /\ conf \in Configs /\ now \in 0..MaxTime /\ now \in Nat
        /\ priceCache \in Price /\ feeCache \in Fee
        /\ req \in [Requests -> RequestType] /\ quote \in QuoteType
    BY PricingAssumption DEF TypeOK
  <1>e. EnvFee \in Nat
    BY PricingAssumption
  <1>1. ASSUME NEW r \in Requests, NEW probe \in BOOLEAN, Ask(r, probe)
        PROVE  TypeOK'
    <2> DEFINE q == [NoRequest EXCEPT !.start = now]
               p == IF priceCache # NoPrice /\ Fresh(priceCache.ts, now)
                    THEN WithPrice(q, priceCache) ELSE [q EXCEPT !.priceStage = "ftso"]
               f == IF feeCache # NoFee /\ Fresh(feeCache.ts, now) /\ CacheUsable(feeCache.ts, now)
                    THEN WithFee(p, feeCache) ELSE [p EXCEPT !.feeStage = "chain"]
    <2>1. q \in RequestType
      BY <1>0, NothingType
    <2>2. p \in RequestType
      <3> HIDE DEF q
      <3>1. [q EXCEPT !.priceStage = "ftso"] \in RequestType
        BY <2>1 DEF PriceStages
      <3> QED
        BY <1>0, <2>1, <3>1, WithPriceType
    <2>3. f \in RequestType
      <3> HIDE DEF p
      <3>1. [p EXCEPT !.feeStage = "chain"] \in RequestType
        BY <2>2 DEF FeeStages
      <3> QED
        BY <1>0, <2>2, <3>1, WithFeeType
    <2>4. req' = [req EXCEPT ![r] = IF probe THEN p ELSE f]
      BY <1>1 DEF Ask
    <2> HIDE DEF p, f
    <2>5. req' \in [Requests -> RequestType]
      BY <1>0, <2>2, <2>3, <2>4
    <2> QED
      BY <1>0, <1>1, <2>5 DEF Ask, TypeOK
  <1>2. ASSUME NEW r \in Requests, NEW source \in {"ftso", "kraken"}, NEW flr \in Rates,
               NEW xrp \in Rates, Answers(r, source, flr, xrp)
        PROVE  TypeOK'
    <2>1. flr \in Nat /\ xrp \in Nat
      BY <1>2, PricingAssumption DEF Answers
    <2>2. priceCache' \in Price
      BY <1>0, <1>2, <2>1 DEF Answers, StorePrice, Price
    <2>3. WithPrice(req[r], priceCache') \in RequestType
      BY <1>0, <2>2, WithPriceType
    <2>4. req' \in [Requests -> RequestType]
      BY <1>0, <1>2, <2>3 DEF Answers, StorePrice
    <2> QED
      BY <1>0, <1>2, <2>2, <2>4 DEF Answers, TypeOK
  <1>3. ASSUME NEW r \in Requests, FtsoFails(r)
        PROVE  TypeOK'
    BY <1>0, <1>3 DEF FtsoFails, TypeOK, PriceStages
  <1>4. ASSUME NEW r \in Requests, KrakenFails(r)
        PROVE  TypeOK'
    <2>1. WithPrice(req[r], priceCache) \in RequestType
      BY <1>0, WithPriceType
    <2>2. [req[r] EXCEPT !.priceStage = "failed"] \in RequestType
      BY <1>0 DEF PriceStages
    <2>3. req' \in [Requests -> RequestType]
      BY <1>0, <1>4, <2>1, <2>2 DEF KrakenFails
    <2> QED
      BY <1>0, <1>4, <2>3 DEF KrakenFails, TypeOK
  <1>5. ASSUME NEW r \in Requests, NEW fee \in Fees, FeeAnswers(r, fee)
        PROVE  TypeOK'
    <2>1. feeCache' \in Fee
      BY <1>0, <1>5, PricingAssumption DEF FeeAnswers, Fee
    <2>2. WithFee(req[r], feeCache') \in RequestType
      BY <1>0, <2>1, WithFeeType
    <2>3. req' \in [Requests -> RequestType]
      BY <1>0, <1>5, <2>2 DEF FeeAnswers
    <2> QED
      BY <1>0, <1>5, <2>1, <2>3 DEF FeeAnswers, TypeOK
  <1>6. ASSUME NEW r \in Requests, FeeFails(r)
        PROVE  TypeOK'
    <2>1. feeCache' \in Fee
      BY <1>0, <1>e, <1>6 DEF FeeFails, Fee
    <2>2. WithFee(req[r], feeCache') \in RequestType
      BY <1>0, <2>1, WithFeeType
    <2>3. req' \in [Requests -> RequestType]
      BY <1>0, <1>6, <2>2 DEF FeeFails
    <2> QED
      BY <1>0, <1>6, <2>1, <2>3 DEF FeeFails, TypeOK
  <1>7. ASSUME NEW r \in Requests, Finish(r)
        PROVE  TypeOK'
    <2>1. req' \in [Requests -> RequestType]
      BY <1>0, <1>7, NothingType DEF Finish
    <2>2. quote' \in QuoteType
      BY <1>0, <1>7, MakeQuoteType DEF Finish
    <2> QED
      BY <1>0, <1>7, <2>1, <2>2 DEF Finish, TypeOK
  <1>8. CASE Tick
    BY <1>0, <1>8, PricingAssumption DEF Tick, TypeOK
  <1>9. CASE UNCHANGED vars
    BY <1>0, <1>9 DEF vars, TypeOK
  <1> QED
    BY <1>1, <1>2, <1>3, <1>4, <1>5, <1>6, <1>7, <1>8, <1>9 DEF Next, Serve

\* Every variable of the price service keeps its type.
THEOREM TypeCorrect == Spec => []TypeOK
  <1>1. Init => TypeOK
    BY InitType
  <1>2. TypeOK /\ [Next]_vars => TypeOK'
    BY NextType
  <1> QED
    BY <1>1, <1>2, PTL DEF Spec

-----------------------------------------------------------------------------
(***************************************************************************)
(* Ages.  An answer is never older than its call.  The age of the rates is  *)
(* checked when the price part ends, so a quote can add no more to it than *)
(* the fee was late; the age of the fee is checked against the beginning   *)
(* of the request.                                                         *)
(***************************************************************************)
CacheAges == priceCache.ts <= priceCache.read /\ priceCache.read <= now

\* The age of the price a request took, as it was checked.
TookInTime(q) ==
    q.priceStage = "done" =>
        /\ q.start <= q.priceAt /\ q.priceAt <= now
        /\ q.price.ts <= q.price.read
        /\ q.priceAt - q.price.ts <= conf.maxAge

\* The age of the fee a request took, at the time it began.
FeeInTime(q) ==
    q.feeStage = "done" =>
        /\ q.start <= q.feeAt /\ q.feeAt <= now
        /\ q.start - q.fee.ts <= conf.maxAge

\* Time passes only while a part of the request is out.
NothingReady(q) ==
    q # NoRequest /\ q.priceStage = "done" /\ q.feeStage = "done" =>
        now = q.priceAt \/ now = q.feeAt

RequestAges(q) ==
    /\ q.start <= now
    /\ TookInTime(q) /\ FeeInTime(q) /\ NothingReady(q)

QuoteAges ==
    Quoted => /\ quote.priceAt - quote.read <= conf.maxAge
              /\ quote.start - quote.fee.ts <= conf.maxAge
              /\ quote.at = quote.priceAt \/ quote.at = quote.feeAt

AgeInv == CacheAges /\ (\A r \in Requests : RequestAges(req[r])) /\ QuoteAges

\* A request that looks at an entry stays within its time.
LEMMA WithPriceAges ==
    ASSUME TypeOK, NEW q \in RequestType, NEW p \in Price,
           q.start <= now, FeeInTime(q), p.ts <= p.read
    PROVE  RequestAges(WithPrice(q, p))
  <1>1. now \in Nat /\ conf \in Config
    BY PricingAssumption DEF TypeOK
  <1>2. /\ WithPrice(q, p).start = q.start /\ WithPrice(q, p).feeStage = q.feeStage
        /\ WithPrice(q, p).fee = q.fee /\ WithPrice(q, p).feeAt = q.feeAt
    BY DEF WithPrice, RequestType
  <1>3. TookInTime(WithPrice(q, p)) /\ NothingReady(WithPrice(q, p))
    BY <1>1 DEF TookInTime, NothingReady, WithPrice, RequestType, CacheUsable, Price, Config, PriceStages
  <1>4. FeeInTime(WithPrice(q, p))
    BY <1>2 DEF FeeInTime
  <1> QED
    BY <1>2, <1>3, <1>4 DEF RequestAges

\* Taking a fee changes nothing about the price.
LEMMA WithFeeAges ==
    ASSUME TypeOK, NEW q \in RequestType, NEW f \in Fee,
           q.start <= now, TookInTime(q), q.start - f.ts <= conf.maxAge
    PROVE  RequestAges(WithFee(q, f))
  <1>1. now \in Nat
    BY PricingAssumption DEF TypeOK
  <1>2. /\ WithFee(q, f).start = q.start /\ WithFee(q, f).priceStage = q.priceStage
        /\ WithFee(q, f).price = q.price /\ WithFee(q, f).priceAt = q.priceAt
        /\ WithFee(q, f).fee = f /\ WithFee(q, f).feeAt = now
    BY DEF WithFee, RequestType
  <1> QED
    BY <1>1, <1>2 DEF RequestAges, TookInTime, FeeInTime, NothingReady

\* A step that leaves time and settings alone, and that leaves every request
\* but one alone, has to show the invariant of that one.
LEMMA OneRequestAges ==
    ASSUME AgeInv, NEW r \in Requests,
           UNCHANGED <<conf, now>>,
           \A s \in Requests \ {r} : req'[s] = req[s],
           RequestAges(req[r]')
    PROVE  (\A s \in Requests : RequestAges(req[s]))'
  BY DEF AgeInv, RequestAges, TookInTime, FeeInTime, NothingReady

\* In the initial state nothing has an age.
LEMMA InitAges == Init => AgeInv
  BY PricingAssumption
     DEF Init, AgeInv, CacheAges, RequestAges, TookInTime, FeeInTime, NothingReady, QuoteAges, Quoted,
         NoPrice, NoRequest

\* A request one of whose parts is still out, or that failed, is within its
\* time if what it has of the other part is.
LEMMA PartAges ==
    ASSUME NEW q, q.start <= now, TookInTime(q), FeeInTime(q),
           q.priceStage # "done" \/ q.feeStage # "done"
    PROVE  RequestAges(q)
  BY DEF RequestAges, NothingReady

\* A request begins with whatever its caches have.
LEMMA AskAges ==
    ASSUME TypeOK, AgeInv, NEW r \in Requests, NEW probe \in BOOLEAN, Ask(r, probe)
    PROVE  RequestAges(req[r]')
  <1> DEFINE q == [NoRequest EXCEPT !.start = now]
             p == IF priceCache # NoPrice /\ Fresh(priceCache.ts, now)
                  THEN WithPrice(q, priceCache) ELSE [q EXCEPT !.priceStage = "ftso"]
             f == IF feeCache # NoFee /\ Fresh(feeCache.ts, now) /\ CacheUsable(feeCache.ts, now)
                  THEN WithFee(p, feeCache) ELSE [p EXCEPT !.feeStage = "chain"]
  <1>0. /\ now \in Nat /\ priceCache \in Price /\ feeCache \in Fee /\ conf \in Config
        /\ req \in [Requests -> RequestType]
    BY PricingAssumption DEF TypeOK, RequestType
  <1>1. q \in RequestType /\ q.start = now /\ q.priceStage = "none" /\ q.feeStage = "none"
    BY <1>0, NothingType DEF NoRequest, RequestType
  <1>2. p \in RequestType /\ RequestAges(p) /\ p.start = now /\ p.feeStage = "none"
    <2> HIDE DEF q
    <2>1. /\ [q EXCEPT !.priceStage = "ftso"] \in RequestType
          /\ [q EXCEPT !.priceStage = "ftso"].start = now
          /\ [q EXCEPT !.priceStage = "ftso"].feeStage = "none"
          /\ [q EXCEPT !.priceStage = "ftso"].priceStage = "ftso"
      BY <1>1 DEF RequestType, PriceStages
    <2>2. RequestAges([q EXCEPT !.priceStage = "ftso"])
      BY <1>0, <2>1 DEF RequestAges, TookInTime, FeeInTime, NothingReady
    <2>3. RequestAges(WithPrice(q, priceCache))
      BY <1>0, <1>1, WithPriceAges DEF AgeInv, CacheAges, FeeInTime
    <2>4. /\ WithPrice(q, priceCache) \in RequestType /\ WithPrice(q, priceCache).start = now
          /\ WithPrice(q, priceCache).feeStage = "none"
      BY <1>0, <1>1, WithPriceType DEF WithPrice, RequestType
    <2> QED
      BY <2>1, <2>2, <2>3, <2>4
  <1>3. RequestAges(f)
    <2> HIDE DEF p
    <2>1. CASE CacheUsable(feeCache.ts, now)
      <3>1. now - feeCache.ts <= conf.maxAge
        BY <2>1 DEF CacheUsable
      <3>2. RequestAges(WithFee(p, feeCache))
        BY <1>0, <1>2, <3>1, WithFeeAges DEF RequestAges
      <3>3. RequestAges([p EXCEPT !.feeStage = "chain"])
        BY <1>0, <1>2 DEF RequestAges, TookInTime, FeeInTime, NothingReady, RequestType
      <3> QED
        BY <3>2, <3>3
    <2>2. CASE ~CacheUsable(feeCache.ts, now)
      BY <1>0, <1>2, <2>2 DEF RequestAges, TookInTime, FeeInTime, NothingReady, RequestType
    <2> QED
      BY <2>1, <2>2
  <1>4. req' = [req EXCEPT ![r] = IF probe THEN p ELSE f] /\ UNCHANGED <<conf, now>>
    BY DEF Ask
  <1> HIDE DEF p, f
  <1> QED
    BY <1>0, <1>2, <1>3, <1>4 DEF RequestAges, TookInTime, FeeInTime, NothingReady

\* A fee that was asked for is within its time.
LEMMA FeeAges ==
    ASSUME TypeOK, AgeInv, NEW r \in Requests,
           (\E fee \in Fees : FeeAnswers(r, fee)) \/ FeeFails(r)
    PROVE  RequestAges(req[r]')
  <1>0. /\ now \in Nat /\ now \in 0..MaxTime /\ feeCache \in Fee /\ conf \in Config
        /\ req \in [Requests -> RequestType] /\ req[r].start \in Nat
    BY PricingAssumption DEF TypeOK, RequestType
  <1>1. /\ req' = [req EXCEPT ![r] = WithFee(@, feeCache')] /\ req[r].feeStage = "chain"
        /\ UNCHANGED <<conf, now>>
    BY DEF FeeAnswers, FeeFails
  <1>2. feeCache' \in Fee
    <2>1. TypeOK'
      <3>1. Next
        BY DEF Next, Serve
      <3> QED
        BY <3>1, NextType
    <2> QED
      BY <2>1 DEF TypeOK
  <1>3. req[r].start - feeCache'.ts <= conf.maxAge
    <2>1. \/ feeCache'.ts = req[r].start
          \/ feeCache'.ts = feeCache.ts /\ CacheUsable(feeCache.ts, req[r].start)
      BY DEF FeeAnswers, FeeFails
    <2> QED
      BY <1>0, <2>1 DEF CacheUsable, Config
  <1>4. req[r].start <= now /\ TookInTime(req[r])
    BY DEF AgeInv, RequestAges
  <1>5. RequestAges(WithFee(req[r], feeCache'))
    BY <1>0, <1>2, <1>3, <1>4, WithFeeAges
  <1> QED
    BY <1>0, <1>1, <1>5 DEF RequestAges, TookInTime, FeeInTime, NothingReady

\* What is quoted takes its ages from the request.
LEMMA FinishAges ==
    ASSUME TypeOK, AgeInv, NEW r \in Requests, Finish(r)
    PROVE  QuoteAges'
  <1>0. now \in Nat /\ conf \in Config /\ req \in [Requests -> RequestType]
    BY PricingAssumption DEF TypeOK, RequestType
  <1>1. CASE Priced(req[r])
    <2> DEFINE q == req[r]
    <2>1. q \in RequestType /\ RequestAges(q) /\ q # NoRequest
      BY <1>0 DEF AgeInv, Finish, Ready, Idle
    <2>2. q.priceStage = "done" /\ q.feeStage = "done"
      BY <1>1 DEF Priced
    <2>3. /\ quote'.priceAt = q.priceAt /\ quote'.at = now /\ quote'.read = q.price.read
          /\ quote'.start = q.start /\ quote'.feeAt = q.feeAt /\ quote'.fee = q.fee /\ conf' = conf
      BY <1>1 DEF Finish, MakeQuote
    <2>4. /\ q.priceAt \in Nat /\ q.price.ts \in Nat /\ q.price.read \in Nat
          /\ q.start \in Nat /\ q.fee.ts \in Nat /\ conf.maxAge \in Nat
      BY <1>0, <2>1 DEF RequestType, Price, Fee, Config
    <2>5. /\ q.price.ts <= q.price.read /\ q.priceAt - q.price.ts <= conf.maxAge
          /\ q.start - q.fee.ts <= conf.maxAge
          /\ now = q.priceAt \/ now = q.feeAt
      BY <2>1, <2>2 DEF RequestAges, TookInTime, FeeInTime, NothingReady
    <2> HIDE DEF q
    <2> QED
      BY <1>0, <2>3, <2>4, <2>5 DEF QuoteAges
  <1>2. CASE ~Priced(req[r])
    BY <1>2 DEF Finish, AgeInv, QuoteAges, Quoted
  <1> QED
    BY <1>1, <1>2

\* Every step keeps the ages.
LEMMA NextAges == TypeOK /\ AgeInv /\ [Next]_vars => AgeInv'
  <1> SUFFICES ASSUME TypeOK, AgeInv, [Next]_vars
               PROVE  AgeInv'
    OBVIOUS
  <1>0. /\ now \in Nat /\ priceCache \in Price /\ feeCache \in Fee /\ conf \in Config
        /\ req \in [Requests -> RequestType] /\ quote \in QuoteType
    BY PricingAssumption DEF TypeOK, RequestType, QuoteType
  <1>t. TypeOK'
    BY NextType
  <1>1. ASSUME NEW r \in Requests, NEW probe \in BOOLEAN, Ask(r, probe)
        PROVE  AgeInv'
    <2>1. /\ \A s \in Requests \ {r} : req'[s] = req[s]
          /\ UNCHANGED <<conf, now, priceCache, quote>>
      BY <1>0, <1>1 DEF Ask
    <2>2. (\A s \in Requests : RequestAges(req[s]))'
      BY <1>1, <2>1, AskAges, OneRequestAges
    <2> QED
      BY <2>1, <2>2 DEF AgeInv, CacheAges, QuoteAges, Quoted
  <1>2. ASSUME NEW r \in Requests, NEW source \in {"ftso", "kraken"}, NEW flr \in Rates,
               NEW xrp \in Rates, Answers(r, source, flr, xrp)
        PROVE  AgeInv'
    <2>1. /\ priceCache' = [flr |-> flr, xrp |-> xrp, ts |-> req[r].start, read |-> now]
          /\ req' = [req EXCEPT ![r] = WithPrice(@, priceCache')]
          /\ UNCHANGED <<conf, now, quote>>
      BY <1>2 DEF Answers, StorePrice
    <2>2. req[r].start <= now /\ FeeInTime(req[r])
      BY DEF AgeInv, RequestAges
    <2>3. priceCache' \in Price /\ priceCache'.ts <= priceCache'.read /\ priceCache'.read <= now
      BY <1>t, <1>0, <2>1, <2>2 DEF TypeOK
    <2>4. RequestAges(WithPrice(req[r], priceCache'))
      BY <1>0, <2>2, <2>3, WithPriceAges
    <2>5. RequestAges(req[r]')
      BY <1>0, <2>1, <2>4 DEF RequestAges, TookInTime, FeeInTime, NothingReady
    <2>6. (\A s \in Requests : RequestAges(req[s]))'
      BY <1>0, <2>1, <2>5, OneRequestAges
    <2> QED
      BY <2>1, <2>3, <2>6 DEF AgeInv, CacheAges, QuoteAges, Quoted
  <1>3. ASSUME NEW r \in Requests, FtsoFails(r)
        PROVE  AgeInv'
    <2>1. req' = [req EXCEPT ![r].priceStage = "kraken"] /\ UNCHANGED <<conf, now, priceCache, quote>>
      BY <1>3 DEF FtsoFails
    <2>2. RequestAges(req[r]')
      BY <1>0, <1>3, <2>1
         DEF FtsoFails, AgeInv, RequestAges, TookInTime, FeeInTime, NothingReady, RequestType, NoRequest
    <2>3. (\A s \in Requests : RequestAges(req[s]))'
      BY <1>0, <2>1, <2>2, OneRequestAges
    <2> QED
      BY <2>1, <2>3 DEF AgeInv, CacheAges, QuoteAges, Quoted
  <1>4. ASSUME NEW r \in Requests, KrakenFails(r)
        PROVE  AgeInv'
    <2>1. /\ req' = [req EXCEPT ![r] =
                      IF priceCache # NoPrice /\ CacheUsable(priceCache.ts, @.start)
                      THEN WithPrice(@, priceCache) ELSE [@ EXCEPT !.priceStage = "failed"]]
          /\ UNCHANGED <<conf, now, priceCache, quote>>
      BY <1>4 DEF KrakenFails
    <2>2. req[r].start <= now /\ FeeInTime(req[r])
      BY DEF AgeInv, RequestAges
    <2>3. RequestAges(WithPrice(req[r], priceCache))
      BY <1>0, <2>2, WithPriceAges DEF AgeInv, CacheAges
    <2>4. RequestAges([req[r] EXCEPT !.priceStage = "failed"])
      BY <1>0, <2>2 DEF RequestAges, TookInTime, FeeInTime, NothingReady, RequestType
    <2>5. RequestAges(req[r]')
      BY <1>0, <2>1, <2>3, <2>4 DEF RequestAges, TookInTime, FeeInTime, NothingReady
    <2>6. (\A s \in Requests : RequestAges(req[s]))'
      BY <1>0, <2>1, <2>5, OneRequestAges
    <2> QED
      BY <2>1, <2>6 DEF AgeInv, CacheAges, QuoteAges, Quoted
  <1>5. ASSUME NEW r \in Requests, (\E fee \in Fees : FeeAnswers(r, fee)) \/ FeeFails(r)
        PROVE  AgeInv'
    <2>1. req' = [req EXCEPT ![r] = WithFee(@, feeCache')] /\ UNCHANGED <<conf, now, priceCache, quote>>
      BY <1>5 DEF FeeAnswers, FeeFails
    <2>2. RequestAges(req[r]')
      BY <1>5, FeeAges
    <2>3. (\A s \in Requests : RequestAges(req[s]))'
      BY <1>0, <2>1, <2>2, OneRequestAges
    <2> QED
      BY <2>1, <2>3 DEF AgeInv, CacheAges, QuoteAges, Quoted
  <1>6. ASSUME NEW r \in Requests, Finish(r)
        PROVE  AgeInv'
    <2>1. req' = [req EXCEPT ![r] = NoRequest] /\ UNCHANGED <<conf, now, priceCache>>
      BY <1>6 DEF Finish
    <2>2. RequestAges(req[r]')
      BY <1>0, <2>1 DEF RequestAges, TookInTime, FeeInTime, NothingReady, NoRequest
    <2>3. (\A s \in Requests : RequestAges(req[s]))'
      BY <1>0, <2>1, <2>2, OneRequestAges
    <2>4. QuoteAges'
      BY <1>6, FinishAges
    <2> QED
      BY <2>1, <2>3, <2>4 DEF AgeInv, CacheAges
  <1>7. CASE Tick
    <2>1. now' = now + 1 /\ UNCHANGED <<conf, priceCache, req, quote>>
      BY <1>7 DEF Tick
    <2>2. ASSUME NEW r \in Requests
          PROVE  RequestAges(req[r])'
      <3>1. ~(req[r] # NoRequest /\ req[r].priceStage = "done" /\ req[r].feeStage = "done")
        BY <1>7 DEF Tick, Ready, Idle, Waiting
      <3>2. req[r] \in RequestType /\ RequestAges(req[r])
        BY <1>0 DEF AgeInv
      <3> QED
        BY <1>0, <2>1, <3>1, <3>2 DEF RequestAges, TookInTime, FeeInTime, NothingReady, RequestType
    <2>3. CacheAges'
      BY <1>0, <2>1 DEF AgeInv, CacheAges, Price
    <2> QED
      BY <2>1, <2>2, <2>3 DEF AgeInv, QuoteAges, Quoted
  <1>8. CASE UNCHANGED vars
    BY <1>8 DEF vars, AgeInv, CacheAges, RequestAges, TookInTime, FeeInTime, NothingReady, QuoteAges, Quoted
  <1> QED
    BY <1>1, <1>2, <1>3, <1>4, <1>5, <1>6, <1>7, <1>8 DEF Next, Serve

\* Whatever overtakes what, and however long it takes: when a quote is made,
\* its rates are no older than the maximum age and the delay of the fee.
THEOREM RatesNotOld == Spec => []QuotedRateAge
  <1>1. TypeOK /\ AgeInv => QuotedRateAge
    <2> SUFFICES ASSUME TypeOK, AgeInv, Quoted
                 PROVE  quote.at - quote.read <= conf.maxAge + FeeDelay
      BY DEF QuotedRateAge
    <2>1. /\ quote.priceAt - quote.read <= conf.maxAge
          /\ quote.at = quote.priceAt \/ quote.at = quote.feeAt
      BY DEF AgeInv, QuoteAges
    <2>2. /\ quote.priceAt \in Nat /\ quote.read \in Nat /\ quote.at \in Nat /\ quote.feeAt \in Nat
          /\ conf.maxAge \in Nat
      BY PricingAssumption DEF TypeOK, Config
    <2> QED
      BY <2>1, <2>2 DEF FeeDelay, Greatest
  <1>2. Init => TypeOK /\ AgeInv
    BY InitType, InitAges
  <1>3. (TypeOK /\ AgeInv) /\ [Next]_vars => (TypeOK /\ AgeInv)'
    BY NextType, NextAges
  <1> QED
    BY <1>1, <1>2, <1>3, PTL DEF Spec

\* A price somebody can still pay is older by the time to live at most.
THEOREM PayableNotOld == Spec => []PayablePriceAge
  <1>1. TypeOK /\ QuotedRateAge => PayablePriceAge
    <2> SUFFICES ASSUME TypeOK, QuotedRateAge, Live
                 PROVE  now - quote.read <= conf.maxAge + FeeDelay + QuoteTtl
      BY DEF PayablePriceAge
    <2>1. quote.at - quote.read <= conf.maxAge + FeeDelay /\ now - quote.at <= QuoteTtl
      BY DEF QuotedRateAge, Quoted, Live
    <2>2. /\ quote.priceAt \in Nat /\ quote.read \in Nat /\ quote.at \in Nat /\ quote.feeAt \in Nat
          /\ now \in Nat /\ conf.maxAge \in Nat /\ QuoteTtl \in Nat
      BY PricingAssumption DEF TypeOK, Config
    <2>3. FeeDelay \in Int
      BY <2>2 DEF FeeDelay, Greatest
    <2> QED
      BY <2>1, <2>2, <2>3
  <1> QED
    BY <1>1, TypeCorrect, RatesNotOld, PTL

\* The fee of a quote is no older than the maximum age and the time its
\* request took.
THEOREM FeesNotOld == Spec => []QuotedFeeAge
  <1>1. TypeOK /\ AgeInv => QuotedFeeAge
    <2> SUFFICES ASSUME TypeOK, AgeInv, Quoted
                 PROVE  quote.at - quote.fee.ts <= conf.maxAge + (quote.at - quote.start)
      BY DEF QuotedFeeAge
    <2>1. quote.start - quote.fee.ts <= conf.maxAge
      BY DEF AgeInv, QuoteAges
    <2>2. quote.start \in Nat /\ quote.fee.ts \in Nat /\ quote.at \in Nat /\ conf.maxAge \in Nat
      BY PricingAssumption DEF TypeOK, Config, Fee
    <2> QED
      BY <2>1, <2>2
  <1>2. Init => TypeOK /\ AgeInv
    BY InitType, InitAges
  <1>3. (TypeOK /\ AgeInv) /\ [Next]_vars => (TypeOK /\ AgeInv)'
    BY NextType, NextAges
  <1> QED
    BY <1>1, <1>2, <1>3, PTL DEF Spec

-----------------------------------------------------------------------------
(***************************************************************************)
(* The amounts of a quote                                                  *)
(***************************************************************************)
\* A quote is made of settings, rates and a fee that are usable, and of
\* nothing else.
QuoteInv ==
    Quoted =>
        /\ Usable(conf, quote.flr, quote.xrp, quote.fee.fee)
        /\ quote.usd = Usd(conf, quote.flr, quote.fee.fee)
        /\ quote.drops = Drops(conf, quote.usd, quote.xrp)

\* Every step keeps that.
LEMMA NextQuote == QuoteInv /\ [Next]_vars => QuoteInv'
  <1> SUFFICES ASSUME QuoteInv, [Next]_vars
               PROVE  QuoteInv'
    OBVIOUS
  <1>1. CASE UNCHANGED <<conf, quote>>
    BY <1>1 DEF QuoteInv, Quoted
  <1>2. ASSUME NEW r \in Requests, Finish(r), Priced(req[r])
        PROVE  QuoteInv'
    BY <1>2 DEF Finish, Priced, MakeQuote, QuoteInv
  <1>3. (\E r \in Requests : Finish(r) /\ Priced(req[r])) \/ UNCHANGED <<conf, quote>>
    BY DEF Next, Serve, Ask, Answers, FtsoFails, KrakenFails, FeeAnswers, FeeFails, Finish, Tick, vars
  <1> QED
    BY <1>1, <1>2, <1>3

\* What calculateAttestationPrice promises of the amounts of every quote.
THEOREM AmountsRight == Spec => []QuoteIsRight
  <1>1. TypeOK /\ QuoteInv => QuoteIsRight
    <2> SUFFICES ASSUME TypeOK, QuoteInv, Quoted
                 PROVE  QuoteInRange /\ QuoteCoversCost /\ DropsCoverPrice
      BY DEF QuoteIsRight, QuoteInRange, QuoteCoversCost, DropsCoverPrice
    <2>1. /\ conf \in Config /\ quote.flr \in Nat /\ quote.fee.fee \in Nat /\ quote.xrp \in Nat
          /\ quote.usd \in Int
      BY PricingAssumption DEF TypeOK, Fee
    <2>2. conf.cap >= conf.floor /\ conf.step > 0 /\ quote.xrp > 0
      BY DEF QuoteInv, Usable
    <2>3. /\ quote.usd = Usd(conf, quote.flr, quote.fee.fee)
          /\ quote.drops = Drops(conf, quote.usd, quote.xrp)
      BY DEF QuoteInv
    <2>4. QuoteInRange /\ QuoteCoversCost
      BY <2>1, <2>2, <2>3, UsdBounds DEF QuoteInRange, QuoteCoversCost
    <2>5. DropsCoverPrice
      BY <2>1, <2>2, <2>3, DropsBounds DEF DropsCoverPrice
    <2> QED
      BY <2>4, <2>5
  <1>2. Init => TypeOK /\ QuoteInv
    BY InitType DEF Init, QuoteInv, Quoted
  <1>3. (TypeOK /\ QuoteInv) /\ [Next]_vars => (TypeOK /\ QuoteInv)'
    BY NextType, NextQuote
  <1> QED
    BY <1>1, <1>2, <1>3, PTL DEF Spec

=============================================================================
