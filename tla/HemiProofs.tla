----------------------------- MODULE HemiProofs -----------------------------
(***************************************************************************)
(* Proofs about the oracle of Hemi and Swell, for every table, feed, signed *)
(* value, stale period and decimals.                                        *)
(***************************************************************************)
EXTENDS HemiOracle, TLAPS

-----------------------------------------------------------------------------
\* Types.

\* The arrays of a request have one place or two.
LEMMA RequestType ==
  ASSUME NEW ids \in Pull!Requests
  PROVE  DOMAIN ids = {1} \/ DOMAIN ids = {1, 2}
<1>1. ASSUME NEW f \in Feed, ids = <<f>> PROVE DOMAIN ids = 1..1
  BY <1>1
<1>2. ASSUME NEW f \in Feed, NEW g \in Feed, ids = <<f, g>> PROVE DOMAIN ids = 1..2
  BY <1>2
<1>3. 1..1 = {1} /\ 1..2 = {1, 2}
  OBVIOUS
<1> QED
  BY <1>1, <1>2, <1>3 DEF Pull!Requests

\* A request updates the cache with positive or zero prices.
LEMMA UpdateType ==
  ASSUME Pull!TypeOK, NEW ids \in Pull!Requests, NEW t \in Pull!PackageTimes,
         NEW values \in Pull!Values(ids, t), Pull!UpdatePrice(ids, t, values)
  PROVE  cache' \in [Token -> Pull!CacheEntry]
<1>1. t \in Nat /\ t \in 1..(MaxTime + Skew)
  BY TimeAssumption, PullAssumption DEF Pull!TypeOK, Pull!PackageTimes
<1>2. ASSUME NEW i \in DOMAIN ids PROVE values[i] * ToScale \in Nat
  <2>1. ids[i] \in Feed
    BY DEF Pull!Requests
  <2>2. values[i] \in Signed(ids[i], t)
    BY DEF Pull!Values
  <2>3. values[i] \in Nat
    BY <1>1, <2>1, <2>2, PullAssumption
  <2> QED
    BY <2>3, AnswersAssumption
<1>3. ASSUME NEW x \in Token, Pull!Lists(ids, x) # {}
      PROVE  Pull!FirstListing(ids, x) \in DOMAIN ids
  <2>1. \E i \in Pull!Lists(ids, x) : \A j \in Pull!Lists(ids, x) : i <= j
    BY <1>3, RequestType DEF Pull!Lists
  <2> QED
    BY <2>1 DEF Pull!FirstListing, Pull!Lists
<1>4. ASSUME NEW x \in Token PROVE cache'[x] \in Pull!CacheEntry
  <2>1. CASE Pull!Lists(ids, x) # {} /\ t # cache[x].priceTimestamp
    <3>1. cache'[x] = [price |-> values[Pull!FirstListing(ids, x)] * ToScale,
                       priceTimestamp |-> t]
      BY <2>1 DEF Pull!UpdatePrice
    <3> QED
      BY <1>1, <1>2, <1>3, <2>1, <3>1 DEF Pull!CacheEntry
  <2>2. CASE ~(Pull!Lists(ids, x) # {} /\ t # cache[x].priceTimestamp)
    BY <2>2 DEF Pull!UpdatePrice, Pull!TypeOK
  <2> QED
    BY <2>1, <2>2
<1>5. cache' = [x \in Token |-> cache'[x]]
  BY DEF Pull!UpdatePrice
<1> QED
  BY <1>4, <1>5

\* A round is never dated after the block: the push feeds report when they are
\* written.
RoundsInThePast == \A g \in Aggregator : rounds[g].updatedAt <= now

HemiInv == HemiTypeOK /\ RoundsInThePast

LEMMA InitInv == HemiInit => HemiInv
<1> SUFFICES ASSUME HemiInit PROVE HemiInv
  OBVIOUS
<1>1. TypeOK
  BY AggregatorsAssumption DEF HemiInit, Init, TypeOK, Scaled, Round
<1>2. StaleTypeOK
  BY HemiAssumption DEF HemiInit, StaleInit, StaleTypeOK
<1>3. Pull!TypeOK
  BY TimeAssumption, PullAssumption DEF HemiInit, Pull!Init, Pull!TypeOK, Pull!CacheEntry
<1>4. RoundsInThePast
  BY TimeAssumption DEF HemiInit, Init, Pull!Init, RoundsInThePast
<1> QED
  BY <1>1, <1>2, <1>3, <1>4 DEF HemiInv, HemiTypeOK

\* The pull provider's actions.
LEMMA PullStep ==
  ASSUME HemiInv,
         \/ Pull!Tick \/ Pull!UpdatePrices
         \/ \E f \in Feed : \E tokens \in Listings : Pull!UpdateFeed(f, tokens)
  PROVE  Pull!TypeOK' /\ now' \in {now, now + 1}
<1> USE DEF HemiInv, HemiTypeOK
<1>1. CASE Pull!Tick
  BY <1>1, TimeAssumption DEF Pull!Tick, Pass, Pull!Pass, Pull!TypeOK
<1>2. CASE Pull!UpdatePrices
  <2>0. PICK ids \in Pull!Requests, t \in Pull!PackageTimes :
          \E values \in Pull!Values(ids, t) : Pull!UpdatePrice(ids, t, values)
    BY <1>2 DEF Pull!UpdatePrices
  <2>1. PICK values \in Pull!Values(ids, t) : Pull!UpdatePrice(ids, t, values)
    BY <2>0
  <2>2. cache' \in [Token -> Pull!CacheEntry]
    BY <2>1, UpdateType
  <2> QED
    BY <2>1, <2>2 DEF Pull!UpdatePrice, Pull!TypeOK
<1>3. ASSUME NEW f \in Feed, NEW tokens \in Listings, Pull!UpdateFeed(f, tokens)
      PROVE  Pull!TypeOK' /\ now' \in {now, now + 1}
  BY <1>3, PullAssumption DEF Pull!UpdateFeed, Pull!TypeOK
<1> QED
  BY <1>1, <1>2, <1>3

\* The push provider's actions.
LEMMA PushStep ==
  ASSUME HemiInv,
         \/ \E g \in Aggregator : \E answer \in Answers : Report(g, answer)
         \/ \E x \in Token : \E g \in Aggregator \cup {NoAggregator} : UpdateAggregator(x, g)
  PROVE  TypeOK' /\ RoundsInThePast' /\ now' = now
<1> USE DEF HemiInv, HemiTypeOK
<1>1. ASSUME NEW g \in Aggregator, NEW answer \in Answers, Report(g, answer)
      PROVE  TypeOK' /\ RoundsInThePast' /\ now' = now
  <2>1. now \in Nat
    BY TimeAssumption DEF Pull!TypeOK
  <2>2. rounds' \in [Aggregator -> Round]
    BY <1>1, <2>1 DEF Report, TypeOK, Round
  <2>3. RoundsInThePast'
    BY <1>1, <2>1 DEF Report, TypeOK, RoundsInThePast
  <2> QED
    BY <1>1, <2>2, <2>3 DEF Report, TypeOK
<1>2. ASSUME NEW x \in Token, NEW g \in Aggregator \cup {NoAggregator}, UpdateAggregator(x, g)
      PROVE  TypeOK' /\ RoundsInThePast' /\ now' = now
  BY <1>2 DEF UpdateAggregator, TypeOK, Scaled, RoundsInThePast
<1> QED
  BY <1>1, <1>2

\* The governor's changes of the stale periods.
LEMMA StaleStep ==
  ASSUME HemiInv,
         \/ \E x \in Token : \E period \in StalePeriods \cup {0} :
              UpdateCustomStalePeriod(x, period)
         \/ \E period \in StalePeriods : UpdateDefaultStalePeriod(period)
  PROVE  StaleTypeOK' /\ now' = now
  BY StalePeriodsAssumption
  DEF HemiInv, HemiTypeOK, StaleTypeOK, UpdateCustomStalePeriod, UpdateDefaultStalePeriod

LEMMA NextInv == HemiInv /\ [HemiNext]_hemiVars => HemiInv'
<1> SUFFICES ASSUME HemiInv, [HemiNext]_hemiVars PROVE HemiInv'
  OBVIOUS
<1> USE DEF HemiInv, HemiTypeOK
<1>1. CASE /\ \/ Pull!Tick \/ Pull!UpdatePrices
              \/ \E f \in Feed : \E tokens \in Listings : Pull!UpdateFeed(f, tokens)
           /\ UNCHANGED <<pushVars, staleVars>>
  <2>1. Pull!TypeOK' /\ now' \in {now, now + 1}
    BY <1>1, PullStep
  <2>2. TypeOK' /\ StaleTypeOK'
    BY <1>1 DEF pushVars, staleVars, TypeOK, StaleTypeOK
  <2>3. RoundsInThePast'
    BY <1>1, <2>1, TimeAssumption DEF pushVars, RoundsInThePast, TypeOK, Round, Pull!TypeOK
  <2> QED
    BY <2>1, <2>2, <2>3
<1>2. CASE /\ \/ \E g \in Aggregator : \E answer \in Answers : Report(g, answer)
              \/ \E x \in Token : \E g \in Aggregator \cup {NoAggregator} : UpdateAggregator(x, g)
           /\ UNCHANGED <<pullVars, staleVars>>
  <2>1. TypeOK' /\ RoundsInThePast' /\ now' = now
    BY <1>2, PushStep
  <2>2. Pull!TypeOK' /\ StaleTypeOK'
    BY <1>2, <2>1 DEF pullVars, staleVars, StaleTypeOK, Pull!TypeOK
  <2> QED
    BY <2>1, <2>2
<1>3. CASE /\ \/ \E x \in Token : \E period \in StalePeriods \cup {0} :
                   UpdateCustomStalePeriod(x, period)
              \/ \E period \in StalePeriods : UpdateDefaultStalePeriod(period)
           /\ UNCHANGED <<pullVars, pushVars>>
  <2>1. StaleTypeOK' /\ now' = now
    BY <1>3, StaleStep
  <2>2. Pull!TypeOK' /\ TypeOK' /\ RoundsInThePast'
    BY <1>3, <2>1 DEF pullVars, pushVars, Pull!TypeOK, TypeOK, RoundsInThePast
  <2> QED
    BY <2>1, <2>2
<1>4. CASE UNCHANGED hemiVars
  BY <1>4 DEF hemiVars, pullVars, pushVars, staleVars, TypeOK, StaleTypeOK, Pull!TypeOK,
              RoundsInThePast
<1> QED
  BY <1>1, <1>2, <1>3, <1>4 DEF HemiNext

LEMMA SpecInv == HemiSpec => []HemiInv
  BY InitInv, NextInv, PTL DEF HemiSpec

\* The tables, rounds, cache and periods keep their types; in particular no token
\* ever has an aggregator that TO_SCALE is wrong for.
THEOREM HemiTypeCorrect == HemiSpec => []HemiTypeOK
<1>1. HemiInv => HemiTypeOK
  BY DEF HemiInv
<1> QED
  BY <1>1, SpecInv, PTL

-----------------------------------------------------------------------------
\* The fallback.

\* What the pull provider serves with a price is within the tolerance of the block.
LEMMA MainAnswer ==
  ASSUME HemiInv, NEW x \in Token
  PROVE  LET main == MainPrice(x)
         IN /\ main.ok /\ main.amount \in Nat /\ main.at \in Nat
            /\ main = NoPrice \/
               (main.at = cache[x].priceTimestamp /\ main.at - now <= MaxTimeTolerance)
<1>1. cache[x].price \in Nat /\ cache[x].priceTimestamp \in Nat /\ now \in Nat
  BY TimeAssumption DEF HemiInv, HemiTypeOK, Pull!TypeOK, Pull!CacheEntry
<1> QED
  BY <1>1, PullAssumption
  DEF MainPrice, Pull!GetPriceInUsd, Pull!NoPrice, Pull!Answer, NoPrice, Answer

\* The push provider reverts or answers with a round of the past.
LEMMA FallbackAnswer ==
  ASSUME HemiInv, NEW x \in Token
  PROVE  LET answer == FallbackPrice(x)
         IN /\ answer.ok \in BOOLEAN /\ answer.amount \in Nat /\ answer.at \in Nat
            /\ answer.ok => answer.at <= now
<1> USE DEF HemiInv, HemiTypeOK
<1>1. CASE aggregators[x] = NoAggregator
  BY <1>1 DEF FallbackPrice, GetPriceInUsd, Reverted
<1>2. CASE aggregators[x] # NoAggregator
  <2> DEFINE round == rounds[aggregators[x]]
  <2>1. aggregators[x] \in Aggregator
    BY <1>2 DEF TypeOK, Scaled
  <2>2. round \in Round /\ round.updatedAt <= now
    BY <2>1 DEF TypeOK, RoundsInThePast
  <2>3. round.answer \in Int /\ round.updatedAt \in Nat
    <3>1. ASSUME NEW r \in Round PROVE r.answer \in Int /\ r.updatedAt \in Nat
      <4>1. r.answer \in Answers \cup {0} /\ r.updatedAt \in Nat
        BY DEF Round
      <4>2. \A a \in Answers : a \in Int
        BY AnswersAssumption
      <4>3. CASE r.answer = 0
        BY <4>1, <4>3
      <4>4. CASE r.answer \in Answers
        BY <4>1, <4>2, <4>4, Zenon
      <4> QED
        BY <4>1, <4>3, <4>4
    <3> HIDE DEF round
    <3> QED
      BY <2>2, <3>1
  <2>4. CASE round.answer < 0
    BY <1>2, <2>4 DEF FallbackPrice, GetPriceInUsd, Reverted
  <2>5. CASE ~(round.answer < 0)
    <3>1. round.answer * ToScale \in Nat
      BY <2>3, <2>5, AnswersAssumption
    <3>2. FallbackPrice(x) = Answer(round.answer * ToScale, round.updatedAt)
      BY <1>2, <2>5 DEF FallbackPrice, GetPriceInUsd
    <3> HIDE DEF round
    <3> QED
      BY <2>2, <2>3, <3>1, <3>2 DEF Answer
  <2> QED
    BY <2>4, <2>5
<1> QED
  BY <1>1, <1>2

LEMMA OutageBounded == HemiInv => OutageOnlyWhileAhead
<1> SUFFICES ASSUME HemiInv, NEW x \in Token, FallbackUsable(x), ~OraclePrice(x).ok
             PROVE  cache[x].priceTimestamp - now \in 1..MaxTimeTolerance
  BY DEF OutageOnlyWhileAhead
<1> DEFINE main == MainPrice(x)
           fallback == FallbackPrice(x)
<1>1. main.ok /\ main.amount \in Nat /\ main.at \in Nat
  BY MainAnswer
<1>2. fallback.ok /\ fallback.amount > 0 /\ fallback.at <= now
      /\ ~Stale(fallback.at, StalePeriodOf(x))
  BY FallbackAnswer DEF FallbackUsable
<1>3. now \in Nat
  BY TimeAssumption DEF HemiInv, HemiTypeOK, Pull!TypeOK
<1>4. fallback.at \in Nat
  BY FallbackAnswer
<1>5. main.amount > 0 /\ Ahead(main.at)
  <2> HIDE DEF main, fallback
  <2>1. OraclePrice(x) = FirstUsable(main, fallback, StalePeriodOf(x))
    BY DEF OraclePrice, PriceOf, main, fallback
  <2>2. ~(fallback.amount > 0 /\ Ahead(fallback.at))
    BY <1>2, <1>3, <1>4 DEF Ahead
  <2> QED
    BY <1>1, <1>2, <2>1, <2>2 DEF FirstUsable
<1>6. main # NoPrice
  BY <1>5 DEF NoPrice, Answer
<1>7. main.at = cache[x].priceTimestamp /\ main.at - now <= MaxTimeTolerance
  BY <1>6, MainAnswer
<1> QED
  BY <1>1, <1>3, <1>5, <1>7, PullAssumption DEF Ahead

\* A usable fallback is refused only while the cache holds a package from the
\* tolerance ahead of the block, whatever packages, rounds and periods there were:
\* the failure that HemiAhead shows is the only one.
THEOREM OutagesEndByThemselves == HemiSpec => []OutageOnlyWhileAhead
  BY SpecInv, OutageBounded, PTL

-----------------------------------------------------------------------------
\* The reads agree.

LEMMA WholeToken ==
  ASSUME NEW u \in Nat \ {0}, NEW a \in Nat
  PROVE  (u * a) \div u = a
  BY SMT

\* What one whole token of an answer is worth is the answer.
LEMMA QuoteOfOne ==
  ASSUME NEW answer, NEW u \in Nat \ {0},
         answer.ok => answer = Answer(answer.amount, answer.at) /\ answer.amount \in Nat,
         ~answer.ok => answer = Reverted
  PROVE  QuoteTokenToUsd(answer, u, u) = answer
  BY WholeToken DEF QuoteTokenToUsd

LEMMA WholeTokens == HemiInv => WholeTokenIsWorthItsPrice
<1> SUFFICES ASSUME HemiInv, NEW x \in Token
             PROVE  OracleTokenToUsd(x, Unit(x)) = OraclePrice(x)
  BY DEF WholeTokenIsWorthItsPrice
<1>1. Unit(x) \in Nat \ {0}
  BY HemiAssumption
<1>2. QuoteTokenToUsd(MainPrice(x), Unit(x), Unit(x)) = MainPrice(x)
  <2>1. MainPrice(x).ok /\ MainPrice(x).amount \in Nat
    BY MainAnswer
  <2>2. MainPrice(x) = Answer(MainPrice(x).amount, MainPrice(x).at)
    BY DEF MainPrice, Pull!GetPriceInUsd, Pull!NoPrice, Pull!Answer, Answer
  <2> QED
    BY <1>1, <2>1, <2>2, QuoteOfOne
<1>3. QuoteTokenToUsd(FallbackPrice(x), Unit(x), Unit(x)) = FallbackPrice(x)
  <2>1. FallbackPrice(x).amount \in Nat
    BY FallbackAnswer
  <2>2. \/ FallbackPrice(x) = Reverted
        \/ FallbackPrice(x) = Answer(FallbackPrice(x).amount, FallbackPrice(x).at)
    BY DEF FallbackPrice, GetPriceInUsd, Answer
  <2> QED
    BY <1>1, <2>1, <2>2, QuoteOfOne DEF Reverted, Answer
<1> QED
  BY <1>2, <1>3 DEF OracleTokenToUsd, TokenToUsd, OraclePrice, PriceOf

\* The price of a token and the dollars that one whole token is quoted for are the
\* same answer, of the same provider, for any decimals and whatever periods the
\* governor set.
THEOREM ReadsOfOneTokenAgree == HemiSpec => []WholeTokenIsWorthItsPrice
  BY SpecInv, WholeTokens, PTL

-----------------------------------------------------------------------------
\* Time alone.

LEMMA FallbackStays ==
  ASSUME UNCHANGED pushVars, NEW x \in Token
  PROVE  FallbackPrice(x)' = FallbackPrice(x)
  BY DEF pushVars, FallbackPrice, GetPriceInUsd

\* Only the clock's action moves the time.
LEMMA OnlyTickPasses ==
  ASSUME HemiInv, [HemiNext]_hemiVars, now' = now + 1
  PROVE  UNCHANGED <<pushVars, cache>>
<1>1. now \in Nat /\ now' # now
  BY TimeAssumption DEF HemiInv, HemiTypeOK, Pull!TypeOK
<1>2. HemiNext
  BY <1>1 DEF hemiVars
<1> QED
  BY <1>1, <1>2 DEF HemiNext, Pull!Tick, Pull!UpdatePrices, Pull!UpdatePrice, Pull!UpdateFeed,
     Report, UpdateAggregator, UpdateCustomStalePeriod, UpdateDefaultStalePeriod

\* When the main provider has no price, a second later either it still has none, or its
\* price is dated ahead of the block, or the price is nothing.
LEMMA MainRipens ==
  ASSUME HemiInv, HemiInv', UNCHANGED cache, now' = now + 1, MaxTimeTolerance > 0,
         NEW x \in Token, MainPrice(x) = NoPrice
  PROVE  \/ ~(MainPrice(x)'.amount > 0)
         \/ MainPrice(x)'.at > now'
<1> DEFINE at == cache[x].priceTimestamp
           amount == cache[x].price
<1>1. at \in Nat /\ amount \in Nat /\ now \in Nat
  BY TimeAssumption DEF HemiInv, HemiTypeOK, Pull!TypeOK, Pull!CacheEntry
<1>2. \/ at = 0
      \/ at < now /\ now - at > MaxTimeTolerance
      \/ at > now /\ at - now > MaxTimeTolerance
  BY <1>1 DEF MainPrice, Pull!GetPriceInUsd, Pull!NoPrice, Pull!Answer, NoPrice, Answer
<1>3. \/ MainPrice(x)' = NoPrice
      \/ MainPrice(x)' = Answer(amount, at)
  BY DEF MainPrice, Pull!GetPriceInUsd, Pull!NoPrice, Pull!Answer, NoPrice, Answer
<1>4. CASE at = 0 \/ (at < now /\ now - at > MaxTimeTolerance)
  BY <1>1, <1>4, PullAssumption
  DEF MainPrice, Pull!GetPriceInUsd, Pull!NoPrice, Pull!Answer, Answer
<1>5. CASE at > now /\ at - now > MaxTimeTolerance
  <2>1. at > now + 1
    BY <1>1, <1>5, PullAssumption
  <2> HIDE DEF at, amount
  <2> QED
    BY <1>3, <2>1 DEF NoPrice, Answer
<1> QED
  BY <1>2, <1>4, <1>5

LEMMA StepPrefersFallback ==
  ASSUME MaxTimeTolerance > 0, HemiInv, HemiInv', [HemiNext]_hemiVars, now' = now + 1,
         NEW x \in Token, OraclePrice(x).ok, OraclePrice(x)'.ok, MainPrice(x) = NoPrice
  PROVE  OraclePrice(x)' = OraclePrice(x)
<1>1. FallbackPrice(x)' = FallbackPrice(x)
  BY OnlyTickPasses, FallbackStays
<1>2. OraclePrice(x) = FallbackPrice(x)
  BY DEF OraclePrice, PriceOf, FirstUsable, NoPrice, Answer, Reverted
<1>3. \/ ~(MainPrice(x)'.amount > 0)
      \/ MainPrice(x)'.at > now'
  BY OnlyTickPasses, MainRipens
<1>4. OraclePrice(x)' = FallbackPrice(x)'
  BY <1>3 DEF OraclePrice, PriceOf, FirstUsable, Ahead, Reverted
<1> QED
  BY <1>1, <1>2, <1>4

\* If a pull price may be ahead of the block by a second or more, as in the contract by
\* sixty, the passing of a second never takes a reader from the fallback to the main
\* provider: it is refused in between.
THEOREM TimeAloneKeepsTheFallback ==
  ASSUME MaxTimeTolerance > 0
  PROVE  HemiSpec => TimeAloneNeverPrefersMain
<1>1. HemiInv /\ HemiInv' /\ [HemiNext]_hemiVars =>
        [now' = now + 1 =>
           \A x \in Token :
             OraclePrice(x).ok /\ OraclePrice(x)'.ok /\ MainPrice(x) = NoPrice
               => OraclePrice(x)' = OraclePrice(x)]_hemiVars
  BY StepPrefersFallback
<1> QED
  BY <1>1, SpecInv, PTL DEF HemiSpec, TimeAloneNeverPrefersMain

-----------------------------------------------------------------------------
\* Round trips.

\* What is sold at one price and bought back at the same or a higher one does not grow:
\* both conversions round down.
LEMMA ThereAndBack ==
  ASSUME NEW amountIn \in Nat, NEW sold \in Nat, NEW bought \in Nat \ {0}, NEW u \in Nat \ {0},
         sold <= bought
  PROVE  (((amountIn * sold) \div u) * u) \div bought <= amountIn
<1> DEFINE usd == (amountIn * sold) \div u
<1>1. \A n \in Nat, d \in Nat \ {0} : n \div d \in Nat /\ (n \div d) * d <= n
  BY SMT
<1>2. amountIn * sold \in Nat /\ amountIn * bought \in Nat
  OBVIOUS
<1>3. usd \in Nat /\ usd * u <= amountIn * sold
  BY <1>1, <1>2
<1> HIDE DEF usd
<1>4. amountIn * sold <= amountIn * bought
  BY SMT
<1>5. usd * u \in Nat /\ usd * u <= amountIn * bought
  BY <1>2, <1>3, <1>4
<1>6. \A n \in Nat, d \in Nat \ {0}, m \in Nat : n <= m * d => n \div d <= m
  BY SMT
<1>7. (usd * u) \div bought <= amountIn
  BY <1>5, <1>6
<1> QED
  BY <1>7 DEF usd

\* Whose answer is used, and why not the main provider's.
LEMMA Chosen ==
  ASSUME NEW main, NEW fallback, NEW period, main.ok, main.amount \in Nat,
         fallback.amount \in Nat, FirstUsable(main, fallback, period).ok
  PROVE  \/ /\ FirstUsable(main, fallback, period) = main
            /\ main.amount > 0 /\ ~Ahead(main.at) /\ ~Stale(main.at, period)
         \/ /\ FirstUsable(main, fallback, period) = fallback /\ fallback.ok
            /\ fallback.amount > 0
            /\ main.amount = 0 \/ Stale(main.at, period)
  BY DEF FirstUsable, Reverted

LEMMA TripsDoNotGain ==
  ASSUME HemiInv, NEW x \in Token, NEW amountIn \in Nat \ {0}, OracleQuote(x, x, amountIn).ok
  PROVE  LET main == MainPrice(x)
             inUsd == OracleTokenToUsd(x, amountIn)
             back == OracleQuote(x, x, amountIn)
         IN \/ back.amount <= amountIn
            \/ /\ QuoteTokenToUsd(main, amountIn, Unit(x)).amount = 0
               /\ main.amount \in 1..(FallbackPrice(x).amount - 1)
            \/ /\ QuoteUsdToToken(main, inUsd.amount, Unit(x)).amount = 0
               /\ main.amount > FallbackPrice(x).amount
<1> DEFINE u == Unit(x)
           period == StalePeriodOf(x)
           main == MainPrice(x)
           fallback == FallbackPrice(x)
           inUsd == OracleTokenToUsd(x, amountIn)
           back == OracleQuote(x, x, amountIn)
           mainSold == QuoteTokenToUsd(main, amountIn, u)
           fallbackSold == QuoteTokenToUsd(fallback, amountIn, u)
           mainBought == QuoteUsdToToken(main, inUsd.amount, u)
           fallbackBought == QuoteUsdToToken(fallback, inUsd.amount, u)
<1>1. u \in Nat \ {0} /\ amountIn \in Nat
  BY HemiAssumption
<1>2. main.ok /\ main.amount \in Nat /\ fallback.amount \in Nat
  BY MainAnswer, FallbackAnswer
<1>3. /\ inUsd = FirstUsable(mainSold, fallbackSold, period)
      /\ inUsd.ok => back = FirstUsable(mainBought, fallbackBought, period)
      /\ inUsd.ok
  BY DEF OracleQuote, OracleUsdToToken, UsdToToken, OracleTokenToUsd, TokenToUsd, Reverted
<1> HIDE DEF u, period, main, fallback, inUsd, back
<1>4. \A n \in Nat, d \in Nat \ {0} : n \div d \in Nat
  BY SMT
<1>5. /\ mainSold.ok /\ mainSold.amount = (amountIn * main.amount) \div u
      /\ mainSold.at = main.at
      /\ fallbackSold.ok => /\ fallback.ok
                            /\ fallbackSold.amount = (amountIn * fallback.amount) \div u
      /\ fallbackSold.ok \/ fallbackSold.amount = 0
  BY <1>2 DEF QuoteTokenToUsd, Answer, Reverted
<1>6. mainSold.amount \in Nat /\ fallbackSold.amount \in Nat
  BY <1>1, <1>2, <1>4, <1>5
<1> HIDE DEF mainSold, fallbackSold
<1>7. \/ /\ inUsd = mainSold /\ mainSold.amount > 0 /\ ~Stale(main.at, period)
      \/ /\ inUsd = fallbackSold /\ fallbackSold.ok
         /\ mainSold.amount = 0 \/ Stale(main.at, period)
  BY <1>3, <1>5, <1>6, Chosen
<1>8. inUsd.amount \in Nat
  BY <1>6, <1>7
<1>9. /\ mainBought.ok
      /\ main.amount = 0 => mainBought.amount = 0
      /\ main.amount # 0 => /\ mainBought.amount = (inUsd.amount * u) \div main.amount
                            /\ mainBought.at = main.at
      /\ fallbackBought.ok =>
           /\ fallback.amount = 0 => fallbackBought.amount = 0
           /\ fallback.amount # 0 =>
                fallbackBought.amount = (inUsd.amount * u) \div fallback.amount
      /\ fallbackBought.ok \/ fallbackBought.amount = 0
  BY <1>2 DEF QuoteUsdToToken, NoPrice, Answer, Reverted
<1>10. mainBought.amount \in Nat /\ fallbackBought.amount \in Nat
  BY <1>1, <1>2, <1>4, <1>8, <1>9
<1> HIDE DEF mainBought, fallbackBought
<1>11. back.ok
  BY DEF back
<1>12. \/ /\ back = mainBought /\ mainBought.amount > 0 /\ ~Stale(mainBought.at, period)
       \/ /\ back = fallbackBought /\ fallbackBought.ok /\ fallbackBought.amount > 0
          /\ mainBought.amount = 0 \/ Stale(mainBought.at, period)
  BY <1>3, <1>9, <1>10, <1>11, Chosen
<1> SUFFICES \/ back.amount <= amountIn
             \/ /\ mainSold.amount = 0 /\ main.amount \in 1..(fallback.amount - 1)
             \/ /\ mainBought.amount = 0 /\ main.amount > fallback.amount
  BY DEF mainSold, mainBought, main, fallback, u, inUsd, back
<1>0. \A sold \in Nat, bought \in Nat \ {0} :
        sold <= bought => (((amountIn * sold) \div u) * u) \div bought <= amountIn
  BY <1>1, ThereAndBack
<1>13. CASE inUsd = mainSold /\ back = mainBought /\ mainBought.amount > 0
  <2>1. main.amount \in Nat \ {0}
    BY <1>2, <1>9, <1>13
  <2>2. back.amount = (((amountIn * main.amount) \div u) * u) \div main.amount
    BY <1>5, <1>9, <1>13, <2>1
  <2> QED
    BY <1>0, <2>1, <2>2
<1>14. CASE /\ inUsd = fallbackSold /\ fallbackSold.ok
            /\ back = fallbackBought /\ fallbackBought.ok /\ fallbackBought.amount > 0
  <2>1. fallback.amount \in Nat \ {0}
    BY <1>2, <1>9, <1>14
  <2>2. back.amount = (((amountIn * fallback.amount) \div u) * u) \div fallback.amount
    BY <1>5, <1>9, <1>14, <2>1
  <2> QED
    BY <1>0, <2>1, <2>2
<1>15. CASE /\ inUsd = mainSold /\ mainSold.amount > 0 /\ ~Stale(main.at, period)
            /\ back = fallbackBought /\ fallbackBought.ok /\ fallbackBought.amount > 0
            /\ mainBought.amount = 0 \/ Stale(mainBought.at, period)
  <2>1. mainBought.amount = 0
    BY <1>9, <1>15
  <2>2. CASE main.amount > fallback.amount
    BY <2>1, <2>2
  <2>3. CASE main.amount <= fallback.amount
    <3>1. fallback.amount \in Nat \ {0}
      BY <1>2, <1>9, <1>15
    <3>2. back.amount = (((amountIn * main.amount) \div u) * u) \div fallback.amount
      BY <1>5, <1>9, <1>15, <3>1
    <3> QED
      BY <1>0, <1>2, <2>3, <3>1, <3>2
  <2> QED
    BY <1>2, <2>2, <2>3
<1>16. CASE /\ inUsd = fallbackSold /\ fallbackSold.ok
            /\ mainSold.amount = 0 \/ Stale(main.at, period)
            /\ back = mainBought /\ mainBought.amount > 0 /\ ~Stale(mainBought.at, period)
  <2>1. main.amount \in Nat \ {0} /\ mainSold.amount = 0
    BY <1>2, <1>9, <1>16
  <2>2. CASE main.amount < fallback.amount
    <3>1. main.amount \in 1..(fallback.amount - 1)
      BY <1>2, <2>1, <2>2
    <3> QED
      BY <2>1, <3>1
  <2>3. CASE fallback.amount <= main.amount
    <3>1. back.amount = (((amountIn * fallback.amount) \div u) * u) \div main.amount
      BY <1>5, <1>9, <1>16, <2>1
    <3> QED
      BY <1>0, <1>2, <2>1, <2>3, <3>1
  <2> QED
    BY <1>2, <2>2, <2>3
<1> QED
  BY <1>7, <1>12, <1>13, <1>14, <1>15, <1>16

\* Selling and buying back never gains, at whatever prices, ages, periods and decimals,
\* but for the amounts of one leg that round to nothing at the main provider's price.
THEOREM TripsNeverGain == HemiSpec => []RoundTripNeverGains
<1>1. HemiInv => RoundTripNeverGains
  <2> SUFFICES ASSUME HemiInv, NEW x \in Token, NEW amountIn \in 1..(2 * Unit(x)),
                      OracleQuote(x, x, amountIn).ok
      PROVE LET main == MainPrice(x)
                inUsd == OracleTokenToUsd(x, amountIn)
                back == OracleQuote(x, x, amountIn)
            IN \/ back.amount <= amountIn
               \/ /\ QuoteTokenToUsd(main, amountIn, Unit(x)).amount = 0
                  /\ main.amount \in 1..(FallbackPrice(x).amount - 1)
               \/ /\ QuoteUsdToToken(main, inUsd.amount, Unit(x)).amount = 0
                  /\ main.amount > FallbackPrice(x).amount
    BY DEF RoundTripNeverGains
  <2>1. amountIn \in Nat \ {0}
    BY HemiAssumption
  <2> QED
    BY <2>1, TripsDoNotGain
<1> QED
  BY <1>1, SpecInv, PTL
=============================================================================
