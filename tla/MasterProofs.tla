---------------------------- MODULE MasterProofs ----------------------------
(***************************************************************************)
(* Proofs about Pyth's provider, the oracles over one provider and the      *)
(* conversions under the master oracle, for every token, price and time.    *)
(***************************************************************************)
EXTENDS MasterOracle, IntegerTheorems

-----------------------------------------------------------------------------
\* Pyth's provider keeps its types, and no ether, in every step of the composition.

LEMMA UpdatesType ==
  ASSUME now \in Nat, NEW f \in FeedId, NEW update \in Updates(f)
  PROVE  update \in PriceInfo
<1>1. PICK p \in Published(f), t \in 1..(now + Skew) :
        update = [price |-> p.price, expo |-> p.expo, publishTime |-> t]
  BY DEF Updates
<1>2. p \in [price : Int, expo : Int] /\ t \in Nat
  BY PythAssumption
<1> QED
  BY <1>1, <1>2 DEF PriceInfo

LEMMA PythInit == Init => TypeOK
BY FeedIdsAssumption, TimeAssumption DEF Init, TypeOK, NeverPublished, PriceInfo

LEMMA PythStep ==
  ASSUME TypeOK, PythNext
  PROVE  TypeOK'
<1> USE DEF TypeOK
<1>1. ASSUME NEW f \in FeedId, NEW update \in Updates(f), NEW value \in Payments,
             UpdatePrice(f, update, value)
      PROVE  TypeOK'
  <2>1. now \in Nat
    BY TimeAssumption
  <2>2. update \in PriceInfo
    BY <2>1, UpdatesType
  <2>3. priceInfo' \in [FeedId -> PriceInfo]
    BY <1>1, <2>2 DEF UpdatePrice, Stored
  <2>4. ether' = 0
    BY <1>1, PythAssumption DEF UpdatePrice
  <2> QED
    BY <1>1, <2>3, <2>4 DEF UpdatePrice
<1>2. ASSUME NEW x \in Fed, NEW f \in FeedId \cup {NoFeedId}, UpdateFeedId(x, f)
      PROVE  TypeOK'
  BY <1>2 DEF UpdateFeedId
<1> QED
  BY <1>1, <1>2 DEF PythNext

LEMMA MasterStep == TypeOK /\ [MasterNext]_allVars => TypeOK'
<1> SUFFICES ASSUME TypeOK, [MasterNext]_allVars PROVE TypeOK'
  OBVIOUS
<1>1. CASE Tick
  BY <1>1, TimeAssumption DEF Tick, Pass, TypeOK, pythVars
<1>2. CASE PythNext
  BY <1>2, PythStep
<1>3. CASE UNCHANGED <<now, pythVars>>
  BY <1>3 DEF TypeOK, pythVars
<1> QED
  BY <1>1, <1>2, <1>3 DEF MasterNext, allVars

THEOREM PythTypeCorrect == MasterSpec => []TypeOK
<1>1. MasterInit => TypeOK
  BY PythInit DEF MasterInit
<1> QED
  BY <1>1, MasterStep, PTL DEF MasterSpec

-----------------------------------------------------------------------------
\* A served price is at most the tolerance late and at most the tolerance early.
LEMMA ServedIsTimely ==
  ASSUME TypeOK, NEW x \in Token, Priced(x)
  PROVE  /\ GetPriceInUsd(x).at \in Nat
         /\ now - GetPriceInUsd(x).at <= MaxTimeTolerance
         /\ GetPriceInUsd(x).at - now <= MaxTimeTolerance
<1> DEFINE info == priceInfo[feedIds[x]]
<1>1. GetPriceInUsd(x) # NoPrice /\ GetPriceInUsd(x) # Reverted
  BY DEF Priced, NoPrice, Reverted, Answer
<1>2. feedIds[x] \in FeedId
  BY <1>1 DEF TypeOK, GetPriceInUsd
<1>3. info.publishTime \in Nat
  BY <1>2 DEF TypeOK, PriceInfo
<1>4. GetPriceInUsd(x).at = info.publishTime /\ Timely(info.publishTime)
  BY <1>1 DEF GetPriceInUsd, Answer
<1> QED
  BY <1>3, <1>4 DEF Timely

LEMMA CloseLegs == TypeOK => LegsAreClose
<1> SUFFICES ASSUME TypeOK, NEW x \in Token, NEW y \in Token, Priced(x), Priced(y)
             PROVE  GetPriceInUsd(x).at - GetPriceInUsd(y).at <= 2 * MaxTimeTolerance
  BY DEF LegsAreClose
<1>1. now \in Nat
  BY TimeAssumption DEF TypeOK
<1> QED
  BY <1>1, ServedIsTimely, PythAssumption

\* No quote mixes prices of Pyth's that were published further apart than twice the
\* tolerance, whoever updated them and whenever.
THEOREM QuotedPricesAreClose == MasterSpec => []LegsAreClose
<1> QED
  BY PythTypeCorrect, CloseLegs, PTL

-----------------------------------------------------------------------------
\* The conversions.

AnswerType == [ok : BOOLEAN, amount : Nat, at : Nat]

\* A quotient, multiplied, does not exceed the dividend.
LEMMA DivBounds ==
  ASSUME NEW n \in Nat, NEW d \in Nat \ {0}
  PROVE  n \div d \in Nat /\ (n \div d) * d <= n
OBVIOUS

\* A factor common to both sides of an inequality.
LEMMA CancelFactor ==
  ASSUME NEW a \in Nat, NEW b \in Nat, NEW d \in Nat \ {0}, a * d <= b * d
  PROVE  a <= b
OBVIOUS

\* What is bought for one part of a token, sold again, is at most that part.
LEMMA ThereAndBack ==
  ASSUME NEW m \in Nat, NEW k \in Nat \ {0}, NEW l \in Nat \ {0}
  PROVE  (((m * k) \div l) * l) \div k <= m
<1> DEFINE n == (m * k) \div l
           r == (n * l) \div k
<1>1. m * k \in Nat
  OBVIOUS
<1>2. n \in Nat /\ n * l <= m * k
  BY <1>1, DivBounds
<1> HIDE DEF n
<1>3. n * l \in Nat
  BY <1>2
<1>4. r \in Nat /\ r * k <= n * l
  BY <1>3, DivBounds
<1> HIDE DEF r
<1>5. r * k \in Nat
  BY <1>4
<1>6. r * k <= m * k
  BY <1>1, <1>2, <1>3, <1>4, <1>5
<1>7. r <= m
  BY <1>4, <1>6, CancelFactor
<1> QED
  BY <1>7 DEF r, n

\* A conversion of less does not give more.
LEMMA ConversionGrows ==
  ASSUME NEW m \in Nat, NEW n \in Nat, m <= n, NEW k \in Nat, NEW l \in Nat \ {0}
  PROVE  (m * k) \div l <= (n * k) \div l
<1>1. m * k \in Nat /\ n * k \in Nat /\ m * k <= n * k
  OBVIOUS
<1>2. ASSUME NEW a \in Nat, NEW b \in Nat, a <= b PROVE a \div l <= b \div l
  BY <1>2
<1> QED
  BY <1>1, <1>2

\* Whatever the two prices are, an amount quoted into another token and back, over
\* both decimals and four divisions, does not grow.
THEOREM QuotesThereAndBackNeverGain ==
  ASSUME NEW P \in [Token -> AnswerType], NEW x \in Token, NEW y \in Token,
         NEW amountIn \in Nat,
         Quote(P, x, y, amountIn).ok
  PROVE  Quote(P, y, x, Quote(P, x, y, amountIn).amount).amount <= amountIn
<1> DEFINE u == OneUnit(x)
           v == OneUnit(y)
           p == P[x].amount
           q == P[y].amount
           usd == (amountIn * p) \div u
           there == Quote(P, x, y, amountIn).amount
           usdBack == (there * q) \div v
<1>1. u \in Nat \ {0} /\ v \in Nat \ {0} /\ p \in Nat /\ q \in Nat
  BY MasterAssumption DEF AnswerType
<1>2. P[x].ok /\ P[y].ok
  BY DEF Quote, QuoteThroughUsd, QuoteTokenToUsd, QuoteUsdToToken, Reverted, Answer
<1>3. there = IF q = 0 THEN 0 ELSE (usd * v) \div q
  BY <1>2 DEF Quote, QuoteThroughUsd, QuoteTokenToUsd, QuoteUsdToToken, Reverted, NoPrice,
              Answer
<1>4. usd \in Nat
  <2>1. amountIn * p \in Nat
    BY <1>1
  <2> QED
    BY <1>1, <2>1, DivBounds
<1>5. there \in Nat
  <2>1. usd * v \in Nat
    BY <1>1, <1>4
  <2> QED
    BY <1>1, <1>3, <2>1, DivBounds
<1>6. Quote(P, y, x, there).amount = IF p = 0 THEN 0 ELSE (usdBack * u) \div p
  BY <1>2 DEF Quote, QuoteThroughUsd, QuoteTokenToUsd, QuoteUsdToToken, Reverted, NoPrice,
              Answer
<1> HIDE DEF there
<1>7. usdBack \in Nat
  <2>1. there * q \in Nat
    BY <1>1, <1>5
  <2> QED
    BY <1>1, <2>1, DivBounds
<1>8. usdBack <= usd
  <2>1. CASE q = 0
    <3>1. usdBack = 0 \div v
      BY <1>5, <2>1
    <3> QED
      BY <1>1, <1>4, <3>1
  <2>2. CASE q # 0
    BY <1>1, <1>3, <1>4, <2>2, ThereAndBack
  <2> QED
    BY <2>1, <2>2
<1> HIDE DEF usdBack
<1>9. CASE p = 0
  BY <1>6, <1>9 DEF there
<1>10. CASE p # 0
  <2>1. (usdBack * u) \div p <= (usd * u) \div p
    BY <1>1, <1>4, <1>7, <1>8, <1>10, ConversionGrows
  <2>2. (usd * u) \div p <= amountIn
    BY <1>1, <1>10, ThereAndBack
  <2>3. usdBack * u \in Nat /\ usd * u \in Nat
    BY <1>1, <1>4, <1>7
  <2>4. (usdBack * u) \div p \in Nat /\ (usd * u) \div p \in Nat
    BY <1>1, <1>10, <2>3, DivBounds
  <2>5. (usdBack * u) \div p <= amountIn
    BY <2>1, <2>2, <2>4
  <2> QED
    BY <1>6, <1>10, <2>5 DEF there
<1> QED
  BY <1>9, <1>10
-----------------------------------------------------------------------------
\* The oracles over one provider.

\* A price that Pyth's provider scales is an amount.
LEMMA PythPriceType ==
  ASSUME TypeOK, NEW x \in Token
  PROVE  GetPriceInUsd(x) \in AnswerType
<1> DEFINE info == priceInfo[feedIds[x]]
<1>1. Reverted \in AnswerType /\ NoPrice \in AnswerType
  BY DEF Reverted, NoPrice, Answer, AnswerType
<1>2. CASE GetPriceInUsd(x) \in {Reverted, NoPrice}
  BY <1>1, <1>2
<1>3. CASE GetPriceInUsd(x) \notin {Reverted, NoPrice}
  <2>1. feedIds[x] \in FeedId
    BY <1>3 DEF TypeOK, GetPriceInUsd
  <2>2. info.price \in Int /\ info.expo \in Int /\ info.publishTime \in Nat
    BY <2>1 DEF TypeOK, PriceInfo
  <2>3. /\ info.price >= 0 /\ info.expo >= -UsdDecimals /\ info.expo <= 0
        /\ GetPriceInUsd(x)
             = Answer(info.price * 10 ^ (UsdDecimals + info.expo), info.publishTime)
    BY <1>3, <2>2, PythAssumption DEF GetPriceInUsd
  <2> HIDE DEF info
  <2>4. UsdDecimals + info.expo \in 0..UsdDecimals
    BY <2>2, <2>3, PythAssumption
  <2>5. 10 ^ (UsdDecimals + info.expo) \in Nat
    BY <2>4, PowersAssumption
  <2>6. info.price * 10 ^ (UsdDecimals + info.expo) \in Nat
    BY <2>2, <2>3, <2>5
  <2> QED
    BY <2>2, <2>3, <2>6 DEF Answer, AnswerType
<1> QED
  BY <1>2, <1>3

\* The conversions of a price are answers, and what they are worth is dated as the price.
LEMMA ConversionTypes ==
  ASSUME NEW price \in AnswerType, NEW amountIn \in Nat, NEW one \in Nat \ {0}
  PROVE  /\ QuoteTokenToUsd(price, amountIn, one) \in AnswerType
         /\ QuoteUsdToToken(price, amountIn, one) \in AnswerType
         /\ \A answer \in {QuoteTokenToUsd(price, amountIn, one),
                           QuoteUsdToToken(price, amountIn, one)} :
              answer.ok /\ answer.amount > 0 =>
                price.ok /\ price.amount > 0 /\ answer.at = price.at
<1>1. price.amount \in Nat /\ price.at \in Nat
  BY DEF AnswerType
<1>2. amountIn * price.amount \in Nat /\ amountIn * one \in Nat
  BY <1>1
<1>3. (amountIn * price.amount) \div one \in Nat
  BY <1>2, DivBounds
<1>4. price.amount # 0 => (amountIn * one) \div price.amount \in Nat
  BY <1>1, <1>2, DivBounds
<1>5. price.amount = 0 => (amountIn * price.amount) \div one = 0
  BY <1>1
<1> QED
  BY <1>1, <1>3, <1>4, <1>5
     DEF QuoteTokenToUsd, QuoteUsdToToken, Answer, Reverted, NoPrice, AnswerType

\* The instance of MainOracle converts as the provider does.
LEMMA SameConversions ==
  /\ Main!Reverted = Reverted
  /\ \A amount, at : Main!Answer(amount, at) = Answer(amount, at)
  /\ \A price, amountIn, one :
       /\ Main!QuoteTokenToUsd(price, amountIn, one) = QuoteTokenToUsd(price, amountIn, one)
       /\ Main!QuoteUsdToToken(price, amountIn, one) = QuoteUsdToToken(price, amountIn, one)
  /\ \A priceIn, priceOut, amountIn, oneIn, oneOut :
       Main!QuoteThroughUsd(priceIn, priceOut, amountIn, oneIn, oneOut)
         = QuoteThroughUsd(priceIn, priceOut, amountIn, oneIn, oneOut)
BY DEF Main!Reverted, Main!Answer, Main!NoPrice, Main!QuoteTokenToUsd, Main!QuoteUsdToToken,
       Main!QuoteThroughUsd, Reverted, Answer, NoPrice, QuoteTokenToUsd, QuoteUsdToToken,
       QuoteThroughUsd

\* No price that the provider lets pass is too old.
LEMMA NoneIsTooOld ==
  ASSUME TypeOK, StalePeriod >= MaxTimeTolerance, NEW x \in Token, Priced(x)
  PROVE  now - GetPriceInUsd(x).at <= StalePeriod
<1>1. now \in Nat
  BY TimeAssumption DEF TypeOK
<1> QED
  BY <1>1, ServedIsTimely, PythAssumption, MasterAssumption

\* MainOracle's requirement over an answer that is not too old.
LEMMA CheckedAnswer ==
  ASSUME now \in Nat, NEW answer \in AnswerType, NEW x \in Token, NEW at \in Nat,
         answer.ok /\ answer.amount > 0 => answer.at = at /\ now - at <= StalePeriod
  PROVE  Main!IsPullUnlessEarly(Main!MainPrice(answer, x), Main!PullPrice(answer), {at})
<1> USE DEF AnswerType
<1>1. Main!PullPrice(answer) = [ok |-> answer.ok, amount |-> answer.amount, at |-> 0]
  BY DEF Main!PullPrice, Main!Undated
<1>2. Main!Valid(answer, x) <=> answer.ok /\ answer.amount > 0 /\ ~(at > now)
  BY MasterAssumption DEF Main!Valid, Main!Ahead, Main!Stale, Main!StalePeriodOf
<1>3. Main!MainPrice(answer, x)
        = IF answer.ok /\ answer.amount > 0 /\ ~(at > now)
          THEN Main!PullPrice(answer) ELSE Main!Reverted
  BY <1>2 DEF Main!MainPrice, Main!PullPrice
<1>4. /\ Main!PullPrice(answer).ok = answer.ok
      /\ Main!PullPrice(answer).amount = answer.amount
  BY <1>1
<1> QED
  BY <1>3, <1>4 DEF Main!IsPullUnlessEarly, Main!Ahead

\* The quote has the times of two prices, which are checked in order.
LEMMA CheckedQuote ==
  ASSUME now \in Nat, NEW px \in AnswerType, NEW py \in AnswerType,
         NEW x \in Token, NEW y \in Token,
         NEW amountIn \in Nat, NEW one \in Nat \ {0}, NEW oneOut \in Nat \ {0},
         px.ok /\ px.amount > 0 => now - px.at <= StalePeriod,
         py.ok /\ py.amount > 0 => now - py.at <= StalePeriod
  PROVE  Main!IsPullUnlessEarly(Main!MainQuote(px, py, x, y, amountIn, one, oneOut),
                                Main!PullQuote(px, py, amountIn, one, oneOut), {px.at, py.at})
<1> DEFINE usd == QuoteTokenToUsd(px, amountIn, one)
           bought == QuoteUsdToToken(py, usd.amount, oneOut)
           out == QuoteThroughUsd(px, py, amountIn, one, oneOut)
           main == Main!MainQuote(px, py, x, y, amountIn, one, oneOut)
           pull == Main!PullQuote(px, py, amountIn, one, oneOut)
           checkedIn == [ok |-> out.ok, amount |-> out.amount, at |-> out.inAt]
           checkedOut == [ok |-> out.ok, amount |-> out.amount, at |-> out.outAt]
<1>1. usd \in AnswerType
      /\ (usd.ok /\ usd.amount > 0 => px.ok /\ px.amount > 0 /\ usd.at = px.at)
  BY ConversionTypes
<1>2. usd.amount \in Nat
  BY <1>1 DEF AnswerType
<1>3. bought \in AnswerType
      /\ (bought.ok /\ bought.amount > 0 => py.ok /\ py.amount > 0 /\ bought.at = py.at)
  BY <1>2, ConversionTypes
<1>4. bought.amount > 0 => usd.amount > 0
  <2>1. usd.amount = 0 => bought.amount = 0
    <3>1. py.amount \in Nat /\ 0 * oneOut = 0
      BY DEF AnswerType
    <3>2. py.amount # 0 => 0 \div py.amount = 0
      BY <3>1
    <3> QED
      BY <3>1, <3>2 DEF QuoteUsdToToken, Reverted, NoPrice, Answer
  <2>2. bought.amount \in Nat
    BY <1>3 DEF AnswerType
  <2> QED
    BY <1>2, <2>1, <2>2
<1>5. out = [ok |-> usd.ok /\ bought.ok, amount |-> bought.amount,
             inAt |-> usd.at, outAt |-> bought.at]
  BY DEF QuoteThroughUsd
<1> HIDE DEF usd, bought
<1>6. out.ok \in BOOLEAN /\ out.amount \in Nat
  BY <1>1, <1>3, <1>5 DEF AnswerType
<1>7. out.ok /\ out.amount > 0 =>
        /\ out.inAt = px.at /\ now - px.at <= StalePeriod
        /\ out.outAt = py.at /\ now - py.at <= StalePeriod
  <2>1. out.ok => usd.ok /\ bought.ok
    <3>1. usd.ok \in BOOLEAN /\ bought.ok \in BOOLEAN
      BY <1>1, <1>3 DEF AnswerType
    <3>2. out.ok = (usd.ok /\ bought.ok)
      BY <1>5
    <3> QED
      BY <3>1, <3>2
  <2>2. out.amount = bought.amount /\ out.inAt = usd.at /\ out.outAt = bought.at
    BY <1>5
  <2> QED
    BY <1>1, <1>3, <1>4, <2>1, <2>2
<1>8. pull = [ok |-> out.ok, amount |-> out.amount, at |-> 0]
  BY SameConversions DEF Main!PullQuote
<1>9. main = IF Main!Valid(checkedIn, x) /\ Main!Valid(checkedOut, y)
             THEN Answer(out.amount, 0) ELSE Reverted
  BY SameConversions DEF Main!MainQuote
<1> HIDE DEF out, main, pull
<1>10. px.at \in Nat /\ py.at \in Nat
  BY DEF AnswerType
<1>11. Main!Valid(checkedIn, x) /\ Main!Valid(checkedOut, y)
         <=> out.ok /\ out.amount > 0 /\ ~(px.at > now) /\ ~(py.at > now)
  BY <1>6, <1>7, <1>10, MasterAssumption
     DEF Main!Valid, Main!Ahead, Main!Stale, Main!StalePeriodOf
<1>12. out.ok => pull = Answer(out.amount, 0)
  BY <1>6, <1>8 DEF Answer
<1>13. pull.ok = out.ok /\ pull.amount = out.amount
  BY <1>8
<1>14. main = IF out.ok /\ out.amount > 0 /\ ~(px.at > now) /\ ~(py.at > now)
              THEN pull ELSE Main!Reverted
  BY <1>9, <1>11, <1>12, SameConversions
<1>15. Main!IsPullUnlessEarly(main, pull, {px.at, py.at})
  BY <1>13, <1>14 DEF Main!IsPullUnlessEarly, Main!Ahead
<1> QED
  BY <1>15 DEF main, pull

LEMMA PullIsChecked == TypeOK => PullNeedsNoStalePeriod
<1> DEFINE Agree(x, y, amountIn) ==
      LET px == GetPriceInUsd(x)
          py == GetPriceInUsd(y)
          one == OneUnit(x)
      IN /\ Main!IsPullUnlessEarly(Main!MainPrice(px, x), Main!PullPrice(px), {px.at})
         /\ Main!IsPullUnlessEarly(Main!MainTokenToUsd(px, x, amountIn, one),
                                   Main!PullTokenToUsd(px, amountIn, one), {px.at})
         /\ Main!IsPullUnlessEarly(Main!MainUsdToToken(px, x, amountIn, one),
                                   Main!PullUsdToToken(px, amountIn, one), {px.at})
         /\ Main!IsPullUnlessEarly(
              Main!MainQuote(px, py, x, y, amountIn, one, OneUnit(y)),
              Main!PullQuote(px, py, amountIn, one, OneUnit(y)), {px.at, py.at})
<1> SUFFICES ASSUME TypeOK, StalePeriod >= MaxTimeTolerance,
                    NEW x \in Token, NEW y \in Token, NEW amountIn \in AmountsIn
             PROVE  Agree(x, y, amountIn)
  BY DEF PullNeedsNoStalePeriod
<1> DEFINE px == GetPriceInUsd(x)
           py == GetPriceInUsd(y)
           one == OneUnit(x)
           oneOut == OneUnit(y)
<1>1. now \in Nat
  BY TimeAssumption DEF TypeOK
<1>2. px \in AnswerType /\ py \in AnswerType /\ px.at \in Nat
  BY PythPriceType DEF AnswerType
<1>3. amountIn \in Nat /\ one \in Nat \ {0} /\ oneOut \in Nat \ {0}
  BY MasterAssumption
<1>4. /\ px.ok /\ px.amount > 0 => now - px.at <= StalePeriod
      /\ py.ok /\ py.amount > 0 => now - py.at <= StalePeriod
  BY NoneIsTooOld DEF Priced
<1> HIDE DEF px, py, one, oneOut
<1>5. Main!IsPullUnlessEarly(Main!MainPrice(px, x), Main!PullPrice(px), {px.at})
  BY <1>1, <1>2, <1>4, CheckedAnswer
<1>6. ASSUME NEW answer \in {QuoteTokenToUsd(px, amountIn, one), QuoteUsdToToken(px, amountIn, one)}
      PROVE  Main!IsPullUnlessEarly(Main!MainPrice(answer, x), Main!PullPrice(answer), {px.at})
  <2>1. answer \in AnswerType
        /\ (answer.ok /\ answer.amount > 0 => px.ok /\ px.amount > 0 /\ answer.at = px.at)
    BY <1>2, <1>3, <1>6, ConversionTypes
  <2> QED
    BY <1>1, <1>2, <1>4, <2>1, CheckedAnswer
<1>7. /\ Main!IsPullUnlessEarly(Main!MainTokenToUsd(px, x, amountIn, one),
                                Main!PullTokenToUsd(px, amountIn, one), {px.at})
      /\ Main!IsPullUnlessEarly(Main!MainUsdToToken(px, x, amountIn, one),
                                Main!PullUsdToToken(px, amountIn, one), {px.at})
  BY <1>6, SameConversions
     DEF Main!MainTokenToUsd, Main!PullTokenToUsd, Main!MainUsdToToken, Main!PullUsdToToken,
         Main!PullPrice
<1>8. Main!IsPullUnlessEarly(Main!MainQuote(px, py, x, y, amountIn, one, oneOut),
                             Main!PullQuote(px, py, amountIn, one, oneOut), {px.at, py.at})
  BY <1>1, <1>2, <1>3, <1>4, CheckedQuote
<1> QED
  BY <1>5, <1>7, <1>8 DEF px, py, one, oneOut

\* Where the stale period is no shorter than the provider's tolerance, MainOracle never
\* finds a price too old that PullOracle answers: in every read it answers the same,
\* unless the answer is zero or a price is dated ahead of the block.
THEOREM ProviderChecksTheAge == MasterSpec => []PullNeedsNoStalePeriod
<1> QED
  BY PythTypeCorrect, PullIsChecked, PTL

-----------------------------------------------------------------------------
\* The recursions are what they look like.
Depth == Cardinality(Token)

LEMMA DepthType == Depth \in Nat
  BY MasterAssumption, FS_CardinalityType DEF Depth

NonePriced == [x \in Token |-> Reverted]
Deeper(P) == [x \in Token |-> MasterPrice(P, x)]

LEMMA PricesExist ==
  ASSUME NEW N \in Nat
  PROVE  \E g : g = [n \in 0..N |-> IF n = 0 THEN NonePriced ELSE Deeper(g[n - 1])]
<1> DEFINE Solves(g, m) == g = [n \in 0..m |-> IF n = 0 THEN NonePriced ELSE Deeper(g[n - 1])]
           S == {m \in Nat : \E g : Solves(g, m)}
<1>1. 0 \in S
  <2> DEFINE g == [n \in 0..0 |-> NonePriced]
  <2>1. Solves(g, 0)
    OBVIOUS
  <2> QED
    BY <2>1
<1>2. ASSUME NEW m \in Nat, m \in S PROVE m + 1 \in S
  <2>1. PICK g : Solves(g, m)
    BY <1>2
  <2> DEFINE h == [n \in 0..(m + 1) |-> IF n <= m THEN g[n] ELSE Deeper(g[m])]
  <2>2. ASSUME NEW n \in 0..(m + 1)
        PROVE  h[n] = IF n = 0 THEN NonePriced ELSE Deeper(h[n - 1])
    <3>1. CASE n = 0
      BY <2>1, <3>1
    <3>2. CASE n \in 1..m
      <4>1. h[n] = g[n] /\ h[n - 1] = g[n - 1]
        BY <3>2
      <4>2. g[n] = Deeper(g[n - 1])
        BY <2>1, <3>2
      <4> QED
        BY <3>2, <4>1, <4>2
    <3>3. CASE n = m + 1
      <4>1. h[n] = Deeper(g[m]) /\ h[n - 1] = g[m]
        BY <3>3
      <4> QED
        BY <3>3, <4>1
    <3> QED
      BY <3>1, <3>2, <3>3
  <2>3. Solves(h, m + 1)
    BY <2>2
  <2> HIDE DEF h, Solves
  <2> QED
    BY <2>3
<1> HIDE DEF S
<1>3. N \in S
  BY <1>1, <1>2, Induction
<1> QED
  BY <1>3 DEF S

\* What is answered within n calls.
PricesByDepth ==
  /\ PricesWithin[0] = NonePriced
  /\ \A n \in 1..Depth : PricesWithin[n] = Deeper(PricesWithin[n - 1])

LEMMA PricesDefined == PricesByDepth
<1>1. PricesWithin
        = CHOOSE g : g = [n \in 0..Depth |-> IF n = 0 THEN NonePriced ELSE Deeper(g[n - 1])]
  BY DEF PricesWithin, Depth, NonePriced, Deeper
<1>2. PricesWithin = [n \in 0..Depth |-> IF n = 0 THEN NonePriced ELSE Deeper(PricesWithin[n - 1])]
  BY <1>1, DepthType, PricesExist
<1> QED
  BY <1>2, DepthType DEF PricesByDepth

-----------------------------------------------------------------------------
\* Types.

\* A batch gives a token one of its oracles, or leaves it the one it has.
LEMMA ReroutedTo ==
  ASSUME NEW table, NEW batch \in Batches, NEW x \in Token
  PROVE  /\ x \notin {batch[i][1] : i \in DOMAIN batch} => Rerouted(table, batch)[x] = table[x]
         /\ \/ Rerouted(table, batch)[x] = table[x]
            \/ Rerouted(table, batch)[x] \in OracleNames \cup {NoOracle}
<1> DEFINE sets == {i \in DOMAIN batch : batch[i][1] = x}
<1>1. batch \in Seq(Token \X (OracleNames \cup {NoOracle}))
  BY RoutesAssumption
<1>2. Rerouted(table, batch)[x] = IF sets = {} THEN table[x] ELSE batch[Max(sets)][2]
  BY DEF Rerouted
<1>3. ASSUME sets # {} PROVE batch[Max(sets)][2] \in OracleNames \cup {NoOracle}
  <2>1. Len(batch) \in Nat /\ DOMAIN batch = 1..Len(batch)
    BY <1>1
  <2>2. sets \in SUBSET (1..Len(batch))
    BY <2>1
  <2>3. Max(sets) \in sets
    BY <1>3, <2>1, <2>2, LargestPlace
  <2> HIDE DEF sets
  <2>4. Max(sets) \in DOMAIN batch
    BY <2>3 DEF sets
  <2>5. batch[Max(sets)] \in Token \X (OracleNames \cup {NoOracle})
    BY <1>1, <2>4
  <2> QED
    BY <2>5
<1> QED
  BY <1>2, <1>3

\* The coins of a share are those of its pool, or none.
PoolsCopied ==
  \A lp \in Token :
    underlyingTokens[lp] # <<>> =>
      /\ lp \in DOMAIN Pool
      /\ \E isLending \in BOOLEAN : underlyingTokens[lp] = CoinsToRegister(lp, isLending)

MasterInv == MasterTypeOK /\ PoolsCopied

LEMMA CopiedType ==
  ASSUME NEW lp \in DOMAIN Pool, NEW isLending \in BOOLEAN
  PROVE  CoinsToRegister(lp, isLending) \in Seq(Token)
<1> DEFINE tokens == IF isLending THEN Pool[lp].underlyingCoins ELSE Pool[lp].coins
           n == Len(Pool[lp].coins)
<1>1. tokens \in Seq(Token \cup {ETH}) /\ Len(tokens) = n
  BY PoolAssumption
<1>2. n \in Nat /\ DOMAIN tokens = 1..n /\ \A i \in 1..n : tokens[i] \in Token \cup {ETH}
  BY <1>1
<1>3. CoinsToRegister(lp, isLending) = [i \in 1..n |-> Wrapped(tokens[i])]
  BY DEF CoinsToRegister
<1> HIDE DEF tokens, n
<1>4. \A i \in 1..n : Wrapped(tokens[i]) \in Token
  BY <1>2, PoolAssumption DEF Wrapped
<1> QED
  BY <1>2, <1>3, <1>4

LEMMA MasterInitInv == MasterInit => MasterInv
<1> SUFFICES ASSUME MasterInit PROVE MasterInv
  OBVIOUS
<1> USE DEF MasterInit
<1>1. TypeOK
  BY PythInit
<1>2. CurveTypeOK /\ PoolsCopied
  BY DEF CurveInit, CurveTypeOK, PoolsCopied
<1>3. round \in [ok : {TRUE}, amount : Int, at : Nat]
  <2>1. \A a \in Answers : Answer(a, StartTime) \in [ok : {TRUE}, amount : Int, at : Nat]
    BY MasterAssumption, TimeAssumption DEF Answer
  <2> QED
    BY <2>1
<1>4. /\ rate \in [DOMAIN Underlying -> Nat]
      /\ feedOf \in [Token -> BOOLEAN]
      /\ oracles \in [Token -> OracleNames \cup {NoOracle}]
      /\ defaultOracle \in OracleNames \cup {NoOracle}
  BY MasterAssumption, RoutesAssumption
<1> QED
  BY <1>1, <1>2, <1>3, <1>4 DEF MasterInv, MasterTypeOK

LEMMA MasterInvStep == MasterInv /\ [MasterNext]_allVars => MasterInv'
<1> SUFFICES ASSUME MasterInv, [MasterNext]_allVars PROVE MasterInv'
  OBVIOUS
<1> USE DEF MasterInv, MasterTypeOK
<1>1. TypeOK'
  BY MasterStep
<1>2. ASSUME UNCHANGED underlyingTokens PROVE CurveTypeOK' /\ PoolsCopied'
  BY <1>2 DEF CurveTypeOK, PoolsCopied
<1>3. CASE UNCHANGED <<tokenVars, masterVars>>
  BY <1>1, <1>2, <1>3 DEF tokenVars, masterVars
<1>4. ASSUME NEW o \in DefaultOracles, UpdateDefaultOracle(o), UNCHANGED <<now, pythVars, tokenVars>>
      PROVE  MasterInv'
  BY <1>1, <1>2, <1>4, RoutesAssumption DEF UpdateDefaultOracle, tokenVars
<1>5. ASSUME NEW batch \in Batches, UpdateTokenOracles(batch),
             UNCHANGED <<now, pythVars, tokenVars>>
      PROVE  MasterInv'
  <2>1. \A x \in Token : Rerouted(oracles, batch)[x] \in OracleNames \cup {NoOracle}
    BY ReroutedTo
  <2>2. Rerouted(oracles, batch) = [x \in Token |-> Rerouted(oracles, batch)[x]]
    BY DEF Rerouted
  <2>3. oracles' \in [Token -> OracleNames \cup {NoOracle}]
    BY <1>5, <2>1, <2>2 DEF UpdateTokenOracles
  <2> QED
    BY <1>1, <1>2, <1>5, <2>3 DEF UpdateTokenOracles, tokenVars
<1>6. ASSUME NEW lp \in Token, NEW isLending \in BOOLEAN, registerLp(lp, isLending),
             UNCHANGED <<now, pythVars, rate, feedOf, round, masterVars>>
      PROVE  MasterInv'
  <2>1. lp \in DOMAIN Pool /\ CoinsToRegister(lp, isLending) \in Seq(Token)
    BY <1>6, CopiedType DEF registerLp
  <2>2. CurveTypeOK'
    BY <1>6, <2>1 DEF registerLp, CurveTypeOK
  <2>3. PoolsCopied'
    BY <1>6, <2>1 DEF registerLp, CurveTypeOK, PoolsCopied
  <2> QED
    BY <1>1, <1>6, <2>2, <2>3 DEF masterVars
<1>7. ASSUME NEW x \in Feedable, NEW isSet \in BOOLEAN, updateFeed(x, isSet),
             UNCHANGED <<now, pythVars, underlyingTokens, rate, round, masterVars>>
      PROVE  MasterInv'
  BY <1>1, <1>2, <1>7 DEF updateFeed, masterVars
<1>8. ASSUME NEW x \in DOMAIN rate, NEW r \in Rates, Accrue(x, r),
             UNCHANGED <<now, pythVars, underlyingTokens, masterVars>>
      PROVE  MasterInv'
  BY <1>1, <1>2, <1>8, MasterAssumption DEF Accrue, masterVars
<1>9. ASSUME NEW answer \in Answers, Report(answer),
             UNCHANGED <<now, pythVars, underlyingTokens, masterVars>>
      PROVE  MasterInv'
  <2>1. answer \in Int /\ now \in Nat
    BY MasterAssumption, TimeAssumption DEF TypeOK
  <2>2. round' \in [ok : {TRUE}, amount : Int, at : Nat]
    BY <1>9, <2>1 DEF Report, Answer
  <2> QED
    BY <1>1, <1>2, <1>9, <2>2 DEF Report, masterVars
<1>10. CASE UNCHANGED allVars
  BY <1>1, <1>2, <1>10 DEF allVars, tokenVars, masterVars
<1> QED
  BY <1>3, <1>4, <1>5, <1>6, <1>7, <1>8, <1>9, <1>10 DEF MasterNext

LEMMA MasterInvariant == MasterSpec => []MasterInv
  BY MasterInitInv, MasterInvStep, PTL DEF MasterSpec

\* The routes, rates, coins and rounds keep their types; in particular no batch routes a
\* token to anything but an oracle or none.
THEOREM MasterTypeCorrect == MasterSpec => []MasterTypeOK
<1>1. MasterInv => MasterTypeOK
  BY DEF MasterInv
<1> QED
  BY <1>1, MasterInvariant, PTL

-----------------------------------------------------------------------------
\* One call: what an oracle answers, given what it is answered.

LEMMA Routed ==
  ASSUME MasterInv, NEW x \in Token
  PROVE  /\ Route(x) \in OracleNames \cup {NoOracle}
         /\ NoOracle \notin OracleNames
  BY RoutesAssumption DEF MasterInv, MasterTypeOK, Route

LEMMA AsksTokens ==
  ASSUME MasterInv, NEW x \in Token
  PROVE  Asks(x) \subseteq Token
<1>1. CASE Route(x) \in WrapperOracles /\ IsWrapperFor(Route(x), x)
  <2>1. Asks(x) = {IF Route(x) = "CTokenOracle" THEN CTokenUnderlying(x) ELSE Underlying[x]}
    BY <1>1 DEF Asks, WrapperOracles
  <2>2. x \in DOMAIN Underlying /\ (Route(x) = "CTokenOracle" \/ Underlying[x] # NoToken)
    BY <1>1 DEF IsWrapperFor
  <2> QED
    BY <2>1, <2>2, WrapperAssumption DEF CTokenUnderlying
<1>2. CASE ~(Route(x) \in WrapperOracles /\ IsWrapperFor(Route(x), x))
  <2>1. Asks(x) = CASE Route(x) = "CurveLpTokenOracle" -> ToSet(underlyingTokens[x])
                    [] Route(x) = "ChainlinkEthOnlyTokenOracle" -> {WETH}
                    [] OTHER -> {}
    BY <1>2 DEF Asks
  <2>2. ToSet(underlyingTokens[x]) \subseteq Token
    <3>1. underlyingTokens[x] \in Seq(Token)
      BY DEF MasterInv, MasterTypeOK, CurveTypeOK
    <3> QED
      BY <3>1 DEF ToSet
  <2> QED
    BY <2>1, <2>2, PoolAssumption
<1> QED
  BY <1>1, <1>2

\* The least of some prices is one of them.
LEMMA LeastPrice ==
  ASSUME NEW prices \in SUBSET Nat, prices # {}
  PROVE  Min(prices) \in prices /\ \A p \in prices : Min(prices) <= p
<1>1. \E m \in prices : \A p \in prices : m <= p
  BY LeastNatural
<1> QED
  BY <1>1 DEF Min

LEMMA TimesType ==
  ASSUME NEW price \in AnswerType, NEW amount \in Nat, NEW one \in Nat \ {0}
  PROVE  /\ Times(price, amount, one) \in AnswerType
         /\ Times(price, amount, one).ok => price.ok
<1>1. price.amount * amount \in Nat
  BY DEF AnswerType
<1>2. (price.amount * amount) \div one \in Nat
  BY <1>1, DivBounds
<1> QED
  BY <1>2 DEF Times, Answer, Reverted, AnswerType

LEMMA RevertedType == Reverted \in AnswerType /\ ~Reverted.ok
  BY DEF Reverted, AnswerType

\* A wrapper's oracle answers if it is answered.
LEMMA WrapperServed ==
  ASSUME MasterInv, NEW x \in Token, NEW P \in [Token -> AnswerType],
         Route(x) \in WrapperOracles, IsWrapperFor(Route(x), x)
  PROVE  /\ WrapperPrice(Route(x), P, x) \in AnswerType
         /\ WrapperPrice(Route(x), P, x).ok => \A y \in Asks(x) : P[y].ok
<1> DEFINE o == Route(x)
           y == IF o = "CTokenOracle" THEN CTokenUnderlying(x) ELSE Underlying[x]
<1>1. Asks(x) = {y}
  BY DEF Asks, WrapperOracles
<1>2. y \in Token /\ P[y] \in AnswerType
  BY <1>1, AsksTokens
<1>3. rate[x] \in Nat
  BY DEF IsWrapperFor, MasterInv, MasterTypeOK
<1>4. OneUnit(y) \in Nat \ {0} /\ OneInUsd \in Nat \ {0}
  BY <1>2, MasterAssumption, WrapperAssumption
<1>5. (OneCToken * rate[x]) \div OneInUsd \in Nat
  <2>1. OneCToken * rate[x] \in Nat
    BY <1>3, WrapperAssumption
  <2> QED
    BY <1>4, <2>1, DivBounds
<1>6. CASE o = "ATokenOracle"
  <2>1. WrapperPrice(o, P, x) = P[y]
    BY <1>6 DEF WrapperPrice, ATokenPrice
  <2> QED
    BY <1>1, <1>2, <2>1
<1>7. CASE o = "CTokenOracle"
  <2>1. WrapperPrice(o, P, x) = Times(P[y], (OneCToken * rate[x]) \div OneInUsd, OneUnit(y))
    BY <1>7 DEF WrapperPrice, CTokenPrice
  <2> HIDE DEF y
  <2> QED
    BY <1>1, <1>2, <1>4, <1>5, <2>1, TimesType
<1>8. CASE o \in {"VPoolTokenOracle", "ERC4626TokenOracle"}
  <2>1. WrapperPrice(o, P, x) = Times(P[y], rate[x], OneUnit(y))
    BY <1>8 DEF WrapperPrice, VPoolPrice, ERC4626Price
  <2> QED
    BY <1>1, <1>2, <1>3, <1>4, <2>1, TimesType
<1>9. CASE o = "YEarnTokenOracle"
  <2>1. WrapperPrice(o, P, x) = Times(P[y], rate[x], OneInUsd)
    BY <1>9 DEF WrapperPrice, YEarnPrice
  <2> QED
    BY <1>1, <1>2, <1>3, <1>4, <2>1, TimesType
<1>10. \/ o = "ATokenOracle" \/ o = "CTokenOracle"
       \/ o \in {"VPoolTokenOracle", "ERC4626TokenOracle"} \/ o = "YEarnTokenOracle"
  BY DEF WrapperOracles
<1> QED
  BY <1>6, <1>7, <1>8, <1>9, <1>10

\* A pool's share has a price if all its coins have, and not a larger one than the least
\* of theirs gives.
LEMMA LpServed ==
  ASSUME MasterInv, NEW lp \in Token, NEW P \in [Token -> AnswerType]
  PROVE  /\ LpPrice(P, lp) \in AnswerType
         /\ LpPrice(P, lp).ok =>
              /\ underlyingTokens[lp] # <<>>
              /\ \A x \in ToSet(underlyingTokens[lp]) :
                   P[x].ok /\ LpPrice(P, lp).amount * OneShare <= P[x].amount * VirtualPrice(lp)
<1> DEFINE coins == ToSet(underlyingTokens[lp])
           prices == {P[x].amount : x \in coins}
           least == Min(prices)
           worth == (least * VirtualPrice(lp)) \div OneShare
<1>1. underlyingTokens[lp] \in Seq(Token)
  BY DEF MasterInv, MasterTypeOK, CurveTypeOK
<1>2. coins \subseteq Token
  BY <1>1 DEF ToSet
<1>3. \A x \in coins : P[x] \in AnswerType
  BY <1>2
<1>4. CASE ~LpPrice(P, lp).ok
  <2>1. LpPrice(P, lp) = Reverted
    BY <1>4 DEF LpPrice, Answer
  <2> QED
    BY <1>4, <2>1, RevertedType
<1>5. CASE LpPrice(P, lp).ok
  <2>1. /\ underlyingTokens[lp] # <<>>
        /\ \A x \in coins : P[x].ok
        /\ LpPrice(P, lp) = Answer(worth, 0)
    BY <1>5, RevertedType DEF LpPrice, isLpRegistered
  <2>2. lp \in DOMAIN Pool
    BY <2>1 DEF MasterInv, PoolsCopied
  <2>3. VirtualPrice(lp) \in Nat /\ OneShare \in Nat \ {0}
    BY <2>2, PoolAssumption
  <2>4. coins # {}
    <3>1. 1 \in DOMAIN underlyingTokens[lp]
      BY <1>1, <2>1
    <3> QED
      BY <3>1 DEF ToSet
  <2> HIDE DEF coins
  <2>5. prices \in SUBSET Nat /\ prices # {}
    BY <1>3, <2>4 DEF AnswerType
  <2>6. least \in Nat /\ \A x \in coins : least <= P[x].amount
    BY <2>5, LeastPrice
  <2> HIDE DEF least
  <2>7. least * VirtualPrice(lp) \in Nat
    BY <2>3, <2>6
  <2>8. worth \in Nat /\ worth * OneShare <= least * VirtualPrice(lp)
    BY <2>3, <2>7, DivBounds
  <2> HIDE DEF worth
  <2>9. ASSUME NEW x \in coins PROVE worth * OneShare <= P[x].amount * VirtualPrice(lp)
    <3>1. P[x].amount \in Nat /\ least <= P[x].amount
      BY <1>3, <2>6 DEF AnswerType
    <3>2. least * VirtualPrice(lp) <= P[x].amount * VirtualPrice(lp)
      BY <2>3, <2>6, <3>1
    <3>3. worth * OneShare \in Nat /\ P[x].amount * VirtualPrice(lp) \in Nat
      BY <2>3, <2>8, <3>1
    <3> QED
      BY <2>7, <2>8, <3>2, <3>3
  <2>10. LpPrice(P, lp).amount = worth /\ LpPrice(P, lp) \in AnswerType
    BY <2>1, <2>8 DEF Answer, AnswerType
  <2> QED
    BY <2>1, <2>9, <2>10 DEF coins
<1> QED
  BY <1>4, <1>5

LEMMA QuotedServed ==
  ASSUME MasterInv, NEW x \in Token, NEW P \in [Token -> AnswerType]
  PROVE  /\ QuotedTokenPrice(P, x, WETH, OneInUsd) \in AnswerType
         /\ QuotedTokenPrice(P, x, WETH, OneInUsd).ok => P[WETH].ok
<1>1. CASE \/ ~feedOf[x]
           \/ round.amount <= 0
           \/ round.at > now \/ now - round.at > FeedStalePeriod
  BY <1>1, RevertedType DEF QuotedTokenPrice
<1>2. CASE ~(\/ ~feedOf[x]
             \/ round.amount <= 0
             \/ round.at > now \/ now - round.at > FeedStalePeriod)
  <2>1. QuotedTokenPrice(P, x, WETH, OneInUsd) = Times(P[WETH], round.amount, OneInUsd)
    BY <1>2 DEF QuotedTokenPrice
  <2>2. round.amount \in Nat
    BY <1>2 DEF MasterInv, MasterTypeOK
  <2> QED
    BY <2>1, <2>2, PoolAssumption, WrapperAssumption, TimesType
<1> QED
  BY <1>1, <1>2

\* An answer of the master oracle is positive, and rests on answers to all it asks for.
CallsServed ==
  \A x \in Token : \A P \in [Token -> AnswerType] :
    /\ MasterPrice(P, x) \in AnswerType
    /\ MasterPrice(P, x).ok =>
         /\ MasterPrice(P, x).amount > 0
         /\ \A y \in Asks(x) : P[y].ok

LEMMA UndatedType ==
  ASSUME NEW answer \in AnswerType
  PROVE  Main!Undated(answer) \in AnswerType
BY DEF Main!Undated, AnswerType

LEMMA OracleServed ==
  ASSUME MasterInv, NEW x \in Token, NEW P \in [Token -> AnswerType]
  PROVE  /\ OraclePrice(Route(x), P, x) \in AnswerType
         /\ OraclePrice(Route(x), P, x).ok => \A y \in Asks(x) : P[y].ok
<1> DEFINE o == Route(x)
           price == OraclePrice(o, P, x)
<1>1. GetPriceInUsd(x) \in AnswerType
  BY PythPriceType DEF MasterInv, MasterTypeOK
<1>2. CASE o \in WrapperOracles
  <2>1. price = IF IsWrapperFor(o, x) THEN WrapperPrice(o, P, x) ELSE Reverted
    BY <1>2, Routed DEF OraclePrice, OracleNames, WrapperOracles
  <2> QED
    BY <1>2, <2>1, WrapperServed, RevertedType
<1>3. CASE o = "PythOracle"
  <2>1. price = Main!Undated(GetPriceInUsd(x)) /\ Asks(x) = {}
    BY <1>3, Routed DEF OraclePrice, OracleNames, WrapperOracles, Asks, Main!PullPrice
  <2> QED
    BY <1>1, <2>1, UndatedType
<1>4. CASE o = "MainOracle"
  <2>1. /\ price = IF Main!Valid(GetPriceInUsd(x), x)
                   THEN Main!Undated(GetPriceInUsd(x)) ELSE Reverted
        /\ Asks(x) = {}
    BY <1>4, Routed, SameConversions DEF OraclePrice, OracleNames, WrapperOracles, Asks, Main!MainPrice
  <2> QED
    BY <1>1, <2>1, UndatedType, RevertedType
<1>5. CASE o = "USDPeggedTokenOracle"
  <2>1. price = Answer(OneInUsd, 0) /\ Asks(x) = {}
    BY <1>5, Routed DEF OraclePrice, OracleNames, WrapperOracles, Asks
  <2> QED
    BY <2>1, WrapperAssumption DEF Answer, AnswerType
<1>6. CASE o = "CurveLpTokenOracle"
  <2>1. price = LpPrice(P, x) /\ Asks(x) = ToSet(underlyingTokens[x])
    BY <1>6, Routed DEF OraclePrice, OracleNames, WrapperOracles, Asks
  <2> QED
    BY <2>1, LpServed
<1>7. CASE o = "ChainlinkEthOnlyTokenOracle"
  <2>1. price = QuotedTokenPrice(P, x, WETH, OneInUsd) /\ Asks(x) = {WETH}
    BY <1>7, Routed DEF OraclePrice, OracleNames, WrapperOracles, Asks
  <2> QED
    BY <2>1, QuotedServed
<1>8. CASE o = NoOracle
  <2>1. price = Reverted
    BY <1>8, Routed DEF OraclePrice, WrapperOracles, OracleNames
  <2> QED
    BY <2>1, RevertedType
<1>9. \/ o \in WrapperOracles \/ o = "PythOracle" \/ o = "MainOracle"
      \/ o = "USDPeggedTokenOracle" \/ o = "CurveLpTokenOracle"
      \/ o = "ChainlinkEthOnlyTokenOracle" \/ o = NoOracle
  BY Routed DEF OracleNames, WrapperOracles
<1> HIDE DEF o, price
<1> QED
  BY <1>2, <1>3, <1>4, <1>5, <1>6, <1>7, <1>8, <1>9 DEF o, price

LEMMA Called == MasterInv => CallsServed
<1> SUFFICES ASSUME MasterInv, NEW x \in Token, NEW P \in [Token -> AnswerType]
             PROVE  /\ MasterPrice(P, x) \in AnswerType
                    /\ MasterPrice(P, x).ok =>
                         /\ MasterPrice(P, x).amount > 0
                         /\ \A y \in Asks(x) : P[y].ok
  BY DEF CallsServed
<1> DEFINE price == OraclePrice(Route(x), P, x)
<1>1. price \in AnswerType /\ (price.ok => \A y \in Asks(x) : P[y].ok)
  BY OracleServed
<1>2. MasterPrice(P, x) = IF price.ok /\ price.amount > 0 THEN price ELSE Reverted
  BY DEF MasterPrice
<1> HIDE DEF price
<1> QED
  BY <1>1, <1>2, RevertedType

\* An answer depends on no other token than those that are asked for.
AnswersRestOnAsked ==
  \A x \in Token : \A P, Q \in [Token -> AnswerType] :
    (\A y \in Asks(x) : P[y] = Q[y]) => MasterPrice(P, x) = MasterPrice(Q, x)

LEMMA OnlyAskedMatters == MasterInv => AnswersRestOnAsked
<1> SUFFICES ASSUME MasterInv, NEW x \in Token,
                    NEW P \in [Token -> AnswerType], NEW Q \in [Token -> AnswerType],
                    \A y \in Asks(x) : P[y] = Q[y]
             PROVE  OraclePrice(Route(x), P, x) = OraclePrice(Route(x), Q, x)
  BY DEF AnswersRestOnAsked, MasterPrice
<1> DEFINE o == Route(x)
<1> USE DEF OraclePrice, OracleNames, WrapperOracles, Asks
<1>1. CASE o \in WrapperOracles /\ IsWrapperFor(o, x)
  <2> DEFINE y == IF o = "CTokenOracle" THEN CTokenUnderlying(x) ELSE Underlying[x]
  <2>1. P[y] = Q[y]
    BY <1>1
  <2>2. CASE o = "CTokenOracle"
    <3>1. P[CTokenUnderlying(x)] = Q[CTokenUnderlying(x)]
      BY <2>1, <2>2
    <3> QED
      BY <1>1, <2>2, <3>1, Routed DEF WrapperPrice, CTokenPrice
  <2>3. CASE o # "CTokenOracle"
    <3>1. P[Underlying[x]] = Q[Underlying[x]]
      BY <2>1, <2>3
    <3> QED
      BY <1>1, <2>3, <3>1, Routed
         DEF WrapperPrice, ATokenPrice, VPoolPrice, YEarnPrice, ERC4626Price
  <2> QED
    BY <2>2, <2>3
<1>2. CASE o \in WrapperOracles /\ ~IsWrapperFor(o, x)
  BY <1>2, Routed
<1>3. CASE o \in {"PythOracle", "MainOracle", "USDPeggedTokenOracle", NoOracle}
  BY <1>3, Routed
<1>4. CASE o = "CurveLpTokenOracle"
  <2>1. \A y \in ToSet(underlyingTokens[x]) : P[y] = Q[y]
    BY <1>4, Routed
  <2>2. {P[y].amount : y \in ToSet(underlyingTokens[x])}
          = {Q[y].amount : y \in ToSet(underlyingTokens[x])}
    BY <2>1
  <2>3. LpPrice(P, x) = LpPrice(Q, x)
    BY <2>1, <2>2, Zenon DEF LpPrice
  <2> QED
    BY <1>4, <2>3, Routed
<1>5. CASE o = "ChainlinkEthOnlyTokenOracle"
  <2>1. P[WETH] = Q[WETH]
    BY <1>5, Routed
  <2> QED
    BY <1>5, <2>1, Routed DEF QuotedTokenPrice
<1> QED
  BY <1>1, <1>2, <1>3, <1>4, <1>5, Routed

-----------------------------------------------------------------------------
\* Nested calls.

PricesTyped == \A n \in 0..Depth : PricesWithin[n] \in [Token -> AnswerType]

LEMMA PricesType == MasterInv => PricesTyped
<1> SUFFICES ASSUME MasterInv PROVE PricesTyped
  OBVIOUS
<1> DEFINE S == {n \in Nat : n <= Depth => PricesWithin[n] \in [Token -> AnswerType]}
<1>1. 0 \in S
  BY PricesDefined, RevertedType DEF PricesByDepth, NonePriced
<1>2. ASSUME NEW n \in Nat, n \in S PROVE n + 1 \in S
  <2> SUFFICES ASSUME n + 1 <= Depth PROVE PricesWithin[n + 1] \in [Token -> AnswerType]
    OBVIOUS
  <2> DEFINE P == PricesWithin[n]
  <2>1. P \in [Token -> AnswerType]
    BY <1>2, DepthType
  <2>2. PricesWithin[n + 1] = Deeper(P)
    <3>1. n + 1 \in 1..Depth /\ (n + 1) - 1 = n
      BY DepthType
    <3> QED
      BY <3>1, PricesDefined DEF PricesByDepth
  <2> HIDE DEF P
  <2>3. \A x \in Token : MasterPrice(P, x) \in AnswerType
    BY <2>1, Called DEF CallsServed
  <2> QED
    BY <2>2, <2>3 DEF Deeper
<1> HIDE DEF S
<1>3. Nat \subseteq S
  BY <1>1, <1>2, Induction
<1> QED
  BY <1>3, DepthType DEF S, PricesTyped

\* What is answered within some calls is answered the same within more.
PricesLast ==
  \A n \in 1..Depth : \A x \in Token :
    PricesWithin[n - 1][x].ok => PricesWithin[n][x] = PricesWithin[n - 1][x]

LEMMA PricesStay == MasterInv => PricesLast
<1> SUFFICES ASSUME MasterInv PROVE PricesLast
  OBVIOUS
<1> DEFINE Final(n) == \A x \in Token :
                        PricesWithin[n][x].ok => PricesWithin[n + 1][x] = PricesWithin[n][x]
           S == {n \in Nat : n + 1 <= Depth => Final(n)}
<1>1. 0 \in S
  BY PricesDefined, RevertedType DEF PricesByDepth, NonePriced
<1>2. ASSUME NEW n \in Nat, n \in S PROVE n + 1 \in S
  <2> SUFFICES ASSUME n + 2 <= Depth, NEW x \in Token, PricesWithin[n + 1][x].ok
               PROVE  PricesWithin[n + 2][x] = PricesWithin[n + 1][x]
    OBVIOUS
  <2> DEFINE P == PricesWithin[n]
             Q == PricesWithin[n + 1]
  <2>1. P \in [Token -> AnswerType] /\ Q \in [Token -> AnswerType]
    BY DepthType, PricesType DEF PricesTyped
  <2>2. Q = Deeper(P) /\ PricesWithin[n + 2] = Deeper(Q)
    <3>1. /\ n + 1 \in 1..Depth /\ (n + 1) - 1 = n
          /\ n + 2 \in 1..Depth /\ (n + 2) - 1 = n + 1
      BY DepthType
    <3> QED
      BY <3>1, PricesDefined DEF PricesByDepth
  <2>3. \A y \in Token : P[y].ok => Q[y] = P[y]
    BY <1>2, DepthType
  <2>4. MasterPrice(P, x).ok
    BY <2>2 DEF Deeper
  <2> HIDE DEF P, Q
  <2>5. \A y \in Asks(x) : Q[y] = P[y]
    BY <2>1, <2>3, <2>4, Called, AsksTokens DEF CallsServed
  <2>6. MasterPrice(Q, x) = MasterPrice(P, x)
    BY <2>1, <2>5, OnlyAskedMatters DEF AnswersRestOnAsked
  <2> QED
    BY <2>2, <2>6 DEF Deeper, Q
<1> HIDE DEF S, Final
<1>3. Nat \subseteq S
  BY <1>1, <1>2, Induction
<1>4. \A n \in 1..Depth : n - 1 \in Nat /\ (n - 1) + 1 = n /\ n <= Depth
  BY DepthType
<1> QED
  BY <1>3, <1>4, DepthType DEF S, Final, PricesLast

-----------------------------------------------------------------------------
\* What a price rests on.

RestsOnNothing == [x \in Token |-> {}]
Further(rests) == [x \in Token |-> Asks(x) \cup UNION {rests[y] : y \in Asks(x)}]

LEMMA RestsExist ==
  ASSUME NEW N \in Nat
  PROVE  \E g : g = [n \in 0..N |-> IF n = 0 THEN RestsOnNothing ELSE Further(g[n - 1])]
<1> DEFINE Solves(g, m) == g = [n \in 0..m |-> IF n = 0 THEN RestsOnNothing ELSE Further(g[n - 1])]
           S == {m \in Nat : \E g : Solves(g, m)}
<1>1. 0 \in S
  <2> DEFINE g == [n \in 0..0 |-> RestsOnNothing]
  <2>1. Solves(g, 0)
    OBVIOUS
  <2> QED
    BY <2>1
<1>2. ASSUME NEW m \in Nat, m \in S PROVE m + 1 \in S
  <2>1. PICK g : Solves(g, m)
    BY <1>2
  <2> DEFINE h == [n \in 0..(m + 1) |-> IF n <= m THEN g[n] ELSE Further(g[m])]
  <2>2. ASSUME NEW n \in 0..(m + 1)
        PROVE  h[n] = IF n = 0 THEN RestsOnNothing ELSE Further(h[n - 1])
    <3>1. CASE n = 0
      BY <2>1, <3>1
    <3>2. CASE n \in 1..m
      <4>1. h[n] = g[n] /\ h[n - 1] = g[n - 1]
        BY <3>2
      <4>2. g[n] = Further(g[n - 1])
        BY <2>1, <3>2
      <4> QED
        BY <3>2, <4>1, <4>2
    <3>3. CASE n = m + 1
      <4>1. h[n] = Further(g[m]) /\ h[n - 1] = g[m]
        BY <3>3
      <4> QED
        BY <3>3, <4>1
    <3> QED
      BY <3>1, <3>2, <3>3
  <2>3. Solves(h, m + 1)
    BY <2>2
  <2> HIDE DEF h, Solves
  <2> QED
    BY <2>3
<1> HIDE DEF S
<1>3. N \in S
  BY <1>1, <1>2, Induction
<1> QED
  BY <1>3 DEF S

\* What a price rests on through n calls.
RestsByDepth ==
  /\ RestsWithin[0] = RestsOnNothing
  /\ \A n \in 1..Depth : RestsWithin[n] = Further(RestsWithin[n - 1])

LEMMA RestsDefined == RestsByDepth
<1>1. RestsWithin
        = CHOOSE g : g = [n \in 0..Depth |-> IF n = 0 THEN RestsOnNothing ELSE Further(g[n - 1])]
  BY DEF RestsWithin, Depth, RestsOnNothing, Further
<1>2. RestsWithin = [n \in 0..Depth |-> IF n = 0 THEN RestsOnNothing ELSE Further(RestsWithin[n - 1])]
  BY <1>1, DepthType, RestsExist
<1> QED
  BY <1>2, DepthType DEF RestsByDepth

\* Everything that a price rests on was answered with fewer nested calls.
RestsAnswered(k) ==
  \A n \in 1..Depth : \A x \in Token : PricesWithin[n][x].ok =>
    \A y \in RestsWithin[k][x] : y \in Token /\ PricesWithin[n - 1][y].ok

LEMMA RestsAreAnswered ==
  ASSUME MasterInv
  PROVE  \A k \in 0..Depth : RestsAnswered(k)
<1> DEFINE S == {k \in Nat : k <= Depth => RestsAnswered(k)}
<1>1. 0 \in S
  BY RestsDefined DEF RestsByDepth, RestsOnNothing, RestsAnswered
<1>2. ASSUME NEW k \in Nat, k \in S PROVE k + 1 \in S
  <2> SUFFICES ASSUME k + 1 <= Depth,
                      NEW n \in 1..Depth, NEW x \in Token, PricesWithin[n][x].ok,
                      NEW y \in RestsWithin[k + 1][x]
               PROVE  y \in Token /\ PricesWithin[n - 1][y].ok
    BY DEF RestsAnswered
  <2> DEFINE P == PricesWithin[n - 1]
             rests == RestsWithin[k]
  <2>1. n - 1 \in 0..Depth /\ P \in [Token -> AnswerType]
    BY DepthType, PricesType DEF PricesTyped
  <2>2. MasterPrice(P, x).ok
    BY PricesDefined DEF PricesByDepth, Deeper
  <2>3. RestsWithin[k + 1] = Further(rests)
    <3>1. k + 1 \in 1..Depth /\ (k + 1) - 1 = k
      BY DepthType
    <3> QED
      BY <3>1, RestsDefined DEF RestsByDepth
  <2>4. RestsAnswered(k)
    BY <1>2, DepthType
  <2> HIDE DEF P
  <2>5. \A z \in Asks(x) : z \in Token /\ P[z].ok
    BY <2>1, <2>2, Called, AsksTokens DEF CallsServed
  <2> HIDE DEF rests
  <2>6. y \in Asks(x) \/ \E z \in Asks(x) : y \in rests[z]
    BY <2>3 DEF Further
  <2>7. CASE y \in Asks(x)
    BY <2>5, <2>7 DEF P
  <2>8. ASSUME NEW z \in Asks(x), y \in rests[z]
        PROVE  y \in Token /\ PricesWithin[n - 1][y].ok
    <3>1. z \in Token /\ PricesWithin[n - 1][z].ok
      BY <2>5 DEF P
    <3>2. n - 1 # 0
      BY <3>1, PricesDefined, RevertedType DEF PricesByDepth, NonePriced
    <3>3. n - 1 \in 1..Depth
      BY <2>1, <3>2
    <3>4. y \in Token /\ PricesWithin[(n - 1) - 1][y].ok
      BY <2>4, <2>8, <3>1, <3>3 DEF RestsAnswered, rests
    <3>5. PricesWithin[n - 1][y] = PricesWithin[(n - 1) - 1][y]
      BY <3>3, <3>4, PricesStay DEF PricesLast
    <3> QED
      BY <3>4, <3>5
  <2> QED
    BY <2>6, <2>7, <2>8
<1> HIDE DEF S
<1>3. Nat \subseteq S
  BY <1>1, <1>2, Induction
<1> QED
  BY <1>3, DepthType DEF S

\* The depth of what is served is not zero: with no call at all nothing is.
LEMMA ServedInCalls ==
  ASSUME MasterInv, NEW x \in Token, Prices[x].ok
  PROVE  /\ Depth \in 1..Depth /\ Prices = PricesWithin[Depth]
         /\ PricesWithin[Depth - 1] \in [Token -> AnswerType]
         /\ Prices[x] = MasterPrice(PricesWithin[Depth - 1], x)
         /\ Prices[x].amount > 0
<1>1. Prices = PricesWithin[Depth]
  BY DEF Prices, Depth
<1>2. Depth # 0
  BY <1>1, PricesDefined, RevertedType DEF PricesByDepth, NonePriced
<1>3. Depth \in 1..Depth /\ Depth - 1 \in 0..Depth
  BY <1>2, DepthType
<1>4. PricesWithin[Depth - 1] \in [Token -> AnswerType]
  BY <1>3, PricesType DEF PricesTyped
<1>5. Prices[x] = MasterPrice(PricesWithin[Depth - 1], x)
  BY <1>1, <1>3, PricesDefined DEF PricesByDepth, Deeper
<1>6. Prices[x].amount > 0
  BY <1>4, <1>5, Called DEF CallsServed
<1> QED
  BY <1>1, <1>3, <1>4, <1>5, <1>6

LEMMA ServedOnServed == MasterInv => RestsOnServedPrices
<1> SUFFICES ASSUME MasterInv, NEW x \in Token, Prices[x].ok
             PROVE  /\ x \notin RestsOn[x]
                    /\ \A y \in RestsOn[x] : Prices[y].ok /\ Prices[y].amount > 0
  BY DEF RestsOnServedPrices
<1>1. Depth \in 1..Depth /\ Prices = PricesWithin[Depth]
  BY ServedInCalls
<1>2. RestsOn = RestsWithin[Depth] /\ RestsAnswered(Depth)
  BY DepthType, RestsAreAnswered DEF RestsOn, Depth
<1>3. ASSUME NEW y \in RestsOn[x] PROVE Prices[y].ok /\ Prices[y].amount > 0
  <2>1. y \in Token /\ PricesWithin[Depth - 1][y].ok
    BY <1>1, <1>2, <1>3 DEF RestsAnswered
  <2>2. Prices[y].ok
    BY <1>1, <2>1, PricesStay DEF PricesLast
  <2> QED
    BY <2>1, <2>2, ServedInCalls
<1>4. ASSUME x \in RestsOn[x] PROVE FALSE
  <2> DEFINE S == {n \in Nat : n <= Depth => ~PricesWithin[n][x].ok}
  <2>1. 0 \in S
    BY PricesDefined, RevertedType DEF PricesByDepth, NonePriced
  <2>2. ASSUME NEW n \in Nat, n \in S PROVE n + 1 \in S
    <3> SUFFICES ASSUME n + 1 <= Depth, PricesWithin[n + 1][x].ok PROVE FALSE
      OBVIOUS
    <3>1. n + 1 \in 1..Depth /\ (n + 1) - 1 = n
      BY DepthType
    <3>2. PricesWithin[n][x].ok
      BY <1>2, <1>4, <3>1 DEF RestsAnswered
    <3> QED
      BY <2>2, <3>2, DepthType
  <2> HIDE DEF S
  <2>3. Depth \in S
    BY <2>1, <2>2, DepthType, Induction
  <2> QED
    BY <1>1, <2>3 DEF S
<1> QED
  BY <1>3, <1>4

\* However deep the calls go, a served price rests on positive served prices and not on
\* itself: routes in a circle serve nothing.
THEOREM ServedPricesRestOnServed == MasterSpec => []RestsOnServedPrices
<1> QED
  BY MasterInvariant, ServedOnServed, PTL

LEMMA TripsDoNotGain == MasterInv => RoundTripsNeverGain
<1> SUFFICES ASSUME MasterInv, NEW x \in Token, NEW y \in Token, NEW amountIn \in AmountsIn,
                    Quote(Prices, x, y, amountIn).ok
             PROVE  Quote(Prices, y, x, Quote(Prices, x, y, amountIn).amount).amount <= amountIn
  BY DEF RoundTripsNeverGain
<1>1. Prices \in [Token -> AnswerType]
  BY DepthType, PricesType DEF PricesTyped, Prices, Depth
<1>2. amountIn \in Nat
  BY MasterAssumption
<1> QED
  BY <1>1, <1>2, QuotesThereAndBackNeverGain

\* Over the prices the master oracle serves, whatever tokens an amount is quoted through
\* and back, it does not grow.
THEOREM TripsNeverGain == MasterSpec => []RoundTripsNeverGain
<1> QED
  BY MasterInvariant, TripsDoNotGain, PTL

LEMMA WorthOfAShare == MasterInv => LpIsWorthItsWorstCoin
<1> SUFFICES ASSUME MasterInv, NEW lp \in DOMAIN Pool,
                    Route(lp) = "CurveLpTokenOracle", Prices[lp].ok
             PROVE  \E coins \in {Pool[lp].coins, Pool[lp].underlyingCoins} :
                      \A i \in DOMAIN coins :
                        /\ Prices[Wrapped(coins[i])].ok
                        /\ Prices[lp].amount * OneShare
                             <= Prices[Wrapped(coins[i])].amount * VirtualPrice(lp)
  BY DEF LpIsWorthItsWorstCoin
<1> DEFINE P == PricesWithin[Depth - 1]
           tokens == underlyingTokens[lp]
<1>1. lp \in Token
  BY PoolAssumption
<1>2. Depth \in 1..Depth /\ Prices = PricesWithin[Depth] /\ P \in [Token -> AnswerType]
  BY <1>1, ServedInCalls
<1>3. \A x \in Token : P[x].ok => Prices[x] = P[x]
  BY <1>2, PricesStay DEF PricesLast
<1>4. LpPrice(P, lp).ok /\ Prices[lp] = LpPrice(P, lp)
  <2>1. Prices[lp] = MasterPrice(P, lp)
    BY <1>1, ServedInCalls
  <2>2. OraclePrice(Route(lp), P, lp) = LpPrice(P, lp)
    BY <1>1, Routed DEF OraclePrice, OracleNames, WrapperOracles
  <2> QED
    BY <2>1, <2>2, RevertedType DEF MasterPrice
<1> HIDE DEF P
<1>5. /\ tokens # <<>>
      /\ \A x \in ToSet(tokens) :
           P[x].ok /\ LpPrice(P, lp).amount * OneShare <= P[x].amount * VirtualPrice(lp)
  BY <1>1, <1>2, <1>4, LpServed
<1>6. PICK isLending \in BOOLEAN : tokens = CoinsToRegister(lp, isLending)
  BY <1>1, <1>5 DEF MasterInv, PoolsCopied
<1> DEFINE coins == IF isLending THEN Pool[lp].underlyingCoins ELSE Pool[lp].coins
<1>7. DOMAIN coins = 1..Len(Pool[lp].coins)
  <2>1. coins \in Seq(Token \cup {ETH}) /\ Len(coins) = Len(Pool[lp].coins)
    BY PoolAssumption
  <2> QED
    BY <2>1
<1>8. tokens = [i \in 1..Len(Pool[lp].coins) |-> Wrapped(coins[i])]
  BY <1>6 DEF CoinsToRegister
<1>9. coins \in {Pool[lp].coins, Pool[lp].underlyingCoins}
  OBVIOUS
<1>10. tokens \in Seq(Token)
  BY <1>1 DEF MasterInv, MasterTypeOK, CurveTypeOK
<1> HIDE DEF coins, tokens
<1>11. ASSUME NEW i \in DOMAIN coins
       PROVE  /\ Prices[Wrapped(coins[i])].ok
              /\ Prices[lp].amount * OneShare
                   <= Prices[Wrapped(coins[i])].amount * VirtualPrice(lp)
  <2>1. i \in DOMAIN tokens /\ tokens[i] = Wrapped(coins[i])
    BY <1>7, <1>8
  <2>2. tokens[i] \in ToSet(tokens) /\ tokens[i] \in Token
    BY <1>10, <2>1 DEF ToSet
  <2>3. Prices[tokens[i]] = P[tokens[i]]
    BY <1>3, <1>5, <2>2
  <2> QED
    BY <1>4, <1>5, <2>1, <2>2, <2>3
<1> QED
  BY <1>9, <1>11

\* A share of a pool is worth at most its cheapest coin at the virtual price, whichever of
\* the two lists of coins was registered and whatever those coins' own prices rest on.
THEOREM SharesWorthTheirWorstCoin == MasterSpec => []LpIsWorthItsWorstCoin
<1> QED
  BY MasterInvariant, WorthOfAShare, PTL

-----------------------------------------------------------------------------
\* Steps.

\* The recursion with what is answered to a call as a value of its own.
PricesInTurn ==
  /\ \A x \in Token : PricesWithin[0][x] = Reverted
  /\ \A n \in 1..Depth : \A P : P = PricesWithin[n - 1] =>
       \A x \in Token : PricesWithin[n][x] = MasterPrice(P, x)

LEMMA PricesFollow == PricesInTurn
<1>1. \A x \in Token : PricesWithin[0][x] = Reverted
  BY PricesDefined DEF PricesByDepth, NonePriced
<1>2. ASSUME NEW n \in 1..Depth, NEW P, P = PricesWithin[n - 1], NEW x \in Token
      PROVE  PricesWithin[n][x] = MasterPrice(P, x)
  <2>1. PricesWithin[n] = Deeper(P)
    BY <1>2, PricesDefined DEF PricesByDepth
  <2> QED
    BY <2>1 DEF Deeper
<1> QED
  BY <1>1, <1>2 DEF PricesInTurn

\* While nothing but the routes moves, an oracle answers the same.
LEMMA SameOracle ==
  ASSUME UNCHANGED <<now, pythVars, tokenVars>>, NEW x \in Token, NEW P, NEW o
  PROVE  OraclePrice(o, P, x)' = OraclePrice(o, P, x)
<1>1. GetPriceInUsd(x)' = GetPriceInUsd(x)
  BY DEF pythVars, GetPriceInUsd, Timely
<1> QED
  BY <1>1 DEF OraclePrice, tokenVars, WrapperPrice, ATokenPrice, CTokenPrice, VPoolPrice,
              YEarnPrice, ERC4626Price, LpPrice, isLpRegistered, QuotedTokenPrice,
              Main!PullPrice, Main!MainPrice, Main!Valid, Main!Ahead, Main!Stale,
              Main!StalePeriodOf

LEMMA SameCall ==
  ASSUME UNCHANGED <<now, pythVars, tokenVars, defaultOracle>>,
         NEW x \in Token, oracles'[x] = oracles[x], NEW P
  PROVE  MasterPrice(P, x)' = MasterPrice(P, x)
<1>1. Route(x)' = Route(x)
  BY DEF Route
<1>2. \A o : OraclePrice(o, P, x)' = OraclePrice(o, P, x)
  BY SameOracle
<1> QED
  BY <1>1, <1>2 DEF MasterPrice

\* If only the tokens in `named' are answered differently, no price moves but theirs and
\* those that rest on one of them.
LEMMA OthersStay ==
  ASSUME MasterInv, PricesTyped', PricesInTurn', NEW named,
         \A z \in Token : z \notin named => \A P : MasterPrice(P, z)' = MasterPrice(P, z),
         NEW x \in Token, ({x} \cup RestsOn[x]) \cap named = {}
  PROVE  Prices'[x] = Prices[x]
<1> DEFINE Same(n) == \A z \in Token : ({z} \cup RestsWithin[n][z]) \cap named = {} =>
                        PricesWithin'[n][z] = PricesWithin[n][z]
           S == {n \in Nat : n <= Depth => Same(n)}
<1>1. 0 \in S
  BY PricesFollow DEF PricesInTurn
<1>2. ASSUME NEW n \in Nat, n \in S PROVE n + 1 \in S
  <2> SUFFICES ASSUME n + 1 <= Depth, NEW z \in Token,
                      ({z} \cup RestsWithin[n + 1][z]) \cap named = {}
               PROVE  PricesWithin'[n + 1][z] = PricesWithin[n + 1][z]
    OBVIOUS
  <2>1. n \in 0..Depth /\ n + 1 \in 1..Depth /\ (n + 1) - 1 = n
    BY DepthType
  <2>2. PICK P : P = PricesWithin[n]
    OBVIOUS
  <2>3. PICK Q : Q = PricesWithin'[n]
    OBVIOUS
  <2>4. P \in [Token -> AnswerType] /\ Q \in [Token -> AnswerType]
    BY <2>1, <2>2, <2>3, PricesType DEF PricesTyped
  <2>5. PricesWithin[n + 1][z] = MasterPrice(P, z)
    BY <2>1, <2>2, PricesFollow DEF PricesInTurn
  <2>6. PricesWithin'[n + 1][z] = MasterPrice(Q, z)'
    BY <2>1, <2>3 DEF PricesInTurn
  <2>7. MasterPrice(Q, z)' = MasterPrice(Q, z)
    OBVIOUS
  <2>8. \A y \in Asks(z) : Q[y] = P[y]
    <3>1. RestsWithin[n + 1] = Further(RestsWithin[n])
      BY <2>1, RestsDefined DEF RestsByDepth
    <3>2. RestsWithin[n + 1][z] = Asks(z) \cup UNION {RestsWithin[n][y] : y \in Asks(z)}
      BY <3>1 DEF Further
    <3>3. \A y \in Asks(z) : y \in Token /\ ({y} \cup RestsWithin[n][y]) \cap named = {}
      BY <3>2, AsksTokens
    <3> QED
      BY <1>2, <2>1, <2>2, <2>3, <3>3
  <2>9. MasterPrice(Q, z) = MasterPrice(P, z)
    BY <2>4, <2>8, OnlyAskedMatters DEF AnswersRestOnAsked
  <2> QED
    BY <2>5, <2>6, <2>7, <2>9
<1> HIDE DEF S
<1>3. Depth \in S
  BY <1>1, <1>2, DepthType, Induction
<1> QED
  BY <1>3, DepthType DEF S, Prices, RestsOn, Depth

\* The routes of a batch move no price of a token that it does not name, nor rests on one
\* it names.
LEMMA RoutedPricesMove ==
  ASSUME MasterInv, PricesTyped', PricesInTurn', UNCHANGED <<now, pythVars, tokenVars>>,
         NEW batch \in Batches, UpdateTokenOracles(batch),
         NEW x \in Token,
         ({x} \cup RestsOn[x]) \cap {batch[i][1] : i \in DOMAIN batch} = {}
  PROVE  Prices'[x] = Prices[x]
<1>1. PICK named : named = {batch[i][1] : i \in DOMAIN batch}
  OBVIOUS
<1>2. ASSUME NEW z \in Token, z \notin named, NEW P
      PROVE  MasterPrice(P, z)' = MasterPrice(P, z)
  <2>1. oracles'[z] = oracles[z] /\ UNCHANGED defaultOracle
    BY <1>1, <1>2, ReroutedTo DEF UpdateTokenOracles
  <2> QED
    BY <2>1, SameCall
<1> QED
  BY <1>1, <1>2, OthersStay

\* The governor's change of some tokens' oracles moves no price but theirs and those of
\* the tokens that rest on them, however deep the calls go.
THEOREM RoutesMoveOnlyTheirs == MasterSpec => OnlyRoutedPricesMove
<1> DEFINE moved ==
      UNCHANGED <<now, pythVars, tokenVars>> /\ oracles' # oracles =>
        LET before == Prices
            after == Prices'
            rests == RestsOn
        IN \A batch \in Batches : UpdateTokenOracles(batch) =>
             LET named == {batch[i][1] : i \in DOMAIN batch}
             IN \A x \in Token : ({x} \cup rests[x]) \cap named = {} => after[x] = before[x]
<1>1. MasterInv /\ PricesTyped' /\ PricesInTurn' => moved
  BY RoutedPricesMove
<1> QED
  BY <1>1, MasterInvariant, PricesType, PricesFollow, PTL DEF OnlyRoutedPricesMove

\* A token's price of Pyth's, served before and after time has passed, is the same.
LEMMA TimelyPrice ==
  ASSUME UNCHANGED pythVars, NEW x \in Token,
         GetPriceInUsd(x).ok, GetPriceInUsd(x).amount > 0,
         GetPriceInUsd(x)'.ok, GetPriceInUsd(x)'.amount > 0
  PROVE  GetPriceInUsd(x)' = GetPriceInUsd(x)
<1> DEFINE info == priceInfo[feedIds[x]]
           scaled == Answer(info.price * 10 ^ (UsdDecimals + info.expo), info.publishTime)
<1>1. /\ ~NoPrice.amount > 0 /\ ~Reverted.ok
      /\ feedIds' = feedIds /\ priceInfo' = priceInfo
  BY DEF NoPrice, Answer, Reverted, pythVars
<1>2. GetPriceInUsd(x) = scaled
  BY <1>1 DEF GetPriceInUsd
<1>3. GetPriceInUsd(x)' = scaled
  BY <1>1 DEF GetPriceInUsd
<1> QED
  BY <1>2, <1>3

LEMMA OnlyTimePasses ==
  ASSUME MasterInv, [MasterNext]_allVars, now' = now + 1
  PROVE  UNCHANGED <<pythVars, tokenVars, masterVars>>
<1>1. now \in Nat /\ now' # now
  BY TimeAssumption DEF MasterInv, MasterTypeOK, TypeOK
<1>2. ~PythNext
  BY <1>1 DEF PythNext, UpdatePrice, UpdateFeedId
<1> QED
  BY <1>1, <1>2 DEF MasterNext, Tick, allVars

PythTyped == \A x \in Token : GetPriceInUsd(x) \in AnswerType

LEMMA PythIsTyped == MasterInv => PythTyped
  BY PythPriceType DEF MasterInv, MasterTypeOK, PythTyped

\* Whatever it is answered, an oracle answers the same as long as it answers.
LEMMA TimelyCall ==
  ASSUME MasterInv, PythTyped, PythTyped', UNCHANGED <<pythVars, tokenVars, masterVars>>,
         NEW x \in Token, NEW P,
         MasterPrice(P, x).ok, MasterPrice(P, x)'.ok
  PROVE  MasterPrice(P, x)' = MasterPrice(P, x)
<1>1. Route(x)' = Route(x)
  BY DEF masterVars, Route
<1>2. PICK o : o = Route(x)
  OBVIOUS
<1>3. /\ MasterPrice(P, x) = OraclePrice(o, P, x)
      /\ OraclePrice(o, P, x).ok /\ OraclePrice(o, P, x).amount > 0
  BY <1>2, RevertedType DEF MasterPrice
<1>4. /\ MasterPrice(P, x)' = OraclePrice(o, P, x)'
      /\ OraclePrice(o, P, x)'.ok /\ OraclePrice(o, P, x)'.amount > 0
  BY <1>1, <1>2, RevertedType DEF MasterPrice
<1> SUFFICES OraclePrice(o, P, x)' = OraclePrice(o, P, x)
  BY <1>3, <1>4
<1> USE DEF OracleNames, WrapperOracles
<1>5. GetPriceInUsd(x) \in AnswerType /\ GetPriceInUsd(x)' \in AnswerType
  BY DEF PythTyped
<1>6. CASE o = "PythOracle"
  <2>1. OraclePrice(o, P, x) = Main!Undated(GetPriceInUsd(x))
    BY <1>2, <1>6, Routed DEF OraclePrice, Main!PullPrice
  <2>2. OraclePrice(o, P, x)' = Main!Undated(GetPriceInUsd(x)')
    BY <1>2, <1>6, Routed DEF OraclePrice, Main!PullPrice, Main!Undated
  <2>3. /\ GetPriceInUsd(x).ok /\ GetPriceInUsd(x).amount > 0
        /\ GetPriceInUsd(x)'.ok /\ GetPriceInUsd(x)'.amount > 0
    BY <1>3, <1>4, <1>5, <2>1, <2>2 DEF Main!Undated, AnswerType
  <2> QED
    BY <2>1, <2>2, <2>3, TimelyPrice
<1>7. CASE o = "MainOracle"
  <2>1. OraclePrice(o, P, x) = IF Main!Valid(GetPriceInUsd(x), x)
                               THEN Main!Undated(GetPriceInUsd(x)) ELSE Reverted
    BY <1>2, <1>7, Routed, SameConversions DEF OraclePrice, Main!MainPrice
  <2>2. OraclePrice(o, P, x)' = IF Main!Valid(GetPriceInUsd(x), x)'
                                THEN Main!Undated(GetPriceInUsd(x)') ELSE Reverted
    BY <1>2, <1>7, Routed
       DEF OraclePrice, Main!MainPrice, Main!Undated, Main!Reverted, Reverted
  <2>3. Main!Valid(GetPriceInUsd(x), x) /\ Main!Valid(GetPriceInUsd(x), x)'
    BY <1>3, <1>4, <2>1, <2>2, RevertedType
  <2>4. /\ GetPriceInUsd(x).ok /\ GetPriceInUsd(x).amount > 0
        /\ GetPriceInUsd(x)'.ok /\ GetPriceInUsd(x)'.amount > 0
    BY <2>3 DEF Main!Valid
  <2> QED
    BY <2>1, <2>2, <2>3, <2>4, TimelyPrice
<1>8. CASE o = "ChainlinkEthOnlyTokenOracle"
  <2>1. OraclePrice(o, P, x) = QuotedTokenPrice(P, x, WETH, OneInUsd)
    BY <1>2, <1>8, Routed DEF OraclePrice
  <2>2. OraclePrice(o, P, x)' = QuotedTokenPrice(P, x, WETH, OneInUsd)'
    BY <1>2, <1>8, Routed DEF OraclePrice
  <2>3. QuotedTokenPrice(P, x, WETH, OneInUsd) = Times(P[WETH], round.amount, OneInUsd)
    BY <1>3, <2>1, RevertedType DEF QuotedTokenPrice
  <2>4. QuotedTokenPrice(P, x, WETH, OneInUsd)' = Times(P[WETH], round.amount, OneInUsd)
    BY <1>4, <2>2, RevertedType DEF QuotedTokenPrice, tokenVars
  <2> QED
    BY <2>1, <2>2, <2>3, <2>4
<1>9. CASE o \notin {"PythOracle", "MainOracle", "ChainlinkEthOnlyTokenOracle"}
  BY <1>2, <1>9, Routed
     DEF OraclePrice, tokenVars, WrapperPrice, ATokenPrice, CTokenPrice, VPoolPrice,
         YEarnPrice, ERC4626Price, LpPrice, isLpRegistered
<1> QED
  BY <1>6, <1>7, <1>8, <1>9

\* By induction on the depth of the calls: what is asked for was served before and is
\* served after, so it is the same.
LEMMA TimeSilences ==
  ASSUME MasterInv, PythTyped, PythTyped', PricesTyped', PricesInTurn', CallsServed',
         UNCHANGED <<pythVars, tokenVars, masterVars>>,
         NEW x \in Token, Prices[x].ok, Prices'[x].ok
  PROVE  Prices'[x] = Prices[x]
<1> DEFINE Same(n) == \A z \in Token : PricesWithin[n][z].ok /\ PricesWithin'[n][z].ok
                        => PricesWithin'[n][z] = PricesWithin[n][z]
           S == {n \in Nat : n <= Depth => Same(n)}
<1>1. 0 \in S
  BY PricesFollow, RevertedType DEF PricesInTurn
<1>2. ASSUME NEW n \in Nat, n \in S PROVE n + 1 \in S
  <2> SUFFICES ASSUME n + 1 <= Depth, NEW z \in Token,
                      PricesWithin[n + 1][z].ok, PricesWithin'[n + 1][z].ok
               PROVE  PricesWithin'[n + 1][z] = PricesWithin[n + 1][z]
    OBVIOUS
  <2>1. n \in 0..Depth /\ n + 1 \in 1..Depth /\ (n + 1) - 1 = n
    BY DepthType
  <2>2. PICK P : P = PricesWithin[n]
    OBVIOUS
  <2>3. PICK Q : Q = PricesWithin'[n]
    OBVIOUS
  <2>4. P \in [Token -> AnswerType] /\ Q \in [Token -> AnswerType]
    BY <2>1, <2>2, <2>3, PricesType DEF PricesTyped
  <2>5. PricesWithin[n + 1][z] = MasterPrice(P, z)
    BY <2>1, <2>2, PricesFollow DEF PricesInTurn
  <2>6. PricesWithin'[n + 1][z] = MasterPrice(Q, z)'
    BY <2>1, <2>3 DEF PricesInTurn
  <2>7. Asks(z)' = Asks(z)
    BY DEF Asks, Route, masterVars, tokenVars
  <2>8. \A y \in Asks(z) : y \in Token /\ P[y].ok /\ Q[y].ok
    BY <2>4, <2>5, <2>6, <2>7, Called, AsksTokens DEF CallsServed
  <2>9. \A y \in Asks(z) : Q[y] = P[y]
    BY <1>2, <2>1, <2>2, <2>3, <2>8
  <2>10. MasterPrice(Q, z) = MasterPrice(P, z)
    BY <2>4, <2>9, OnlyAskedMatters DEF AnswersRestOnAsked
  <2>11. MasterPrice(Q, z)' = MasterPrice(Q, z)
    BY <2>5, <2>6, <2>10, TimelyCall
  <2> QED
    BY <2>5, <2>6, <2>10, <2>11
<1> HIDE DEF S
<1>3. Depth \in S
  BY <1>1, <1>2, DepthType, Induction
<1> QED
  BY <1>3, DepthType DEF S, Prices, Depth

\* While nothing but time passes, a price may cease or come to be served, but no price
\* changes: no oracle replaces a source that went stale by another.
THEOREM TimeOnlySilences == MasterSpec => TimeAloneOnlySilences
<1> DEFINE same ==
      now' = now + 1 =>
        LET before == Prices
            after == Prices'
        IN \A x \in Token : before[x].ok /\ after[x].ok => after[x] = before[x]
<1>1. MasterInv /\ PythTyped /\ PythTyped' /\ PricesTyped' /\ PricesInTurn' /\ CallsServed'
        /\ [MasterNext]_allVars => same
  BY OnlyTimePasses, TimeSilences
<1> QED
  BY <1>1, MasterInvariant, PythIsTyped, PricesType, PricesFollow, Called, PTL
     DEF MasterSpec, TimeAloneOnlySilences

-----------------------------------------------------------------------------
\* The exchange of PullOracle and MainOracle.

\* Where the default oracle is MainOracle, prices dated ahead are silenced, and so are all
\* that rest on them.
EarlySilenced ==
  defaultOracle = "MainOracle" =>
    \A x \in Token :
      (\E y \in {x} \cup RestsOn[x] : DefaultedEarly(y)) => Prices[x] = Reverted

LEMMA EarlyAreSilenced == MasterInv => EarlySilenced
<1> SUFFICES ASSUME MasterInv, defaultOracle = "MainOracle", NEW x \in Token,
                    NEW y \in {x} \cup RestsOn[x], DefaultedEarly(y)
             PROVE  Prices[x] = Reverted
  BY DEF EarlySilenced
<1>1. \A z \in Token : Prices[z].ok \/ Prices[z] = Reverted
  <2>1. CASE Depth = 0
    BY <2>1, PricesFollow DEF PricesInTurn, Prices, Depth
  <2>2. CASE Depth # 0
    <3>1. Depth \in 1..Depth
      BY <2>2, DepthType
    <3>2. \A z \in Token : Prices[z] = MasterPrice(PricesWithin[Depth - 1], z)
      BY <3>1, PricesFollow DEF PricesInTurn, Prices, Depth
    <3> QED
      BY <3>2 DEF MasterPrice
  <2> QED
    BY <2>1, <2>2
<1>2. CASE Prices[x].ok
  <2>1. y \in Token /\ Prices[y].ok
    <3>1. /\ Depth \in 1..Depth /\ PricesWithin[Depth][x].ok
          /\ RestsOn = RestsWithin[Depth] /\ RestsAnswered(Depth)
      BY <1>2, ServedInCalls, DepthType, RestsAreAnswered DEF RestsOn, Depth
    <3>2. y # x => y \in Token
      BY <3>1 DEF RestsAnswered
    <3> QED
      BY <1>2, <3>2, ServedOnServed DEF RestsOnServedPrices
  <2>2. \A P : MasterPrice(P, y) = Reverted
    <3>1. Route(y) = "MainOracle" /\ ~Main!Valid(GetPriceInUsd(y), y)
      BY <2>1 DEF DefaultedEarly, Route, Main!Valid
    <3>2. \A P : OraclePrice("MainOracle", P, y) = Reverted
      BY <3>1, SameConversions DEF OraclePrice, WrapperOracles, Main!MainPrice
    <3> QED
      BY <3>1, <3>2 DEF MasterPrice
  <2>3. Prices[y] = Reverted
    <3>1. CASE Depth = 0
      BY <2>1, <3>1, PricesFollow DEF PricesInTurn, Prices, Depth
    <3>2. CASE Depth # 0
      <4>1. Depth \in 1..Depth
        BY <3>2, DepthType
      <4> QED
        BY <2>1, <2>2, <4>1, PricesFollow DEF PricesInTurn, Prices, Depth
    <3> QED
      BY <3>1, <3>2
  <2> QED
    BY <2>1, <2>3, RevertedType
<1> QED
  BY <1>1, <1>2

\* The default oracle, exchanged, changes nothing else.
LEMMA OnlyTheDefault ==
  ASSUME [MasterNext]_allVars, {defaultOracle, defaultOracle'} = {"PythOracle", "MainOracle"}
  PROVE  UNCHANGED <<now, pythVars, tokenVars, oracles>>
<1>1. defaultOracle' # defaultOracle
  OBVIOUS
<1> QED
  BY <1>1 DEF MasterNext, allVars, masterVars, tokenVars, pythVars, UpdateDefaultOracle,
              UpdateTokenOracles

\* Over a price that is not dated ahead, either oracle is the price or refused.
LEMMA EitherOracle ==
  ASSUME MasterInv, StalePeriod >= MaxTimeTolerance, NEW x \in Token,
         ~(Priced(x) /\ Main!Ahead(GetPriceInUsd(x).at)),
         NEW P, NEW o \in {"PythOracle", "MainOracle"}
  PROVE  (IF OraclePrice(o, P, x).ok /\ OraclePrice(o, P, x).amount > 0
          THEN OraclePrice(o, P, x) ELSE Reverted)
         = IF Priced(x) THEN Main!Undated(GetPriceInUsd(x)) ELSE Reverted
<1> DEFINE price == GetPriceInUsd(x)
<1>1. TypeOK /\ price \in AnswerType /\ Priced(x) = (price.ok /\ price.amount > 0)
  BY PythPriceType DEF MasterInv, MasterTypeOK, Priced
<1>2. Main!Undated(price).ok = price.ok /\ Main!Undated(price).amount = price.amount
  BY <1>1 DEF Main!Undated, AnswerType
<1>3. CASE o = "PythOracle"
  <2>1. OraclePrice(o, P, x) = Main!Undated(price)
    BY <1>3, RoutesAssumption DEF OraclePrice, OracleNames, WrapperOracles, Main!PullPrice
  <2> QED
    BY <1>1, <1>2, <2>1
<1>4. CASE o = "MainOracle"
  <2>1. OraclePrice(o, P, x) = IF Main!Valid(price, x) THEN Main!Undated(price) ELSE Reverted
    BY <1>4, RoutesAssumption, SameConversions
       DEF OraclePrice, OracleNames, WrapperOracles, Main!MainPrice
  <2>2. Main!Valid(price, x) <=> Priced(x)
    <3>1. Priced(x) => now - price.at <= StalePeriod
      BY <1>1, NoneIsTooOld
    <3>2. now \in Nat /\ price.at \in Nat
      BY <1>1, TimeAssumption DEF TypeOK, AnswerType
    <3> HIDE DEF price
    <3>3. Priced(x) => ~Main!Stale(price.at, Main!StalePeriodOf(x))
      BY <3>1, <3>2, MasterAssumption DEF Main!Stale, Main!StalePeriodOf
    <3> QED
      BY <1>1, <3>3 DEF Main!Valid, price
  <2> QED
    BY <1>1, <1>2, <2>1, <2>2, RevertedType
<1> QED
  BY <1>3, <1>4

\* A call that is not silenced by the exchange is answered as before.
LEMMA ExchangedCall ==
  ASSUME MasterInv, StalePeriod >= MaxTimeTolerance,
         UNCHANGED <<now, pythVars, tokenVars, oracles>>,
         {defaultOracle, defaultOracle'} = {"PythOracle", "MainOracle"},
         NEW z \in Token, ~DefaultedEarly(z), NEW P
  PROVE  MasterPrice(P, z)' = MasterPrice(P, z)
<1>1. \A o : OraclePrice(o, P, z)' = OraclePrice(o, P, z)
  BY SameOracle
<1>2. CASE oracles[z] # NoOracle
  <2>1. Route(z)' = Route(z)
    BY <1>2 DEF Route
  <2> QED
    BY <1>1, <2>1 DEF MasterPrice
<1>3. CASE oracles[z] = NoOracle
  <2>1. PICK o, p : o = defaultOracle /\ p = defaultOracle'
    OBVIOUS
  <2>2. Route(z) = o /\ Route(z)' = p
    BY <1>3, <2>1 DEF Route
  <2>3. o \in {"PythOracle", "MainOracle"} /\ p \in {"PythOracle", "MainOracle"}
    BY <2>1
  <2>4. ~(Priced(z) /\ Main!Ahead(GetPriceInUsd(z).at))
    BY <1>3 DEF DefaultedEarly
  <2>5. MasterPrice(P, z) = IF OraclePrice(o, P, z).ok /\ OraclePrice(o, P, z).amount > 0
                            THEN OraclePrice(o, P, z) ELSE Reverted
    BY <2>2 DEF MasterPrice
  <2>6. MasterPrice(P, z)' = IF OraclePrice(p, P, z).ok /\ OraclePrice(p, P, z).amount > 0
                             THEN OraclePrice(p, P, z) ELSE Reverted
    BY <1>1, <2>2 DEF MasterPrice, Reverted
  <2> QED
    BY <2>3, <2>4, <2>5, <2>6, EitherOracle
<1> QED
  BY <1>2, <1>3

\* The recursion with what is rested on as a value of its own.
RestsInTurn ==
  /\ RestsWithin[0] = RestsOnNothing
  /\ \A n \in 1..Depth : \A R : R = RestsWithin[n - 1] => RestsWithin[n] = Further(R)

LEMMA RestsFollow == RestsInTurn
  BY RestsDefined DEF RestsByDepth, RestsInTurn

\* Neither oracle calls the master oracle back, so prices rest on what they did.
LEMMA RestsStay ==
  ASSUME UNCHANGED <<tokenVars, oracles>>, RestsInTurn',
         {defaultOracle, defaultOracle'} = {"PythOracle", "MainOracle"}
  PROVE  RestsOn' = RestsOn
<1>1. ASSUME NEW z \in Token PROVE Asks(z)' = Asks(z)
  <2>1. CASE oracles[z] # NoOracle
    <3>1. Route(z)' = Route(z)
      BY <2>1 DEF Route
    <3> QED
      BY <3>1 DEF Asks, tokenVars
  <2>2. CASE oracles[z] = NoOracle
    <3>1. Route(z) \in {"PythOracle", "MainOracle"} /\ Route(z)' \in {"PythOracle", "MainOracle"}
      BY <2>2 DEF Route
    <3>2. Asks(z) = {}
      BY <3>1 DEF Asks, WrapperOracles
    <3>3. Asks(z)' = {}
      BY <3>1 DEF Asks, WrapperOracles
    <3> QED
      BY <3>2, <3>3
  <2> QED
    BY <2>1, <2>2
<1>2. \A R : Further(R)' = Further(R)
  BY <1>1 DEF Further
<1> DEFINE S == {n \in Nat : n <= Depth => RestsWithin'[n] = RestsWithin[n]}
<1>3. 0 \in S
  BY RestsFollow DEF RestsInTurn, RestsOnNothing
<1>4. ASSUME NEW n \in Nat, n \in S PROVE n + 1 \in S
  <2> SUFFICES ASSUME n + 1 <= Depth PROVE RestsWithin'[n + 1] = RestsWithin[n + 1]
    OBVIOUS
  <2>1. n + 1 \in 1..Depth /\ (n + 1) - 1 = n /\ n <= Depth
    BY DepthType
  <2>2. PICK R : R = RestsWithin[n]
    OBVIOUS
  <2>3. R = RestsWithin'[n]
    BY <1>4, <2>1, <2>2
  <2>4. RestsWithin[n + 1] = Further(R)
    BY <2>1, <2>2, RestsFollow DEF RestsInTurn
  <2>5. RestsWithin'[n + 1] = Further(R)'
    BY <2>1, <2>3 DEF RestsInTurn
  <2> QED
    BY <1>2, <2>4, <2>5
<1> HIDE DEF S
<1>5. Depth \in S
  BY <1>3, <1>4, DepthType, Induction
<1> QED
  BY <1>5, DepthType DEF S, RestsOn, Depth

\* One exchange.
LEMMA ExchangeStep ==
  ASSUME MasterInv, PricesTyped', PricesInTurn', RestsInTurn', EarlySilenced',
         [MasterNext]_allVars, StalePeriod >= MaxTimeTolerance,
         {defaultOracle, defaultOracle'} = {"PythOracle", "MainOracle"},
         NEW x \in Token
  PROVE  /\ (\E y \in {x} \cup RestsOn[x] : DefaultedEarly(y)) =>
              /\ defaultOracle = "MainOracle" => Prices[x] = Reverted
              /\ defaultOracle # "MainOracle" => Prices'[x] = Reverted
         /\ ~(\E y \in {x} \cup RestsOn[x] : DefaultedEarly(y)) => Prices'[x] = Prices[x]
<1>1. UNCHANGED <<now, pythVars, tokenVars, oracles>>
  BY OnlyTheDefault
<1>2. RestsOn' = RestsOn
  BY <1>1, RestsStay
<1>3. ASSUME NEW y \in {x} \cup RestsOn[x], DefaultedEarly(y)
      PROVE  /\ defaultOracle = "MainOracle" => Prices[x] = Reverted
             /\ defaultOracle # "MainOracle" => Prices'[x] = Reverted
  <2>1. DefaultedEarly(y)'
    BY <1>1, <1>3 DEF DefaultedEarly, Priced, GetPriceInUsd, Timely, pythVars, Main!Ahead
  <2>2. CASE defaultOracle = "MainOracle"
    BY <1>3, <2>2, EarlyAreSilenced DEF EarlySilenced
  <2>3. CASE defaultOracle # "MainOracle"
    <3>1. defaultOracle' = "MainOracle"
      BY <2>3
    <3>2. Reverted' = Reverted
      BY DEF Reverted
    <3> QED
      BY <1>2, <1>3, <2>1, <2>3, <3>1, <3>2 DEF EarlySilenced
  <2> QED
    BY <2>2, <2>3
<1>4. ASSUME ~(\E y \in {x} \cup RestsOn[x] : DefaultedEarly(y))
      PROVE  Prices'[x] = Prices[x]
  <2>1. PICK named : named = {y \in {x} \cup RestsOn[x] \cup Token : DefaultedEarly(y)}
    OBVIOUS
  <2>2. \A z \in Token : z \notin named => \A P : MasterPrice(P, z)' = MasterPrice(P, z)
    BY <1>1, <2>1, ExchangedCall
  <2>3. ({x} \cup RestsOn[x]) \cap named = {}
    BY <1>4, <2>1
  <2> QED
    BY <2>2, <2>3, OthersStay
<1> QED
  BY <1>3, <1>4

\* PullOracle exchanged for MainOracle, or back, under every token without an oracle of its
\* own: MainOracle silences the prices that rest on one dated ahead, and no other price
\* differs, however deep the calls go.
THEOREM ExchangeSilencesOnlyEarly == MasterSpec => ExchangeSilencesOnlyEarlyPrices
<1> DEFINE exchanged ==
      /\ StalePeriod >= MaxTimeTolerance
      /\ {defaultOracle, defaultOracle'} = {"PythOracle", "MainOracle"}
      => LET before == Prices
             after == Prices'
             rests == RestsOn
             main == IF defaultOracle = "MainOracle" THEN before ELSE after
             pull == IF defaultOracle = "MainOracle" THEN after ELSE before
         IN \A x \in Token :
              main[x] = IF \E y \in {x} \cup rests[x] : DefaultedEarly(y)
                        THEN Reverted ELSE pull[x]
<1>1. MasterInv /\ PricesTyped' /\ PricesInTurn' /\ RestsInTurn' /\ EarlySilenced'
        /\ [MasterNext]_allVars => exchanged
  BY ExchangeStep
<1> QED
  BY <1>1, MasterInvariant, EarlyAreSilenced, PricesType, PricesFollow, RestsFollow, PTL
     DEF MasterSpec, ExchangeSilencesOnlyEarlyPrices
=============================================================================
