-------------------------- MODULE FallbacksProofs --------------------------
(***************************************************************************)
(* Proofs about the oracle over Chainlink and fallbacks, for every table of *)
(* providers, price, stale period and deviation.                            *)
(***************************************************************************)
EXTENDS ChainlinkAndFallbacksOracle, IntegerTheorems

\* What a provider may answer is an answer.
LEMMA RepliesType == ASSUME now \in Nat PROVE Replies \subseteq PriceReply
<1>1. ASSUME NEW amount \in Prices, NEW at \in {now, now + 1}
      PROVE  Answer(amount, at) \in PriceReply
  BY <1>1, PricesAssumption DEF Answer, PriceReply
<1>2. Reverted \in PriceReply /\ NoPrice \in PriceReply
  BY DEF Reverted, NoPrice, Answer, PriceReply
<1> QED
  BY <1>1, <1>2 DEF Replies

\* The type invariant with the clock's.
TypeInv == TypeOK /\ now \in Nat

LEMMA InitInv == Init => TypeInv
<1> SUFFICES ASSUME Init PROVE TypeInv
  OBVIOUS
<1>1. NoPrice \in PriceReply
  BY DEF NoPrice, Answer, PriceReply
<1>2. AggregatorTypeOK
  BY <1>1, RegistryAssumption DEF Init, AggregatorInit, AggregatorTypeOK
<1>3. StaleTypeOK
  BY ConstructorAssumption DEF Init, StaleInit, StaleTypeOK
<1>4. /\ fallbackProviderA \in Provider
      /\ fallbackProviderB \in Provider \cup {NONE}
  BY ConstructorAssumption DEF Init
<1> QED
  BY <1>2, <1>3, <1>4, TimeAssumption, ConstructorAssumption DEF Init, TypeInv, TypeOK

LEMMA StepInv == TypeInv /\ [Next]_vars => TypeInv'
<1> SUFFICES ASSUME TypeInv, [Next]_vars PROVE TypeInv'
  OBVIOUS
<1> USE DEF TypeInv, TypeOK, AggregatorTypeOK, StaleTypeOK
<1>1. CASE Pass /\ UNCHANGED <<prices, governed>>
  BY <1>1, TimeAssumption DEF Pass, governed, staleVars
<1>2. ASSUME NEW c \in Contract, NEW x \in Token, NEW reply \in Replies, Report(c, x, reply),
             UNCHANGED <<staleVars, maxDeviation, fallbackVars>>
      PROVE  TypeInv'
  <2>1. reply \in PriceReply
    BY RepliesType
  <2> QED
    BY <1>2, <2>1 DEF Report, staleVars, fallbackVars
<1>3. ASSUME NEW r \in Registrations, SetPriceProvider(r[1], r[2]),
             UNCHANGED <<staleVars, maxDeviation, fallbackVars>>
      PROVE  TypeInv'
  <2>1. r[1] \in Provider /\ r[2] \in Contract \cup {NoContract}
    BY ConstructorAssumption
  <2> QED
    BY <1>3, <2>1 DEF SetPriceProvider, staleVars, fallbackVars
<1>4. ASSUME NEW a \in Provider \cup {NONE}, NEW b \in Provider \cup {NONE},
             UpdateFallbackProviders(a, b)
      PROVE  TypeInv'
  BY <1>4 DEF UpdateFallbackProviders, aggregatorVars, staleVars
<1>5. ASSUME NEW deviation \in Deviations, UpdateMaxDeviation(deviation),
             UNCHANGED <<now, aggregatorVars, staleVars, fallbackVars>>
      PROVE  TypeInv'
  BY <1>5, DeviationsAssumption DEF UpdateMaxDeviation, aggregatorVars, staleVars, fallbackVars
<1>6. ASSUME NEW x \in Token, NEW period \in StalePeriods \cup {0},
             UpdateCustomStalePeriod(x, period),
             UNCHANGED <<aggregatorVars, maxDeviation, fallbackVars>>
      PROVE  TypeInv'
  BY <1>6 DEF UpdateCustomStalePeriod, aggregatorVars, fallbackVars
<1>7. ASSUME NEW period \in StalePeriods, UpdateDefaultStalePeriod(period),
             UNCHANGED <<aggregatorVars, maxDeviation, fallbackVars>>
      PROVE  TypeInv'
  BY <1>7, StalePeriodsAssumption DEF UpdateDefaultStalePeriod, aggregatorVars, fallbackVars
<1>8. CASE UNCHANGED vars
  BY <1>8 DEF vars, governed, staleVars
<1> QED
  BY <1>1, <1>2, <1>3, <1>4, <1>5, <1>6, <1>7, <1>8 DEF Next

\* The registry, the periods and the fallbacks keep their types: fallback A is
\* always a provider, whatever the governor sets.
THEOREM FallbacksTypeCorrect == Spec => []TypeOK
<1>1. TypeInv => TypeOK
  BY DEF TypeInv
<1> QED
  BY <1>1, InitInv, StepInv, PTL DEF Spec

-----------------------------------------------------------------------------
\* A check has three outcomes.
LEMMA CheckOutcomes ==
  ASSUME NEW p, NEW x
  PROVE  Priced(p, x).check \in {"good", "bad", "reverts"}
BY DEF Priced, Checked, Check

\* The selection refuses only when a provider that is asked is ahead, none of those
\* asked is good, or both fallbacks are good and contradict each other.
LEMMA SelectRefuses ==
  ASSUME NEW c, NEW a, NEW b,
         {c.check, a.check, b.check} \subseteq {"good", "bad", "reverts"},
         ~Select(c, a, b).ok
  PROVE  \/ c.check = "reverts" \/ a.check = "reverts"
         \/ fallbackProviderB # NONE /\ b.check = "reverts"
         \/ /\ c.check # "good" /\ a.check # "good"
            /\ fallbackProviderB = NONE \/ b.check # "good"
         \/ /\ c.check # "good" /\ a.check = "good" /\ b.check = "good"
            /\ ~IsDeviationOK(a.amount, b.amount)
BY DEF Select

\* The selection's refusals, as the causes named for a reader.
LEMMA CauseOfRefusal == TypeOK => RefusesOnlyForCause
<1> SUFFICES ASSUME TypeOK, NEW x \in Token, ~OraclePrice(x).ok
             PROVE  \/ \A p \in Consulted : ~IsGood(p, x)
                    \/ \E p \in Consulted : IsAhead(p, x)
                    \/ /\ ~IsGood(CHAINLINK, x)
                       /\ IsGood(fallbackProviderA, x) /\ IsGood(fallbackProviderB, x)
                       /\ ~IsDeviationOK(Priced(fallbackProviderA, x).amount,
                                         Priced(fallbackProviderB, x).amount)
  BY DEF RefusesOnlyForCause
<1> DEFINE c == Priced(CHAINLINK, x)
           a == Priced(fallbackProviderA, x)
           b == Priced(fallbackProviderB, x)
<1>1. {c.check, a.check, b.check} \subseteq {"good", "bad", "reverts"}
  BY CheckOutcomes
<1>2. ~Select(c, a, b).ok
  BY DEF OraclePrice, SelectFrom
<1>3. /\ CHAINLINK \in Consulted /\ fallbackProviderA \in Consulted
      /\ fallbackProviderB # NONE => fallbackProviderB \in Consulted
  BY ConstructorAssumption, RegistryAssumption DEF Consulted, TypeOK
<1> HIDE DEF c, a, b
<1>4. \/ c.check = "reverts" \/ a.check = "reverts"
      \/ fallbackProviderB # NONE /\ b.check = "reverts"
      \/ /\ c.check # "good" /\ a.check # "good"
         /\ fallbackProviderB = NONE \/ b.check # "good"
      \/ /\ c.check # "good" /\ a.check = "good" /\ b.check = "good"
         /\ ~IsDeviationOK(a.amount, b.amount)
  BY <1>1, <1>2, SelectRefuses
<1> USE DEF c, a, b
<1> QED
  BY <1>3, <1>4 DEF IsGood, IsAhead, Consulted

\* The oracle refuses a token that Chainlink or a fallback can price only for a
\* contradiction between the fallbacks or a time ahead of the block's.
THEOREM RefusalsHaveACause == Spec => []RefusesOnlyForCause
<1> QED
  BY FallbacksTypeCorrect, CauseOfRefusal, PTL

-----------------------------------------------------------------------------
\* The oracle without fallbacks is an instance with conversions of its own, which are
\* the same ones.
LEMMA SameReads ==
  /\ Single!Reverted = Reverted
  /\ \A amount, at : Single!Answer(amount, at) = Answer(amount, at)
  /\ \A price, amountIn, one :
       /\ Single!QuoteTokenToUsd(price, amountIn, one) = QuoteTokenToUsd(price, amountIn, one)
       /\ Single!QuoteUsdToToken(price, amountIn, one) = QuoteUsdToToken(price, amountIn, one)
  /\ \A priceIn, priceOut, amountIn, oneIn, oneOut :
       Single!QuoteThroughUsd(priceIn, priceOut, amountIn, oneIn, oneOut)
         = QuoteThroughUsd(priceIn, priceOut, amountIn, oneIn, oneOut)
BY DEF Single!Reverted, Single!Answer, Single!NoPrice, Single!QuoteTokenToUsd,
       Single!QuoteUsdToToken, Single!QuoteThroughUsd,
       Reverted, Answer, NoPrice, QuoteTokenToUsd, QuoteUsdToToken, QuoteThroughUsd

LEMMA SameAges ==
  /\ \A at : Single!Ahead(at) = Ahead(at)
  /\ \A at, period : Single!Stale(at, period) = Stale(at, period)
  /\ \A x : Single!StalePeriodOf(x) = StalePeriodOf(x)
BY DEF Single!Ahead, Single!Stale, Single!StalePeriodOf, Ahead, Stale, StalePeriodOf

\* A good answer of Chainlink's is used.
LEMMA GoodIsUsed ==
  ASSUME NEW c, NEW a, NEW b, c.check = "good"
  PROVE  Select(c, a, b) = [ok |-> TRUE, amount |-> c.amount]
BY DEF Select

\* What MainOracle answers is a valid answer's amount.
LEMMA MainAnswers ==
  ASSUME NEW answer, NEW x, Single!MainPrice(answer, x).ok
  PROVE  /\ Single!Valid(answer, x)
         /\ Single!MainPrice(answer, x) = [answer EXCEPT !.at = 0]
BY DEF Single!MainPrice, Single!Undated, Single!Reverted

\* A valid answer is a good one.
LEMMA ValidIsGood ==
  ASSUME NEW answer, NEW x, answer.amount \in Nat, Single!Valid(answer, x)
  PROVE  /\ Caught(answer) = answer
         /\ Checked(answer, <<<<answer.at, StalePeriodOf(x)>>>>)
              = [amount |-> answer.amount, check |-> "good"]
<1>1. /\ answer.ok /\ answer.amount # 0
      /\ ~Ahead(answer.at) /\ ~Stale(answer.at, StalePeriodOf(x))
  BY SameAges DEF Single!Valid
<1>2. DOMAIN <<<<answer.at, StalePeriodOf(x)>>>> = {1}
  OBVIOUS
<1> QED
  BY <1>1, <1>2 DEF Caught, Checked, Check

\* The conversions of an answer are naturals.
LEMMA NaturalAmounts ==
  ASSUME NEW price \in PriceReply, NEW amountIn \in Nat, NEW one \in Nat \ {0}
  PROVE  /\ QuoteTokenToUsd(price, amountIn, one).amount \in Nat
         /\ QuoteUsdToToken(price, amountIn, one).amount \in Nat
<1>1. ASSUME NEW n \in Nat, NEW d \in Nat \ {0} PROVE n \div d \in Nat
  OBVIOUS
<1>2. price.amount \in Nat
  BY DEF PriceReply
<1>3. amountIn * price.amount \in Nat /\ amountIn * one \in Nat
  BY <1>2
<1>4. (amountIn * price.amount) \div one \in Nat
  BY <1>1, <1>3
<1>5. price.amount # 0 => (amountIn * one) \div price.amount \in Nat
  BY <1>1, <1>2, <1>3
<1> QED
  BY <1>4, <1>5 DEF QuoteTokenToUsd, QuoteUsdToToken, Answer, Reverted, NoPrice

LEMMA OnlyAdds == TypeOK => FallbacksOnlyAddAnswers
<1> SUFFICES ASSUME TypeOK, NEW x \in Token, NEW y \in Token, NEW amountIn \in Prices
    PROVE /\ Answers(OraclePrice(x), ChainlinkPrice(x))
          /\ Answers(OracleTokenToUsd(x, amountIn), ChainlinkTokenToUsd(x, amountIn))
          /\ Answers(OracleUsdToToken(x, amountIn), ChainlinkUsdToToken(x, amountIn))
          /\ Answers(OracleQuote(x, y, amountIn), ChainlinkQuote(x, y, amountIn))
  BY DEF FallbacksOnlyAddAnswers
<1> DEFINE px == GetPriceInUsd(CHAINLINK, x)
           py == GetPriceInUsd(CHAINLINK, y)
<1>1. px \in PriceReply /\ py \in PriceReply
  <2>1. Reverted \in PriceReply
    BY DEF Reverted, PriceReply
  <2>2. ASSUME IsSet(CHAINLINK)
        PROVE  priceProviders[CHAINLINK] \in Contract
    BY <2>2, ConstructorAssumption DEF IsSet, TypeOK, AggregatorTypeOK
  <2> QED
    BY <2>1, <2>2 DEF GetPriceInUsd, TypeOK, AggregatorTypeOK
<1>2. amountIn \in Nat /\ Unit(x) \in Nat \ {0} /\ Unit(y) \in Nat \ {0}
  BY PricesAssumption
<1>3. Answers(OraclePrice(x), ChainlinkPrice(x))
  <2> SUFFICES ASSUME Single!MainPrice(px, x).ok
               PROVE  OraclePrice(x) = [ok |-> TRUE, amount |-> Single!MainPrice(px, x).amount]
    BY SameReads DEF Answers, ChainlinkPrice
  <2>1. px.amount \in Nat
    BY <1>1 DEF PriceReply
  <2>2. Single!Valid(px, x) /\ Single!MainPrice(px, x).amount = px.amount
    BY <1>1, MainAnswers DEF PriceReply
  <2>3. Priced(CHAINLINK, x) = [amount |-> px.amount, check |-> "good"]
    BY <2>1, <2>2, ValidIsGood DEF Priced
  <2>4. OraclePrice(x) = Select(Priced(CHAINLINK, x), Priced(fallbackProviderA, x),
                                Priced(fallbackProviderB, x))
    BY DEF OraclePrice, SelectFrom
  <2>5. Priced(CHAINLINK, x).check = "good" /\ Priced(CHAINLINK, x).amount = px.amount
    BY <2>3
  <2> QED
    BY <2>2, <2>4, <2>5, GoodIsUsed
<1>4. Answers(OracleTokenToUsd(x, amountIn), ChainlinkTokenToUsd(x, amountIn))
  <2> DEFINE answer == AggregatorTokenToUsd(CHAINLINK, x, amountIn)
  <2>1. answer.amount \in Nat
    BY <1>1, <1>2, NaturalAmounts DEF AggregatorTokenToUsd
  <2>2. ChainlinkTokenToUsd(x, amountIn) = Single!MainPrice(answer, x)
    BY SameReads DEF ChainlinkTokenToUsd, Single!MainTokenToUsd, AggregatorTokenToUsd
  <2>4. \A at : [answer EXCEPT !.at = at].amount = answer.amount
    BY DEF AggregatorTokenToUsd, QuoteTokenToUsd, Answer, Reverted
  <2> SUFFICES ASSUME Single!MainPrice(answer, x).ok
               PROVE  OracleTokenToUsd(x, amountIn)
                        = [ok |-> TRUE, amount |-> Single!MainPrice(answer, x).amount]
    BY <2>2 DEF Answers
  <2>5. Single!Valid(answer, x) /\ Single!MainPrice(answer, x).amount = answer.amount
    BY <2>4, MainAnswers
  <2>6. Checked(Caught(answer), <<<<Caught(answer).at, StalePeriodOf(x)>>>>)
          = [amount |-> answer.amount, check |-> "good"]
    BY <2>1, <2>5, ValidIsGood
  <2> DEFINE Try(p) == LET reply == Caught(AggregatorTokenToUsd(p, x, amountIn))
                       IN Checked(reply, <<<<reply.at, StalePeriodOf(x)>>>>)
  <2>7. OracleTokenToUsd(x, amountIn)
          = Select(Try(CHAINLINK), Try(fallbackProviderA), Try(fallbackProviderB))
    BY DEF OracleTokenToUsd, SelectFrom
  <2>8. Try(CHAINLINK).check = "good" /\ Try(CHAINLINK).amount = answer.amount
    BY <2>6
  <2> HIDE DEF Try, answer
  <2> QED
    BY <2>5, <2>7, <2>8, GoodIsUsed
<1>5. Answers(OracleUsdToToken(x, amountIn), ChainlinkUsdToToken(x, amountIn))
  <2> DEFINE answer == AggregatorUsdToToken(CHAINLINK, x, amountIn)
  <2>1. answer.amount \in Nat
    BY <1>1, <1>2, NaturalAmounts DEF AggregatorUsdToToken
  <2>2. ChainlinkUsdToToken(x, amountIn) = Single!MainPrice(answer, x)
    BY SameReads DEF ChainlinkUsdToToken, Single!MainUsdToToken, AggregatorUsdToToken
  <2>4. \A at : [answer EXCEPT !.at = at].amount = answer.amount
    BY DEF AggregatorUsdToToken, QuoteUsdToToken, Answer, NoPrice, Reverted
  <2> SUFFICES ASSUME Single!MainPrice(answer, x).ok
               PROVE  OracleUsdToToken(x, amountIn)
                        = [ok |-> TRUE, amount |-> Single!MainPrice(answer, x).amount]
    BY <2>2 DEF Answers
  <2>5. Single!Valid(answer, x) /\ Single!MainPrice(answer, x).amount = answer.amount
    BY <2>4, MainAnswers
  <2>6. Checked(Caught(answer), <<<<Caught(answer).at, StalePeriodOf(x)>>>>)
          = [amount |-> answer.amount, check |-> "good"]
    BY <2>1, <2>5, ValidIsGood
  <2> DEFINE Try(p) == LET reply == Caught(AggregatorUsdToToken(p, x, amountIn))
                       IN Checked(reply, <<<<reply.at, StalePeriodOf(x)>>>>)
  <2>7. OracleUsdToToken(x, amountIn)
          = Select(Try(CHAINLINK), Try(fallbackProviderA), Try(fallbackProviderB))
    BY DEF OracleUsdToToken, SelectFrom
  <2>8. Try(CHAINLINK).check = "good" /\ Try(CHAINLINK).amount = answer.amount
    BY <2>6
  <2> HIDE DEF Try, answer
  <2> QED
    BY <2>5, <2>7, <2>8, GoodIsUsed
<1>6. Answers(OracleQuote(x, y, amountIn), ChainlinkQuote(x, y, amountIn))
  <2> DEFINE out == QuoteThroughUsd(px, py, amountIn, Unit(x), Unit(y))
             ages == <<<<out.inAt, StalePeriodOf(x)>>, <<out.outAt, StalePeriodOf(y)>>>>
  <2>1. AggregatorQuote(CHAINLINK, x, y, amountIn) = out
    BY DEF AggregatorQuote
  <2>2. out.amount \in Nat
    <3>1. QuoteTokenToUsd(px, amountIn, Unit(x)).amount \in Nat
      BY <1>1, <1>2, NaturalAmounts
    <3> QED
      BY <1>1, <1>2, <3>1, NaturalAmounts DEF QuoteThroughUsd
  <2> HIDE DEF out
  <2>3. ChainlinkQuote(x, y, amountIn)
          = IF /\ Single!Valid([ok |-> out.ok, amount |-> out.amount, at |-> out.inAt], x)
               /\ Single!Valid([ok |-> out.ok, amount |-> out.amount, at |-> out.outAt], y)
            THEN Answer(out.amount, 0) ELSE Reverted
    BY SameReads DEF ChainlinkQuote, Single!MainQuote, out
  <2> SUFFICES ASSUME ChainlinkQuote(x, y, amountIn).ok
               PROVE  OracleQuote(x, y, amountIn)
                        = [ok |-> TRUE, amount |-> ChainlinkQuote(x, y, amountIn).amount]
    BY DEF Answers
  <2>4. /\ Single!Valid([ok |-> out.ok, amount |-> out.amount, at |-> out.inAt], x)
        /\ Single!Valid([ok |-> out.ok, amount |-> out.amount, at |-> out.outAt], y)
        /\ ChainlinkQuote(x, y, amountIn).amount = out.amount
    BY <2>3 DEF Answer, Reverted
  <2>5. /\ out.ok /\ out.amount # 0
        /\ ~Ahead(out.inAt) /\ ~Stale(out.inAt, StalePeriodOf(x))
        /\ ~Ahead(out.outAt) /\ ~Stale(out.outAt, StalePeriodOf(y))
    BY <2>2, <2>4, SameAges DEF Single!Valid
  <2>6. Caught(out) = out
    BY <2>5 DEF Caught
  <2>7. DOMAIN ages = {1, 2}
    OBVIOUS
  <2>8. Check(out.amount, ages) = "good"
    BY <2>5, <2>7 DEF Check
  <2>9. Checked(Caught(out), ages) = [amount |-> out.amount, check |-> "good"]
    BY <2>6, <2>8 DEF Checked
  <2> DEFINE Try(p) == LET reply == Caught(AggregatorQuote(p, x, y, amountIn))
                       IN Checked(reply, <<<<reply.inAt, StalePeriodOf(x)>>,
                                           <<reply.outAt, StalePeriodOf(y)>>>>)
  <2>10. OracleQuote(x, y, amountIn)
           = Select(Try(CHAINLINK), Try(fallbackProviderA), Try(fallbackProviderB))
    BY DEF OracleQuote, SelectFrom
  <2>11. Try(CHAINLINK).check = "good" /\ Try(CHAINLINK).amount = out.amount
    BY <2>1, <2>6, <2>9
  <2> HIDE DEF Try
  <2> QED
    BY <2>4, <2>10, <2>11, GoodIsUsed
<1> QED
  BY <1>3, <1>4, <1>5, <1>6

\* Fallbacks only add answers, for every amount and both tokens of a quote, whatever
\* the fallbacks say and however the governor changes them.
THEOREM AddingFallbacksKeepsAnswers == Spec => []FallbacksOnlyAddAnswers
<1> QED
  BY FallbacksTypeCorrect, OnlyAdds, PTL
-----------------------------------------------------------------------------
\* How far one fallback can move the price.

\* What a passed comparison keeps of the larger amount.
Kept == IF maxDeviation < Whole THEN Whole - maxDeviation - 1 ELSE 0

LEMMA KeptType ==
  ASSUME maxDeviation \in Nat
  PROVE  Kept \in Nat /\ Kept <= Whole /\ Whole \in Nat \ {0}
  BY DeviationsAssumption DEF Kept

\* A quotient that is at most m.
LEMMA QuotientBound ==
  ASSUME NEW z \in Nat, NEW y \in Nat \ {0}, NEW m \in Nat, z \div y <= m
  PROVE  z < (m + 1) * y
<1> DEFINE q == z \div y
           r == z % y
<1>1. q \in Int /\ r \in 0..(y - 1) /\ z = y * q + r
  BY DivMod
<1>2. q <= m
  OBVIOUS
<1> HIDE DEF q, r
<1>3. y * q <= y * m
  BY <1>1, <1>2
<1>4. (m + 1) * y = y * m + y
  OBVIOUS
<1> QED
  BY <1>1, <1>3, <1>4

\* The larger of two amounts loses at most the kept share.
LEMMA LargerKept ==
  ASSUME maxDeviation \in Nat, NEW x \in Nat \ {0}, NEW y \in Nat, y <= x,
         ((x - y) * Whole) \div x <= maxDeviation
  PROVE  x * Kept <= y * Whole
<1>0. Whole \in Nat \ {0} /\ Kept \in Nat
  BY KeptType
<1>1. CASE maxDeviation < Whole
  <2>1. (x - y) * Whole \in Nat
    BY <1>0
  <2>2. (x - y) * Whole < (maxDeviation + 1) * x
    BY <2>1, QuotientBound
  <2>3. (x - y) * Whole = x * Whole - y * Whole
    BY <1>0
  <2>4. x * (Whole - maxDeviation - 1) = x * Whole - (maxDeviation + 1) * x
    BY <1>0
  <2>5. x * Whole \in Int /\ y * Whole \in Int /\ (maxDeviation + 1) * x \in Int
    BY <1>0
  <2> QED
    BY <1>1, <2>2, <2>3, <2>4, <2>5 DEF Kept
<1>2. CASE ~(maxDeviation < Whole)
  BY <1>0, <1>2 DEF Kept
<1> QED
  BY <1>1, <1>2

\* Amounts that a comparison passes, whichever is larger.
Near(a, b) == a * Kept <= b * Whole /\ b * Kept <= a * Whole

LEMMA SmallerKept ==
  ASSUME maxDeviation \in Nat, NEW x \in Nat, NEW y \in Nat, y <= x
  PROVE  y * Kept <= x * Whole
<1>1. Kept \in Nat /\ Kept <= Whole /\ Whole \in Nat
  BY KeptType
<1>2. y * Kept <= x * Kept /\ x * Kept <= x * Whole /\ y * Kept \in Int
      /\ x * Kept \in Int /\ x * Whole \in Int
  BY <1>1
<1> QED
  BY <1>2

LEMMA DeviationNear ==
  ASSUME maxDeviation \in Nat, NEW a \in Nat \ {0}, NEW b \in Nat \ {0}, IsDeviationOK(a, b)
  PROVE  Near(a, b)
<1>1. CASE a > b
  BY <1>1, LargerKept, SmallerKept DEF IsDeviationOK, Near
<1>2. CASE ~(a > b)
  <2>1. ((b - a) * Whole) \div b <= maxDeviation /\ a <= b
    BY <1>2 DEF IsDeviationOK
  <2> QED
    BY <2>1, LargerKept, SmallerKept DEF Near
<1> QED
  BY <1>1, <1>2

\* Two amounts near a third one are within two deviations.
LEMMA NearBoth ==
  ASSUME maxDeviation \in Nat, NEW a \in Nat, NEW b \in Nat, NEW c \in Nat,
         a * Kept <= c * Whole, c * Kept <= b * Whole
  PROVE  a * Kept * Kept <= b * Whole * Whole
<1>1. Kept \in Nat /\ Whole \in Nat
  BY KeptType
<1>2. \A u, v, w \in Nat : u <= v => u * w <= v * w
  BY SMT
<1>3. a * Kept \in Nat /\ c * Whole \in Nat /\ c * Kept \in Nat /\ b * Whole \in Nat
  BY <1>1
<1>4. a * Kept * Kept <= c * Whole * Kept
  BY <1>1, <1>2, <1>3
<1>5. c * Kept * Whole <= b * Whole * Whole
  BY <1>1, <1>2, <1>3
<1>6. c * Whole * Kept = c * Kept * Whole
  BY <1>1
<1>7. a * Kept * Kept \in Int /\ c * Kept * Whole \in Int /\ b * Whole * Whole \in Int
  BY <1>1
<1> QED
  BY <1>4, <1>5, <1>6, <1>7

LEMMA TwoDeviations ==
  ASSUME maxDeviation \in Nat, NEW a \in Nat, NEW b \in Nat, NEW c \in Nat,
         Near(a, c), Near(c, b)
  PROVE  WithinTwoDeviations(a, b)
<1>1. a * Kept * Kept <= b * Whole * Whole
  BY NearBoth DEF Near
<1>2. b * Kept * Kept <= a * Whole * Whole
  BY NearBoth DEF Near
<1> QED
  BY <1>1, <1>2 DEF WithinTwoDeviations, Kept

LEMMA NearItself ==
  ASSUME maxDeviation \in Nat, NEW a \in Nat
  PROVE  Near(a, a)
  BY SmallerKept DEF Near

\* A good answer is that of a contract, and no zero.
GoodAnswers ==
  \A p \in Provider, x \in Token :
    IsGood(p, x) => /\ priceProviders[p] \in Contract
                    /\ Priced(p, x).amount = prices[priceProviders[p]][x].amount
                    /\ Priced(p, x).amount \in Nat \ {0}

LEMMA GoodAnswer == TypeInv => GoodAnswers
<1> SUFFICES ASSUME TypeInv, NEW p \in Provider, NEW x \in Token, IsGood(p, x)
             PROVE  /\ priceProviders[p] \in Contract
                    /\ Priced(p, x).amount = prices[priceProviders[p]][x].amount
                    /\ Priced(p, x).amount \in Nat \ {0}
  BY DEF GoodAnswers
<1> DEFINE answer == GetPriceInUsd(p, x)
<1>1. Priced(p, x).amount = Caught(answer).amount /\ Caught(answer).amount # 0
  BY DEF Priced, Checked, Check, IsGood
<1>2. answer.ok /\ Caught(answer) = answer
  <2>1. CASE answer.ok
    BY <2>1 DEF Caught
  <2>2. CASE ~answer.ok
    <3>1. Caught(answer).amount = 0
      BY <2>2 DEF Caught, GetPriceInUsd, Reverted, TypeInv, TypeOK, AggregatorTypeOK, PriceReply
    <3> QED
      BY <1>1, <3>1
  <2> QED
    BY <2>1, <2>2
<1>3. IsSet(p) /\ answer = prices[priceProviders[p]][x]
  BY <1>2 DEF GetPriceInUsd, Reverted
<1>4. priceProviders[p] \in Contract
  BY <1>3 DEF IsSet, TypeInv, TypeOK, AggregatorTypeOK
<1>5. answer \in PriceReply
  BY <1>3, <1>4 DEF TypeInv, TypeOK, AggregatorTypeOK
<1>6. answer.amount \in Nat
  BY <1>5 DEF PriceReply
<1> QED
  BY <1>1, <1>2, <1>3, <1>4, <1>6

\* With Chainlink out, the price is fallback A's, or B's when A is not good.
FallbackPrices ==
  \A x \in Token :
    LET a == Priced(fallbackProviderA, x)
        b == Priced(fallbackProviderB, x)
    IN ~IsGood(CHAINLINK, x) /\ fallbackProviderB # NONE /\ OraclePrice(x).ok =>
         \/ /\ IsGood(fallbackProviderA, x) /\ IsGood(fallbackProviderB, x)
            /\ OraclePrice(x).amount = a.amount /\ IsDeviationOK(a.amount, b.amount)
         \/ /\ IsGood(fallbackProviderA, x) /\ ~IsGood(fallbackProviderB, x)
            /\ OraclePrice(x).amount = a.amount
         \/ /\ ~IsGood(fallbackProviderA, x) /\ IsGood(fallbackProviderB, x)
            /\ OraclePrice(x).amount = b.amount

LEMMA FallbackPrice == FallbackPrices
<1> SUFFICES ASSUME NEW x \in Token, ~IsGood(CHAINLINK, x), fallbackProviderB # NONE,
                    OraclePrice(x).ok
    PROVE  \/ /\ IsGood(fallbackProviderA, x) /\ IsGood(fallbackProviderB, x)
              /\ OraclePrice(x).amount = Priced(fallbackProviderA, x).amount
              /\ IsDeviationOK(Priced(fallbackProviderA, x).amount,
                               Priced(fallbackProviderB, x).amount)
           \/ /\ IsGood(fallbackProviderA, x) /\ ~IsGood(fallbackProviderB, x)
              /\ OraclePrice(x).amount = Priced(fallbackProviderA, x).amount
           \/ /\ ~IsGood(fallbackProviderA, x) /\ IsGood(fallbackProviderB, x)
              /\ OraclePrice(x).amount = Priced(fallbackProviderB, x).amount
  BY DEF FallbackPrices
<1> DEFINE c == Priced(CHAINLINK, x)
           a == Priced(fallbackProviderA, x)
           b == Priced(fallbackProviderB, x)
<1>1. OraclePrice(x) = Select(c, a, b)
  BY DEF OraclePrice, SelectFrom
<1>2. c.check # "good"
  BY DEF IsGood
<1> HIDE DEF a, b, c
<1>3. \/ a.check = "good" /\ b.check = "good" /\ Select(c, a, b).amount = a.amount
         /\ IsDeviationOK(a.amount, b.amount)
      \/ a.check = "good" /\ b.check # "good" /\ Select(c, a, b).amount = a.amount
      \/ a.check # "good" /\ b.check = "good" /\ Select(c, a, b).amount = b.amount
  BY <1>1, <1>2 DEF Select
<1> QED
  BY <1>1, <1>3 DEF IsGood, a, b

\* A provider whose contract answers the same, within the second.
LEMMA StaysPriced ==
  ASSUME NEW p \in Provider, NEW x \in Token, UNCHANGED governed,
         prices'[priceProviders[p]] = prices[priceProviders[p]]
  PROVE  /\ priceProviders'[p] = priceProviders[p]
         /\ now' = now => Priced(p, x)' = Priced(p, x)
<1>1. GetPriceInUsd(p, x)' = GetPriceInUsd(p, x)
  BY DEF governed, GetPriceInUsd, IsSet
<1>2. Caught(GetPriceInUsd(p, x))' = Caught(GetPriceInUsd(p, x))
  BY <1>1, Zenon DEF Caught
<1>3. StalePeriodOf(x)' = StalePeriodOf(x)
  BY DEF governed, staleVars, StalePeriodOf
<1>4. ASSUME now' = now, NEW amount, NEW ages
      PROVE  Check(amount, ages)' = Check(amount, ages)
  BY <1>4, Zenon DEF Check, Ahead, Stale
<1>5. now' = now => Priced(p, x)' = Priced(p, x)
  BY <1>2, <1>3, <1>4, Zenon DEF Priced, Checked
<1> QED
  BY <1>5 DEF governed

\* No step passes time and changes an answer.
LEMMA OneThingMoves == [Next]_vars => now' = now \/ prices' = prices
BY DEF Next, vars, Pass, Report, SetPriceProvider, UpdateFallbackProviders, aggregatorVars,
       UpdateCustomStalePeriod, UpdateDefaultStalePeriod

LEMMA MovesStep ==
  ASSUME TypeInv, GoodAnswers, GoodAnswers', FallbackPrices, FallbackPrices', [Next]_vars,
         NEW x \in Token, UNCHANGED governed, OneContractMoves,
         ~IsGood(CHAINLINK, x), ~IsGood(CHAINLINK, x)', fallbackProviderB # NONE,
         IsGood(fallbackProviderA, x), IsGood(fallbackProviderB, x),
         priceProviders[fallbackProviderA] # priceProviders[fallbackProviderB],
         OraclePrice(x).ok, OraclePrice(x)'.ok
  PROVE  WithinTwoDeviations(OraclePrice(x).amount, OraclePrice(x)'.amount)
<1> DEFINE fa == fallbackProviderA
           fb == fallbackProviderB
           a == Priced(fa, x).amount
           b == Priced(fb, x).amount
           na == Priced(fa, x)'.amount
           nb == Priced(fb, x)'.amount
           old == OraclePrice(x).amount
           new == OraclePrice(x)'.amount
<1>1. /\ fa \in Provider /\ fb \in Provider /\ maxDeviation \in Nat
      /\ fallbackProviderA' = fa /\ fallbackProviderB' = fb /\ maxDeviation' = maxDeviation
      /\ priceProviders' = priceProviders
  BY DEF TypeInv, TypeOK, governed
<1>2. old = a /\ Near(a, b) /\ Near(b, a) /\ a \in Nat \ {0} /\ b \in Nat \ {0}
  <2>1. old = a /\ IsDeviationOK(a, b)
    BY DEF FallbackPrices
  <2>2. a \in Nat \ {0} /\ b \in Nat \ {0}
    BY <1>1 DEF GoodAnswers
  <2> QED
    BY <1>1, <2>1, <2>2, DeviationNear DEF Near
<1>3. PICK c \in Contract \ {priceProviders[CHAINLINK]} :
        \A d \in Contract \ {c} : prices'[d] = prices[d]
  BY DEF OneContractMoves
<1>4. /\ priceProviders[fa] \in Contract /\ priceProviders[fb] \in Contract
      /\ a = prices[priceProviders[fa]][x].amount /\ b = prices[priceProviders[fb]][x].amount
  BY <1>1 DEF GoodAnswers
<1>5. /\ IsGood(fa, x)' => na \in Nat \ {0} /\ na = prices'[priceProviders[fa]][x].amount
      /\ IsGood(fb, x)' => nb \in Nat \ {0} /\ nb = prices'[priceProviders[fb]][x].amount
  BY <1>1 DEF GoodAnswers
<1>6. \/ IsGood(fa, x)' /\ IsGood(fb, x)' /\ new = na /\ IsDeviationOK(na, nb)
      \/ IsGood(fa, x)' /\ ~IsGood(fb, x)' /\ new = na
      \/ ~IsGood(fa, x)' /\ IsGood(fb, x)' /\ new = nb
  <2>1. fallbackProviderB' # NONE
    BY <1>1
  <2>2. IsDeviationOK(Priced(fallbackProviderA, x).amount,
                      Priced(fallbackProviderB, x).amount)' => IsDeviationOK(na, nb)
    BY <1>1 DEF IsDeviationOK
  <2> QED
    BY <2>1, <2>2 DEF FallbackPrices
<1>7. now' = now \/ prices' = prices
  BY OneThingMoves
<1>8. /\ prices'[priceProviders[fa]] = prices[priceProviders[fa]]
           /\ now' = now => (IsGood(fa, x)' <=> IsGood(fa, x))
      /\ prices'[priceProviders[fb]] = prices[priceProviders[fb]]
           /\ now' = now => (IsGood(fb, x)' <=> IsGood(fb, x))
  BY <1>1, StaysPriced DEF IsGood
<1>9. CASE prices'[priceProviders[fa]] # prices[priceProviders[fa]]
  <2>1. /\ prices'[priceProviders[fb]] = prices[priceProviders[fb]] /\ now' = now
    BY <1>3, <1>4, <1>7, <1>9
  <2>2. IsGood(fb, x)' /\ nb = b
    BY <1>4, <1>5, <1>8, <2>1
  <2>3. CASE IsGood(fa, x)'
    <3>1. new = na /\ IsDeviationOK(na, nb) /\ na \in Nat \ {0}
      BY <1>5, <1>6, <2>2, <2>3
    <3>2. Near(na, b) /\ Near(b, na)
      BY <1>1, <1>2, <2>2, <3>1, DeviationNear DEF Near
    <3> QED
      BY <1>1, <1>2, <3>1, <3>2, TwoDeviations
  <2>4. CASE ~IsGood(fa, x)'
    <3>1. new = b
      BY <1>6, <2>2, <2>4
    <3> QED
      BY <1>1, <1>2, <3>1, NearItself, TwoDeviations
  <2> QED
    BY <2>3, <2>4
<1>10. CASE prices'[priceProviders[fa]] = prices[priceProviders[fa]]
  <2>1. CASE IsGood(fa, x)'
    <3>1. new = a
      BY <1>4, <1>5, <1>6, <1>10, <2>1
    <3> QED
      BY <1>1, <1>2, <3>1, NearItself, TwoDeviations
  <2>2. CASE ~IsGood(fa, x)'
    <3>1. prices' = prices
      BY <1>7, <1>8, <1>10, <2>2
    <3>2. new = b
      BY <1>4, <1>5, <1>6, <2>2, <3>1
    <3> QED
      BY <1>1, <1>2, <3>2, NearItself, TwoDeviations
  <2> QED
    BY <2>1, <2>2
<1> QED
  BY <1>9, <1>10

\* With Chainlink out, one fallback alone moves the price by no more than two
\* deviations: both answers are within one of the fallback that stood still.
THEOREM OneFallbackMovesLittle == Spec => OneFallbackMovesThePriceAtMostTwoDeviations
<1> DEFINE moved ==
      \A x \in Token :
        (/\ governed' = governed /\ OneContractMoves
         /\ ~IsGood(CHAINLINK, x) /\ ~IsGood(CHAINLINK, x)'
         /\ fallbackProviderB # NONE
         /\ IsGood(fallbackProviderA, x) /\ IsGood(fallbackProviderB, x)
         /\ priceProviders[fallbackProviderA] # priceProviders[fallbackProviderB]
         /\ OraclePrice(x).ok /\ OraclePrice(x)'.ok)
          => WithinTwoDeviations(OraclePrice(x).amount, OraclePrice(x)'.amount)
<1>1. TypeInv /\ GoodAnswers /\ GoodAnswers' /\ FallbackPrices /\ FallbackPrices'
        /\ [Next]_vars => moved
  BY MovesStep
<1>2. Spec => []TypeInv
  BY InitInv, StepInv, PTL DEF Spec
<1> QED
  BY <1>1, <1>2, GoodAnswer, FallbackPrice, PTL
     DEF Spec, OneFallbackMovesThePriceAtMostTwoDeviations

-----------------------------------------------------------------------------
\* The four reads agree.  First what the conversions of a whole token compute.

LEMMA WholeAmounts ==
  ASSUME NEW n \in Nat, NEW d \in Nat \ {0}
  PROVE  (d * n) \div d = n /\ (n * d) \div d = n
<1>1. (d * n + 0) \div d = n
  BY SMT
<1>2. n * d = d * n /\ d * n + 0 = d * n
  OBVIOUS
<1> QED
  BY <1>1, <1>2

LEMMA Quotient ==
  ASSUME NEW n \in Nat, NEW d \in Nat \ {0}
  PROVE  n \div d \in Nat
  OBVIOUS

\* A quotient above m, and one that is not.
LEMMA QuotientBelow ==
  ASSUME NEW z \in Nat, NEW y \in Nat \ {0}, NEW m \in Nat
  PROVE  z \div y <= m <=> z < (m + 1) * y
<1>1. z \div y <= m => z < (m + 1) * y
  BY QuotientBound
<1>2. ASSUME z < (m + 1) * y PROVE z \div y <= m
  <2> DEFINE q == z \div y
             r == z % y
  <2>1. q \in Int /\ r \in 0..(y - 1) /\ z = y * q + r
    BY DivMod
  <2> HIDE DEF q, r
  <2>2. y * q < (m + 1) * y
    BY <1>2, <2>1
  <2>3. q >= m + 1 => y * q >= (m + 1) * y
    BY <2>1
  <2>4. q <= m
    BY <2>1, <2>2, <2>3
  <2> QED
    BY <2>4 DEF q
<1> QED
  BY <1>1, <1>2

LEMMA EqualAmountsPass ==
  ASSUME maxDeviation \in Nat, NEW u \in Nat \ {0}
  PROVE  IsDeviationOK(u, u)
<1>1. (u - u) * Whole = 0 /\ 0 \div u = 0
  BY DeviationsAssumption
<1> QED
  BY <1>1 DEF IsDeviationOK

\* What one price's worth of value buys at a lower price is no further from a whole
\* token than the prices are from each other: rounding down brings them closer.
LEMMA BuysNearer ==
  ASSUME maxDeviation \in Nat, NEW a \in Nat \ {0}, NEW b \in Nat \ {0}, NEW u \in Nat \ {0},
         b <= a, IsDeviationOK(a, b)
  PROVE  IsDeviationOK(u, (a * u) \div b)
<1> DEFINE s == (a * u) \div b
           r == (a * u) % b
<1>0. Whole \in Nat \ {0}
  BY DeviationsAssumption
<1>1. s \in Int /\ r \in 0..(b - 1) /\ a * u = b * s + r
  <2>1. a * u \in Int
    OBVIOUS
  <2> QED
    BY <2>1, DivMod
<1> HIDE DEF s, r
<1>2. b * s <= a * u
  BY <1>1
<1>3. s >= u
  <2>1. b * u <= a * u
    BY SMT
  <2>2. b * u < b * (s + 1)
    BY <1>1, <2>1
  <2>3. s + 1 <= u => b * (s + 1) <= b * u
    BY <1>1
  <2> QED
    BY <1>1, <2>2, <2>3
<1>4. (a - b) * Whole < (maxDeviation + 1) * a
  <2>1. ((a - b) * Whole) \div a <= maxDeviation
    <3>1. CASE a > b
      BY <3>1 DEF IsDeviationOK
    <3>2. CASE a = b
      BY <3>2 DEF IsDeviationOK
    <3> QED
      BY <3>1, <3>2
  <2>2. (a - b) * Whole \in Nat
    BY <1>0
  <2> QED
    BY <2>1, <2>2, QuotientBound
<1>5. (s - u) * a <= (a - b) * s
  <2>1. (s - u) * a = s * a - u * a /\ (a - b) * s = a * s - b * s
    BY <1>1
  <2> QED
    BY <1>1, <1>2, <2>1
<1>6. (s - u) * Whole < (maxDeviation + 1) * s
  <2> DEFINE far == (s - u) * Whole
             near == (maxDeviation + 1) * s
  <2>1. far \in Int /\ near \in Int /\ (a - b) * s \in Int /\ (s - u) * a \in Int
    BY <1>0, <1>1
  <2>2. far * a = ((s - u) * a) * Whole
    BY <1>0, <1>1
  <2>3. ((s - u) * a) * Whole <= ((a - b) * s) * Whole
    BY <1>0, <1>5, <2>1
  <2>4. ((a - b) * s) * Whole = ((a - b) * Whole) * s
    BY <1>0, <1>1
  <2>5. ((a - b) * Whole) * s < ((maxDeviation + 1) * a) * s
    <3>1. \A v, w \in Int : v < w => v * s < w * s
      BY <1>1, <1>3
    <3> QED
      BY <1>0, <1>4, <3>1
  <2>6. ((maxDeviation + 1) * a) * s = near * a
    BY <1>1
  <2> HIDE DEF far, near
  <2>7. far * a < near * a
    BY <1>0, <1>1, <2>1, <2>2, <2>3, <2>4, <2>5, <2>6
  <2>8. far >= near => far * a >= near * a
    BY <2>1
  <2> QED
    BY <2>1, <2>7, <2>8 DEF far, near
<1>7. ((s - u) * Whole) \div s <= maxDeviation
  <2>1. (s - u) * Whole \in Nat /\ s \in Nat \ {0}
    BY <1>0, <1>1, <1>3
  <2> QED
    BY <1>6, <2>1, QuotientBelow
<1>8. ~(u > s)
  BY <1>1, <1>3
<1>9. IsDeviationOK(u, s)
  BY <1>7, <1>8 DEF IsDeviationOK
<1> QED
  BY <1>9 DEF s

\* At a higher price it buys less, and rounding down may take it past the distance
\* that the prices keep, by less than a base unit.
LEMMA BuysOneUnitOff ==
  ASSUME maxDeviation \in Nat, NEW a \in Nat \ {0}, NEW b \in Nat \ {0}, NEW u \in Nat \ {0},
         a < b, ~IsDeviationOK(u, (a * u) \div b)
  PROVE  OneUnitPastDeviation(a, b, u)
<1> DEFINE s == (a * u) \div b
           r == (a * u) % b
<1>0. Whole \in Nat \ {0}
  BY DeviationsAssumption
<1>1. s \in Int /\ r \in 0..(b - 1) /\ a * u = b * s + r
  <2>1. a * u \in Int
    OBVIOUS
  <2> QED
    BY <2>1, DivMod
<1>2. ~IsDeviationOK(u, s)
  OBVIOUS
<1> HIDE DEF s, r
<1>3. s < u
  <2>1. b * s <= a * u
    BY <1>1
  <2>2. a * u < b * u
    BY SMT
  <2>3. s >= u => b * s >= b * u
    BY <1>1
  <2> QED
    BY <1>1, <2>1, <2>2, <2>3
<1>4. (u - s) * Whole >= (maxDeviation + 1) * u
  <2>1. ~(((u - s) * Whole) \div u <= maxDeviation)
    BY <1>1, <1>2, <1>3 DEF IsDeviationOK
  <2>2. (u - s) * Whole \in Nat
    BY <1>0, <1>1, <1>3
  <2>3. ~((u - s) * Whole < (maxDeviation + 1) * u)
    BY <2>1, <2>2, QuotientBelow
  <2> QED
    BY <2>2, <2>3
<1>5. (u - s) * b < (b - a) * u + b
  <2>1. (u - s) * b = u * b - b * s /\ (b - a) * u = b * u - a * u
    BY <1>1
  <2> QED
    BY <1>1, <2>1
<1> DEFINE gap == (b - a) * u + b
           lost == (u - s) * b
<1>6. gap \in Int /\ lost \in Int
  BY <1>1
<1>7. gap * Whole > lost * Whole
  BY <1>0, <1>5, <1>6
<1>8. lost * Whole = ((u - s) * Whole) * b
  BY <1>0, <1>1
<1>9. ((u - s) * Whole) * b >= ((maxDeviation + 1) * u) * b
  <2>1. \A v, w \in Int : v >= w => v * b >= w * b
    BY SMT
  <2> QED
    BY <1>0, <1>1, <1>4, <2>1
<1>10. gap * Whole > (maxDeviation + 1) * u * b
  <2>1. gap * Whole \in Int /\ ((u - s) * Whole) * b \in Int /\ (maxDeviation + 1) * u * b \in Int
    BY <1>0, <1>1
  <2> HIDE DEF gap, lost
  <2> QED
    BY <1>7, <1>8, <1>9, <2>1
<1> QED
  BY <1>10 DEF OneUnitPastDeviation

-----------------------------------------------------------------------------
\* The check of an amount that is not zero, by the age of its price.
Standing(at, period) ==
  IF Ahead(at) THEN "reverts" ELSE IF Stale(at, period) THEN "bad" ELSE "good"

LEMMA CheckByAge ==
  ASSUME NEW amount, NEW at, NEW period
  PROVE  /\ Check(amount, <<<<at, period>>>>)
              = IF amount = 0 THEN "bad" ELSE Standing(at, period)
         /\ Check(amount, <<<<at, period>>, <<at, period>>>>)
              = IF amount = 0 THEN "bad" ELSE Standing(at, period)
<1> DEFINE one == <<<<at, period>>>>
           two == <<<<at, period>>, <<at, period>>>>
<1>1. /\ DOMAIN one = {1} /\ one[1][1] = at /\ one[1][2] = period
      /\ DOMAIN two = {1, 2} /\ two[1][1] = at /\ two[1][2] = period
      /\ two[2][1] = at /\ two[2][2] = period
  OBVIOUS
<1> HIDE DEF one, two
<1>2. Check(amount, one) = IF amount = 0 THEN "bad" ELSE Standing(at, period)
  BY <1>1 DEF Check, Standing
<1>3. Check(amount, two) = IF amount = 0 THEN "bad" ELSE Standing(at, period)
  BY <1>1 DEF Check, Standing
<1> QED
  BY <1>2, <1>3 DEF one, two

\* The reads of one provider.
Sold(p, x, amountIn) ==
  LET answer == Caught(AggregatorTokenToUsd(p, x, amountIn))
  IN Checked(answer, <<<<answer.at, StalePeriodOf(x)>>>>)

Bought(p, x, amountIn) ==
  LET answer == Caught(AggregatorUsdToToken(p, x, amountIn))
  IN Checked(answer, <<<<answer.at, StalePeriodOf(x)>>>>)

Quoted(p, x, y, amountIn) ==
  LET answer == Caught(AggregatorQuote(p, x, y, amountIn))
  IN Checked(answer, <<<<answer.inAt, StalePeriodOf(x)>>, <<answer.outAt, StalePeriodOf(y)>>>>)

\* What a provider replies about a token.
LEMMA ReplyType ==
  ASSUME TypeInv, NEW p \in Provider \cup {NONE}, NEW x \in Token
  PROVE  GetPriceInUsd(p, x) \in PriceReply
<1>1. Reverted \in PriceReply
  BY DEF Reverted, PriceReply
<1>2. ASSUME IsSet(p) PROVE priceProviders[p] \in Contract
  BY <1>2 DEF IsSet, TypeInv, TypeOK, AggregatorTypeOK
<1> QED
  BY <1>1, <1>2 DEF GetPriceInUsd, TypeInv, TypeOK, AggregatorTypeOK

\* The price of a provider that answers and of one that does not.
LEMMA PricedByReply ==
  ASSUME NEW p, NEW x, GetPriceInUsd(p, x) \in PriceReply
  PROVE  LET reply == GetPriceInUsd(p, x)
         IN Priced(p, x)
              = IF reply.ok /\ reply.amount # 0
                THEN [amount |-> reply.amount, check |-> Standing(reply.at, StalePeriodOf(x))]
                ELSE [amount |-> 0, check |-> "bad"]
<1> DEFINE reply == GetPriceInUsd(p, x)
<1>1. reply \in PriceReply
  OBVIOUS
<1>2. Priced(p, x) = Checked(Caught(reply), <<<<Caught(reply).at, StalePeriodOf(x)>>>>)
  BY DEF Priced
<1> HIDE DEF reply
<1>3. Caught(reply).amount = IF reply.ok THEN reply.amount ELSE 0
  BY <1>1 DEF Caught, PriceReply
<1>4. reply.ok => Caught(reply).at = reply.at
  BY DEF Caught
<1>5. Priced(p, x)
        = [amount |-> Caught(reply).amount,
           check |-> IF Caught(reply).amount = 0 THEN "bad"
                     ELSE Standing(Caught(reply).at, StalePeriodOf(x))]
  BY <1>2, CheckByAge DEF Checked
<1> QED
  BY <1>3, <1>4, <1>5 DEF reply

\* A whole token sells for the price.
LEMMA SoldWhole ==
  ASSUME NEW p, NEW x \in Token, GetPriceInUsd(p, x) \in PriceReply
  PROVE  Sold(p, x, Unit(x)) = Priced(p, x)
<1> DEFINE reply == GetPriceInUsd(p, x)
           answer == AggregatorTokenToUsd(p, x, Unit(x))
<1>1. reply \in PriceReply /\ reply.amount \in Nat /\ Unit(x) \in Nat \ {0}
  BY PricesAssumption DEF PriceReply
<1>2. /\ reply.ok => answer = Answer(reply.amount, reply.at)
      /\ ~reply.ok => answer = Reverted
  <2>1. (Unit(x) * reply.amount) \div Unit(x) = reply.amount
    BY <1>1, WholeAmounts
  <2> QED
    BY <2>1 DEF AggregatorTokenToUsd, QuoteTokenToUsd
<1>3. Sold(p, x, Unit(x))
        = [amount |-> Caught(answer).amount,
           check |-> IF Caught(answer).amount = 0 THEN "bad"
                     ELSE Standing(Caught(answer).at, StalePeriodOf(x))]
  BY CheckByAge DEF Sold, Checked
<1>4. /\ reply.ok => Caught(answer).amount = reply.amount /\ Caught(answer).at = reply.at
      /\ ~reply.ok => Caught(answer).amount = 0
  BY <1>2 DEF Caught, Answer, Reverted
<1>5. Priced(p, x)
        = IF reply.ok /\ reply.amount # 0
          THEN [amount |-> reply.amount, check |-> Standing(reply.at, StalePeriodOf(x))]
          ELSE [amount |-> 0, check |-> "bad"]
  BY <1>1, PricedByReply
<1> HIDE DEF reply, answer
<1> QED
  BY <1>3, <1>4, <1>5

\* What an amount of USD buys at a provider with a price.
LEMMA BoughtByReply ==
  ASSUME NEW p, NEW x \in Token, NEW amountIn \in Nat, GetPriceInUsd(p, x) \in PriceReply
  PROVE  /\ Priced(p, x).check # "good" /\ Priced(p, x).check # "reverts"
              => Bought(p, x, amountIn).check = "bad"
         /\ Priced(p, x).check = "good" =>
              LET tokens == (amountIn * Unit(x)) \div Priced(p, x).amount
              IN /\ Priced(p, x).amount \in Nat \ {0}
                 /\ Bought(p, x, amountIn).amount = tokens
                 /\ Bought(p, x, amountIn).check = IF tokens = 0 THEN "bad" ELSE "good"
<1> DEFINE reply == GetPriceInUsd(p, x)
           answer == AggregatorUsdToToken(p, x, amountIn)
<1>1. reply \in PriceReply /\ reply.amount \in Nat
  BY DEF PriceReply
<1>2. Bought(p, x, amountIn)
        = [amount |-> Caught(answer).amount,
           check |-> IF Caught(answer).amount = 0 THEN "bad"
                     ELSE Standing(Caught(answer).at, StalePeriodOf(x))]
  BY CheckByAge DEF Bought, Checked
<1>3. Priced(p, x)
        = IF reply.ok /\ reply.amount # 0
          THEN [amount |-> reply.amount, check |-> Standing(reply.at, StalePeriodOf(x))]
          ELSE [amount |-> 0, check |-> "bad"]
  BY <1>1, PricedByReply
<1>4. CASE reply.ok /\ reply.amount # 0
  <2>1. answer = Answer((amountIn * Unit(x)) \div reply.amount, reply.at)
    BY <1>4 DEF AggregatorUsdToToken, QuoteUsdToToken
  <2>2. /\ Caught(answer).amount = (amountIn * Unit(x)) \div reply.amount
        /\ Caught(answer).at = reply.at
    <3>1. /\ answer.ok /\ answer.at = reply.at
          /\ answer.amount = (amountIn * Unit(x)) \div reply.amount
      BY <2>1 DEF Answer
    <3> HIDE DEF answer
    <3> QED
      BY <3>1 DEF Caught
  <2>3. Standing(reply.at, StalePeriodOf(x)) \in {"good", "bad", "reverts"}
    BY DEF Standing
  <2> HIDE DEF reply, answer
  <2> QED
    BY <1>1, <1>2, <1>3, <1>4, <2>2, <2>3
<1>5. CASE ~(reply.ok /\ reply.amount # 0)
  <2>1. answer = NoPrice \/ answer = Reverted
    BY <1>5 DEF AggregatorUsdToToken, QuoteUsdToToken
  <2>2. Caught(answer).amount = 0
    BY <2>1 DEF Caught, NoPrice, Answer, Reverted
  <2> HIDE DEF reply, answer
  <2> QED
    BY <1>2, <1>3, <1>5, <2>2
<1> QED
  BY <1>4, <1>5

\* A whole token quotes in itself as one.
LEMMA QuotedWhole ==
  ASSUME NEW p, NEW x \in Token, GetPriceInUsd(p, x) \in PriceReply
  PROVE  /\ Quoted(p, x, x, Unit(x)).check = Priced(p, x).check
         /\ Priced(p, x).check = "good" => Quoted(p, x, x, Unit(x)).amount = Unit(x)
<1> DEFINE reply == GetPriceInUsd(p, x)
           answer == AggregatorQuote(p, x, x, Unit(x))
<1>1. reply \in PriceReply /\ reply.amount \in Nat /\ Unit(x) \in Nat \ {0}
  BY PricesAssumption DEF PriceReply
<1>2. Priced(p, x)
        = IF reply.ok /\ reply.amount # 0
          THEN [amount |-> reply.amount, check |-> Standing(reply.at, StalePeriodOf(x))]
          ELSE [amount |-> 0, check |-> "bad"]
  BY <1>1, PricedByReply
<1>3. /\ Quoted(p, x, x, Unit(x)).amount = Caught(answer).amount
      /\ Quoted(p, x, x, Unit(x)).check
           = Check(Caught(answer).amount, <<<<Caught(answer).inAt, StalePeriodOf(x)>>,
                                            <<Caught(answer).outAt, StalePeriodOf(x)>>>>)
  BY DEF Quoted, Checked
<1>4. CASE reply.ok /\ reply.amount # 0
  <2>1. QuoteTokenToUsd(reply, Unit(x), Unit(x)) = Answer(reply.amount, reply.at)
    <3>1. (Unit(x) * reply.amount) \div Unit(x) = reply.amount
      BY <1>1, WholeAmounts
    <3> QED
      BY <1>4, <3>1 DEF QuoteTokenToUsd
  <2>2. QuoteUsdToToken(reply, reply.amount, Unit(x)) = Answer(Unit(x), reply.at)
    <3>1. (reply.amount * Unit(x)) \div reply.amount = Unit(x)
      BY <1>1, <1>4, WholeAmounts
    <3> QED
      BY <1>4, <3>1 DEF QuoteUsdToToken
  <2>3. answer = [ok |-> TRUE, amount |-> Unit(x), inAt |-> reply.at, outAt |-> reply.at]
    <3> DEFINE inUsd == QuoteTokenToUsd(reply, Unit(x), Unit(x))
               out == QuoteUsdToToken(reply, inUsd.amount, Unit(x))
    <3>1. answer = [ok |-> inUsd.ok /\ out.ok, amount |-> out.amount, inAt |-> inUsd.at,
                    outAt |-> out.at]
      BY DEF AggregatorQuote, QuoteThroughUsd
    <3>2. inUsd.ok /\ inUsd.amount = reply.amount /\ inUsd.at = reply.at
      BY <2>1 DEF Answer
    <3>3. out.ok /\ out.amount = Unit(x) /\ out.at = reply.at
      BY <2>2, <3>2 DEF Answer
    <3> HIDE DEF inUsd, out, answer
    <3> QED
      BY <3>1, <3>2, <3>3
  <2>4. Caught(answer) = answer
    BY <2>3 DEF Caught
  <2>5. Check(Unit(x), <<<<reply.at, StalePeriodOf(x)>>, <<reply.at, StalePeriodOf(x)>>>>)
          = Standing(reply.at, StalePeriodOf(x))
    BY <1>1, CheckByAge
  <2> HIDE DEF reply, answer
  <2> QED
    BY <1>2, <1>3, <1>4, <2>3, <2>4, <2>5
<1>5. CASE ~(reply.ok /\ reply.amount # 0)
  <2>1. Caught(answer).amount = 0
    <3>1. CASE ~reply.ok
      <4>1. ~answer.ok /\ answer.amount = 0
        BY <3>1 DEF AggregatorQuote, QuoteThroughUsd, QuoteUsdToToken, QuoteTokenToUsd, Reverted
      <4>2. answer = [ok |-> answer.ok, amount |-> answer.amount, inAt |-> answer.inAt,
                      outAt |-> answer.outAt]
        BY DEF AggregatorQuote, QuoteThroughUsd
      <4> HIDE DEF answer
      <4> QED
        BY <4>1, <4>2 DEF Caught
    <3>2. CASE reply.ok /\ reply.amount = 0
      <4>1. answer.ok /\ answer.amount = 0
        BY <3>2 DEF AggregatorQuote, QuoteThroughUsd, QuoteUsdToToken, QuoteTokenToUsd, NoPrice,
                    Answer
      <4> HIDE DEF answer
      <4> QED
        BY <4>1 DEF Caught
    <3> QED
      BY <1>5, <3>1, <3>2
  <2>2. \A ages : Check(0, ages) = "bad"
    BY DEF Check
  <2> HIDE DEF reply, answer
  <2> QED
    BY <1>2, <1>3, <1>5, <2>1, <2>2
<1> QED
  BY <1>4, <1>5

\* Providers' answers that only differ in their amounts are selected alike, as long as
\* the two fallbacks' amounts still pass.
LEMMA SelectedAlike ==
  ASSUME NEW c, NEW a, NEW b, NEW c2, NEW a2, NEW b2, NEW amount,
         {c.check, a.check, b.check} \subseteq {"good", "bad", "reverts"},
         Select(c, a, b).ok, c2.check = c.check, a2.check = a.check, b2.check = b.check,
         c.check = "good" => c2.amount = amount,
         a.check = "good" => a2.amount = amount,
         b.check = "good" => b2.amount = amount,
         IsDeviationOK(amount, amount)
  PROVE  Select(c2, a2, b2) = [ok |-> TRUE, amount |-> amount]
BY DEF Select

\* What `bought' must be for a provider that stands as `priced' when it is asked for
\* the tokens that usd buys.
BuysFor(usd, unit, priced, bought) ==
  /\ priced.check = "bad" => bought.check = "bad"
  /\ priced.check = "good" =>
       LET tokens == (usd * unit) \div priced.amount
       IN /\ priced.amount \in Nat \ {0}
          /\ bought.amount = tokens
          /\ bought.check = IF tokens = 0 THEN "bad" ELSE "good"

\* What a price buys is selected from the providers' amounts in tokens.
LEMMA BoughtWhole ==
  ASSUME NEW c, NEW a, NEW b, NEW c2, NEW a2, NEW b2, NEW whole \in Nat \ {0},
         maxDeviation \in Nat, {c.check, a.check, b.check} \subseteq {"good", "bad", "reverts"},
         Select(c, a, b).ok,
         BuysFor(Select(c, a, b).amount, whole, c, c2),
         BuysFor(Select(c, a, b).amount, whole, a, a2),
         BuysFor(Select(c, a, b).amount, whole, b, b2)
  PROVE  \/ Select(c2, a2, b2) = [ok |-> TRUE, amount |-> whole]
         \/ /\ ~Select(c2, a2, b2).ok
            /\ c.check # "good" /\ a.check = "good" /\ b.check = "good"
            /\ OneUnitPastDeviation(a.amount, b.amount, whole)
<1> DEFINE m == Select(c, a, b).amount
           Tokens(n) == (m * whole) \div n
<1>1. /\ c.check = "bad" => c2.check = "bad"
      /\ a.check = "bad" => a2.check = "bad"
      /\ b.check = "bad" => b2.check = "bad"
      /\ c.check = "good" => /\ c.amount \in Nat \ {0} /\ c2.amount = Tokens(c.amount)
                             /\ c2.check = IF Tokens(c.amount) = 0 THEN "bad" ELSE "good"
      /\ a.check = "good" => /\ a.amount \in Nat \ {0} /\ a2.amount = Tokens(a.amount)
                             /\ a2.check = IF Tokens(a.amount) = 0 THEN "bad" ELSE "good"
      /\ b.check = "good" => /\ b.amount \in Nat \ {0} /\ b2.amount = Tokens(b.amount)
                             /\ b2.check = IF Tokens(b.amount) = 0 THEN "bad" ELSE "good"
  BY DEF BuysFor
<1>2. \A n \in Nat \ {0} : m = n => Tokens(n) = whole
  BY WholeAmounts
<1> HIDE DEF Tokens
<1>3. CASE c.check = "good"
  <2>1. m = c.amount
    BY <1>3 DEF Select
  <2>2. c2.check = "good" /\ c2.amount = whole
    BY <1>1, <1>2, <1>3, <2>1
  <2> QED
    BY <2>2 DEF Select
<1>4. CASE c.check # "good" /\ a.check = "good" /\ (fallbackProviderB = NONE \/ b.check # "good")
  <2>1. m = a.amount /\ c.check = "bad" /\ (fallbackProviderB = NONE \/ b.check = "bad")
    BY <1>4 DEF Select
  <2>2. /\ c2.check = "bad" /\ a2.check = "good" /\ a2.amount = whole
        /\ fallbackProviderB = NONE \/ b2.check = "bad"
    BY <1>1, <1>2, <1>4, <2>1
  <2> QED
    BY <2>2 DEF Select
<1>5. CASE c.check # "good" /\ a.check # "good"
  <2>1. /\ m = b.amount /\ c.check = "bad" /\ a.check = "bad" /\ b.check = "good"
        /\ fallbackProviderB # NONE
    BY <1>5 DEF Select
  <2>2. c2.check = "bad" /\ a2.check = "bad" /\ b2.check = "good" /\ b2.amount = whole
    BY <1>1, <1>2, <2>1
  <2> QED
    BY <2>1, <2>2 DEF Select
<1>6. CASE c.check # "good" /\ a.check = "good" /\ b.check = "good" /\ fallbackProviderB # NONE
  <2>1. m = a.amount /\ c.check = "bad" /\ IsDeviationOK(a.amount, b.amount)
    BY <1>6 DEF Select
  <2>2. /\ c2.check = "bad" /\ a2.check = "good" /\ a2.amount = whole
        /\ a.amount \in Nat \ {0} /\ b.amount \in Nat \ {0}
        /\ b2.amount = Tokens(b.amount) /\ b2.check \in {"bad", "good"}
    BY <1>1, <1>2, <1>6, <2>1
  <2>3. CASE b2.check = "bad" \/ IsDeviationOK(whole, b2.amount)
    BY <2>2, <2>3 DEF Select
  <2>4. CASE b2.check = "good" /\ ~IsDeviationOK(whole, b2.amount)
    <3>1. ~Select(c2, a2, b2).ok
      BY <1>6, <2>2, <2>4 DEF Select
    <3>2. b2.amount = (a.amount * whole) \div b.amount
      BY <2>1, <2>2 DEF Tokens
    <3>3. ~(b.amount <= a.amount)
      BY <2>1, <2>2, <2>4, <3>2, BuysNearer
    <3>4. OneUnitPastDeviation(a.amount, b.amount, whole)
      BY <2>2, <2>4, <3>2, <3>3, BuysOneUnitOff
    <3> QED
      BY <1>6, <3>1, <3>4
  <2> QED
    BY <2>2, <2>3, <2>4
<1> QED
  BY <1>3, <1>4, <1>5, <1>6

LEMMA ReadsTellOneStory == TypeInv => ReadsAgree
<1> SUFFICES ASSUME TypeInv, NEW x \in Token
    PROVE  LET price == OraclePrice(x)
               bought == OracleUsdToToken(x, price.amount)
               whole == [ok |-> TRUE, amount |-> Unit(x)]
           IN /\ OracleTokenToUsd(x, Unit(x)) = price
              /\ price.ok =>
                   /\ OracleQuote(x, x, Unit(x)) = whole
                   /\ \/ bought = whole
                      \/ /\ ~bought.ok /\ ~IsGood(CHAINLINK, x)
                         /\ IsGood(fallbackProviderA, x) /\ IsGood(fallbackProviderB, x)
                         /\ OneUnitPastDeviation(Priced(fallbackProviderA, x).amount,
                                                 Priced(fallbackProviderB, x).amount, Unit(x))
  BY DEF ReadsAgree
<1> DEFINE c == Priced(CHAINLINK, x)
           a == Priced(fallbackProviderA, x)
           b == Priced(fallbackProviderB, x)
           m == OraclePrice(x).amount
           whole == [ok |-> TRUE, amount |-> Unit(x)]
<1>1. /\ {CHAINLINK, fallbackProviderA, fallbackProviderB} \subseteq Provider \cup {NONE}
      /\ maxDeviation \in Nat /\ Unit(x) \in Nat \ {0}
  BY ConstructorAssumption, PricesAssumption DEF TypeInv, TypeOK
<1>2. \A p \in Provider \cup {NONE} : GetPriceInUsd(p, x) \in PriceReply
  BY ReplyType
<1>3. OraclePrice(x) = Select(c, a, b)
  BY DEF OraclePrice, SelectFrom
<1>4. OracleTokenToUsd(x, Unit(x)) = OraclePrice(x)
  <2>1. OracleTokenToUsd(x, Unit(x))
          = Select(Sold(CHAINLINK, x, Unit(x)), Sold(fallbackProviderA, x, Unit(x)),
                   Sold(fallbackProviderB, x, Unit(x)))
    BY DEF OracleTokenToUsd, SelectFrom, Sold
  <2> QED
    BY <1>1, <1>2, <1>3, <2>1, SoldWhole
<1>5. {c.check, a.check, b.check} \subseteq {"good", "bad", "reverts"}
  BY CheckOutcomes
<1>6. ASSUME OraclePrice(x).ok PROVE OracleQuote(x, x, Unit(x)) = whole
  <2>1. OracleQuote(x, x, Unit(x))
          = Select(Quoted(CHAINLINK, x, x, Unit(x)), Quoted(fallbackProviderA, x, x, Unit(x)),
                   Quoted(fallbackProviderB, x, x, Unit(x)))
    BY DEF OracleQuote, SelectFrom, Quoted
  <2>2. \A p \in {CHAINLINK, fallbackProviderA, fallbackProviderB} :
          /\ Quoted(p, x, x, Unit(x)).check = Priced(p, x).check
          /\ Priced(p, x).check = "good" => Quoted(p, x, x, Unit(x)).amount = Unit(x)
    BY <1>1, <1>2, QuotedWhole
  <2>3. IsDeviationOK(Unit(x), Unit(x))
    BY <1>1, EqualAmountsPass
  <2>4. Select(c, a, b).ok
    BY <1>3, <1>6
  <2> HIDE DEF c, a, b
  <2>5. Select(Quoted(CHAINLINK, x, x, Unit(x)), Quoted(fallbackProviderA, x, x, Unit(x)),
               Quoted(fallbackProviderB, x, x, Unit(x))) = [ok |-> TRUE, amount |-> Unit(x)]
    <3>1. /\ Quoted(CHAINLINK, x, x, Unit(x)).check = c.check
          /\ Quoted(fallbackProviderA, x, x, Unit(x)).check = a.check
          /\ Quoted(fallbackProviderB, x, x, Unit(x)).check = b.check
          /\ c.check = "good" => Quoted(CHAINLINK, x, x, Unit(x)).amount = Unit(x)
          /\ a.check = "good" => Quoted(fallbackProviderA, x, x, Unit(x)).amount = Unit(x)
          /\ b.check = "good" => Quoted(fallbackProviderB, x, x, Unit(x)).amount = Unit(x)
      BY <2>2 DEF c, a, b
    <3> QED
      BY <1>5, <2>3, <2>4, <3>1, SelectedAlike
  <2> QED
    BY <2>1, <2>5
<1>7. ASSUME OraclePrice(x).ok
      PROVE  \/ OracleUsdToToken(x, m) = whole
             \/ /\ ~OracleUsdToToken(x, m).ok
                /\ c.check # "good" /\ a.check = "good" /\ b.check = "good"
                /\ OneUnitPastDeviation(a.amount, b.amount, Unit(x))
  <2> DEFINE c2 == Bought(CHAINLINK, x, m)
             a2 == Bought(fallbackProviderA, x, m)
             b2 == Bought(fallbackProviderB, x, m)
  <2>1. OracleUsdToToken(x, m) = Select(c2, a2, b2)
    BY DEF OracleUsdToToken, SelectFrom, Bought
  <2>2. Select(c, a, b).ok /\ m = Select(c, a, b).amount
    BY <1>3, <1>7
  <2>3. m \in Nat
    <3>1. \A p \in {CHAINLINK, fallbackProviderA, fallbackProviderB} : Priced(p, x).amount \in Nat
      BY <1>1, <1>2, PricedByReply DEF PriceReply
    <3>2. c.amount \in Nat /\ a.amount \in Nat /\ b.amount \in Nat
      BY <3>1
    <3> HIDE DEF c, a, b, m
    <3> QED
      BY <2>2, <3>2 DEF Select
  <2>4. \A p \in {CHAINLINK, fallbackProviderA, fallbackProviderB} :
          BuysFor(m, Unit(x), Priced(p, x), Bought(p, x, m))
    <3> HIDE DEF m
    <3> QED
      BY <1>1, <1>2, <2>3, BoughtByReply DEF BuysFor
  <2> HIDE DEF m
  <2>5. BuysFor(m, Unit(x), c, c2) /\ BuysFor(m, Unit(x), a, a2) /\ BuysFor(m, Unit(x), b, b2)
    BY <2>4
  <2> HIDE DEF c, a, b, c2, a2, b2
  <2>6. /\ BuysFor(Select(c, a, b).amount, Unit(x), c, c2)
        /\ BuysFor(Select(c, a, b).amount, Unit(x), a, a2)
        /\ BuysFor(Select(c, a, b).amount, Unit(x), b, b2)
    BY <2>2, <2>5
  <2>7. \/ Select(c2, a2, b2) = [ok |-> TRUE, amount |-> Unit(x)]
        \/ /\ ~Select(c2, a2, b2).ok
           /\ c.check # "good" /\ a.check = "good" /\ b.check = "good"
           /\ OneUnitPastDeviation(a.amount, b.amount, Unit(x))
    BY <1>1, <1>5, <2>2, <2>6, BoughtWhole
  <2> QED
    BY <2>1, <2>7
<1> QED
  BY <1>4, <1>6, <1>7 DEF IsGood

\* The four reads tell one story, for every table of answers, unit and deviation: what
\* is answered as a price is what a whole token sells for, and buys a whole token back
\* but for the rounding of a base unit.
THEOREM ReadsTellTheSame == Spec => []ReadsAgree
<1>1. Spec => []TypeInv
  BY InitInv, StepInv, PTL DEF Spec
<1> QED
  BY <1>1, ReadsTellOneStory, PTL
=============================================================================
