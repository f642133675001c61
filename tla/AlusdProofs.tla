----------------------------- MODULE AlusdProofs -----------------------------
(***************************************************************************)
(* Proofs about the alUSD oracle over the TWAP provider and the stable      *)
(* coins, for every set of pairs, coins and periods, every width and every  *)
(* horizon before the pairs' clock wraps.                                   *)
(***************************************************************************)
EXTENDS AlusdTokenMainnetOracle, IntegerTheorems

-----------------------------------------------------------------------------
\* What the assumptions say of the numbers.
LEMMA Numbers ==
  /\ Q \in Nat \ {0} /\ TsMod \in Nat \ {0} /\ CumMod \in Nat \ {0} /\ AvgMod \in Nat \ {0}
  /\ Periods \subseteq Nat
  /\ StartTime \in Nat \ {0} /\ MaxTime \in Nat /\ StartTime <= MaxTime /\ MaxTime < TsMod
  BY TwapAssumption, BeforeTheWrap
  DEF Twap!WidthAssumption, Twap!PeriodsAssumption, Twap!HorizonAssumption

LEMMA PairsAreTokens ==
  /\ Pairs \subseteq Token \X Token /\ Traded \subseteq Pairs /\ Others \subseteq Pairs
  /\ Twap!NoPair \notin Pairs
  BY TwapAssumption DEF Twap!PairsAssumption, Twap!NoPair

LEMMA PairForType ==
  ASSUME NEW a, NEW b
  PROVE  Twap!PairFor(a, b) \in Pairs \cup {Twap!NoPair}
  BY DEF Twap!PairFor

-----------------------------------------------------------------------------
\* The types of the TWAP provider's state.

LEMMA SpotType ==
  ASSUME NEW r \in Reserves \cup {Twap!Empty}
  PROVE  Twap!Spot(r) \in [Twap!Side -> Nat]
<1>1. CASE r = Twap!Empty
  BY <1>1 DEF Twap!Spot, Twap!Side
<1>2. CASE r \in Reserves
  <2>1. r[1] \in Nat \ {0} /\ r[2] \in Nat \ {0} /\ r # Twap!Empty
    BY <1>2, TwapAssumption DEF Twap!ReservesAssumption, Twap!Empty
  <2>2. \A x, q \in Nat, y \in Nat \ {0} : (x * q) \div y \in Nat
    <3>1. \A x, q \in Nat : x * q \in Nat
      BY SMT
    <3>2. \A z \in Nat, y \in Nat \ {0} : z \div y \in Nat
      BY SMT
    <3> QED
      BY <3>1, <3>2
  <2>3. (r[2] * Q) \div r[1] \in Nat /\ (r[1] * Q) \div r[2] \in Nat
    BY <2>1, <2>2, Numbers
  <2> QED
    BY <2>1, <2>3 DEF Twap!Spot, Twap!Side
<1> QED
  BY <1>1, <1>2

LEMMA NowType ==
  ASSUME now \in StartTime..MaxTime
  PROVE  now \in Nat \ {0} /\ now < TsMod /\ now % TsMod = now
<1>1. now \in Nat \ {0} /\ now < TsMod
  BY Numbers
<1> QED
  BY <1>1, ModSmall, Numbers

LEMMA ElapsedType ==
  ASSUME now \in StartTime..MaxTime, NEW t \in Nat
  PROVE  Twap!Elapsed(t) \in 0..(TsMod - 1)
  BY NowType, Numbers, DivMod DEF Twap!Elapsed

\* Before the wrap, the elapsed time is the difference of the times.
LEMMA ElapsedExact ==
  ASSUME now \in StartTime..MaxTime, NEW t \in 0..now
  PROVE  Twap!Elapsed(t) = now - t
<1>1. now - t \in 0..(TsMod - 1)
  BY NowType, Numbers
<1> QED
  BY <1>1, ModSmall, Numbers DEF Twap!Elapsed

LEMMA CurrentType ==
  ASSUME Twap!TypeOK, NEW p \in Pairs
  PROVE  Twap!CurrentCumulative(p) \in [Twap!Side -> 0..(CumMod - 1)]
<1> SUFFICES ASSUME NEW s \in Twap!Side
             PROVE  Twap!CurrentCumulative(p)[s] \in 0..(CumMod - 1)
  BY DEF Twap!CurrentCumulative
<1>1. /\ pair[p].cumulativeLast[s] \in Nat
      /\ Twap!Spot(pair[p].reserves)[s] \in Nat
      /\ Twap!Elapsed(pair[p].blockTimestampLast) \in Nat
  <2>1. /\ pair[p].cumulativeLast[s] \in 0..(CumMod - 1)
        /\ pair[p].reserves \in Reserves \cup {Twap!Empty}
        /\ pair[p].blockTimestampLast \in 0..(TsMod - 1)
    BY DEF Twap!TypeOK, Twap!PairState
  <2> QED
    BY <2>1, SpotType, ElapsedType, Numbers DEF Twap!TypeOK
<1>2. \A x, y, z \in Nat : x + y * z \in Int
  BY SMT
<1>3. pair[p].cumulativeLast[s] + Twap!Spot(pair[p].reserves)[s]
        * Twap!Elapsed(pair[p].blockTimestampLast) \in Int
  BY <1>1, <1>2
<1> QED
  BY <1>3, DivMod, Numbers DEF Twap!CurrentCumulative

LEMMA UpdatedType ==
  ASSUME Twap!TypeOK, NEW p \in Pairs, NEW o \in Twap!OracleState,
         Twap!Elapsed(o.blockTimestampLast) > 0
  PROVE  Twap!Updated(p, o) \in Twap!OracleState
<1> DEFINE e == Twap!Elapsed(o.blockTimestampLast)
           gain(s) == (Twap!CurrentCumulative(p)[s] - o.cumulativeLast[s]) % CumMod
<1>1. e \in Nat \ {0}
  BY ElapsedType, Numbers DEF Twap!OracleState, Twap!TypeOK
<1>2. ASSUME NEW s \in Twap!Side PROVE (gain(s) \div e) % AvgMod \in 0..(AvgMod - 1)
  <2>1. Twap!CurrentCumulative(p)[s] - o.cumulativeLast[s] \in Int
    BY CurrentType, Numbers DEF Twap!OracleState
  <2>2. gain(s) \in Int
    BY <2>1, DivMod, Numbers
  <2> HIDE DEF gain, e
  <2> QED
    BY <1>1, <2>2, DivMod, Numbers
<1>3. [s \in Twap!Side |-> Twap!Mean(p, o)[s] % AvgMod] \in [Twap!Side -> 0..(AvgMod - 1)]
  BY <1>2 DEF Twap!Mean
<1>4. now % TsMod \in 0..(TsMod - 1)
  BY NowType, Numbers DEF Twap!TypeOK
<1> QED
  BY <1>3, <1>4, CurrentType DEF Twap!Updated, Twap!OracleState

LEMMA RefreshedType ==
  ASSUME Twap!TypeOK, NEW p \in Pairs, NEW k \in Periods, Twap!UpdateSucceeds(p, k)
  PROVE  Twap!Refreshed(p, k) \in Twap!OracleState
<1> DEFINE o == Twap!Current(p, k)
           e == Twap!Elapsed(o.blockTimestampLast)
<1>1. o \in Twap!OracleState
  <2>1. Twap!Zero \in [Twap!Side -> 0..(AvgMod - 1)]
    BY Numbers DEF Twap!Zero
  <2>2. Twap!NewOracle(p) \in Twap!OracleState
    BY <2>1 DEF Twap!NewOracle, Twap!OracleState, Twap!PairState, Twap!TypeOK
  <2> QED
    BY <2>2 DEF Twap!Current, Twap!TypeOK
<1>2. e \in Nat /\ k \in Nat
  BY <1>1, ElapsedType, Numbers DEF Twap!OracleState, Twap!TypeOK
<1>3. CASE e < k
  BY <1>1, <1>3, Zenon DEF Twap!Refreshed
<1>4. CASE ~(e < k)
  <2>1. e > 0
    BY <1>2, <1>4 DEF Twap!UpdateSucceeds
  <2>2. Twap!Refreshed(p, k) = Twap!Updated(p, o)
    BY <1>4, Zenon DEF Twap!Refreshed
  <2> QED
    BY <1>1, <2>1, <2>2, UpdatedType
<1> QED
  BY <1>3, <1>4
-----------------------------------------------------------------------------
\* Type correctness.

LEMMA TwapInitType == Init => Twap!TypeOK
<1> SUFFICES ASSUME Init PROVE Twap!TypeOK
  OBVIOUS
<1>1. ASSUME NEW r \in Reserves PROVE Twap!TradingPair(r) \in Twap!PairState
  <2>1. StartTime % TsMod \in 0..(TsMod - 1)
    BY Numbers, DivMod
  <2>2. CumStart \in 0..(CumMod - 1)
    BY TwapAssumption DEF Twap!SpotAssumption
  <2> QED
    BY <2>1, <2>2 DEF Twap!TradingPair, Twap!PairState
<1>2. Twap!NoOracle \in Twap!OracleState
  <2>1. 0 \in 0..(CumMod - 1) /\ 0 \in 0..(AvgMod - 1) /\ 0 \in 0..(TsMod - 1)
    BY Numbers
  <2> QED
    BY <2>1 DEF Twap!NoOracle, Twap!OracleState, Twap!Zero
<1>3. now \in StartTime..MaxTime /\ defaultTwapPeriod \in Periods
  BY Numbers DEF Init
<1>4. pair \in [Pairs -> Twap!PairState]
  BY <1>1 DEF Init
<1>5. oracles \in [Pairs -> [Periods -> Twap!OracleState]]
  BY <1>2 DEF Init
<1> QED
  BY <1>3, <1>4, <1>5 DEF Twap!TypeOK

LEMMA UpdatePairsType ==
  ASSUME Twap!TypeOK, NEW ps, UpdatePairs(ps)
  PROVE  oracles' \in [Pairs -> [Periods -> Twap!OracleState]]
<1>1. ASSUME NEW p \in Pairs
      PROVE  (IF p \in ps
              THEN [oracles[p] EXCEPT ![defaultTwapPeriod] = Twap!Refreshed(p, defaultTwapPeriod)]
              ELSE oracles[p]) \in [Periods -> Twap!OracleState]
  <2>1. oracles[p] \in [Periods -> Twap!OracleState] /\ defaultTwapPeriod \in Periods
    BY DEF Twap!TypeOK
  <2>2. p \in ps => Twap!Refreshed(p, defaultTwapPeriod) \in Twap!OracleState
    BY <2>1, RefreshedType DEF UpdatePairs
  <2> QED
    BY <2>1, <2>2
<1> QED
  BY <1>1 DEF UpdatePairs

LEMMA TwapNextType == Twap!TypeOK /\ [Next]_vars => Twap!TypeOK'
<1> SUFFICES ASSUME Twap!TypeOK, [Next]_vars PROVE Twap!TypeOK'
  OBVIOUS
<1>1. CASE Tick
  BY <1>1, Numbers DEF Tick, Twap!Tick, Twap!TypeOK
<1>2. CASE Trade
  <2>1. PICK p \in Traded : Twap!Trade(p, pair[p].reserves)
    BY <1>2 DEF Trade
  <2>2. p \in Pairs /\ now % TsMod \in 0..(TsMod - 1)
    BY PairsAreTokens, NowType, Numbers DEF Twap!TypeOK
  <2>3. [reserves |-> pair[p].reserves, cumulativeLast |-> Twap!CurrentCumulative(p),
         blockTimestampLast |-> now % TsMod] \in Twap!PairState
    BY <2>2, CurrentType DEF Twap!PairState, Twap!TypeOK
  <2> QED
    BY <2>1, <2>2, <2>3 DEF Twap!Trade, Twap!TypeOK
<1>3. CASE UpdateOnePair
  <2>1. PICK p \in Pairs : \E k \in Periods : Twap!UpdateOrAdd(p, k)
    BY <1>3, PairsAreTokens DEF UpdateOnePair
  <2>2. PICK k \in Periods : Twap!UpdateOrAdd(p, k)
    BY <2>1
  <2>3. Twap!Refreshed(p, k) \in Twap!OracleState
    BY <2>2, RefreshedType DEF Twap!UpdateOrAdd
  <2> QED
    BY <2>2, <2>3 DEF Twap!UpdateOrAdd, Twap!TypeOK
<1>4. CASE Update
  <2>1. PICK ps : UpdatePairs(ps) /\ UNCHANGED <<now, pair, defaultTwapPeriod>>
    BY <1>4 DEF Update
  <2> QED
    BY <2>1, UpdatePairsType DEF Twap!TypeOK
<1>5. CASE UpdateDefaultTwapPeriod
  BY <1>5 DEF UpdateDefaultTwapPeriod, Twap!UpdateDefaultTwapPeriod, Twap!TypeOK
<1>6. CASE UNCHANGED <<now, twapVars>>
  BY <1>6 DEF twapVars, Twap!TypeOK
<1> QED
  BY <1>1, <1>2, <1>3, <1>4, <1>5, <1>6 DEF Next, Report, UpdateStableCoins, vars

\* The decimals of a coin, in the powers that the conversions use.
LEMMA CoinNumbers ==
  /\ UsdDecimals \in Nat /\ 10 ^ UsdDecimals \in Nat \ {0}
  /\ \A x \in Token : Decimals(x) \in Nat /\ 10 ^ Decimals(x) \in Nat \ {0}
  /\ CoinPrices \subseteq Nat
  /\ MaxDeviation \in Nat /\ CoinStalePeriod \in Nat /\ StalePeriod \in Nat
  /\ {Primary, Secondary} \cup StableCoins \cup Moving \subseteq Token
  /\ Primary # Secondary
  BY CoinsAssumption, PowersAssumption DEF Coins!CoinConstants

LEMMA CoinsInitType == Init => Coins!TypeOK
<1> SUFFICES ASSUME Init PROVE Coins!TypeOK
  OBVIOUS
<1>1. Coins!Answer(10 ^ UsdDecimals, StartTime) \in [ok : BOOLEAN, amount : Nat, at : 0..now]
  BY CoinNumbers, Numbers DEF Init, Coins!Answer
<1>2. coinPrice \in [Token -> [ok : BOOLEAN, amount : Nat, at : 0..now]]
  BY <1>1 DEF Init
<1>3. Coins!StaleTypeOK
  BY CoinNumbers DEF Coins!StaleTypeOK
<1> QED
  BY <1>2, <1>3, CoinNumbers DEF Init, Coins!TypeOK

LEMMA CoinsNextType == TypeOK /\ [Next]_vars => Coins!TypeOK'
<1> SUFFICES ASSUME TypeOK, [Next]_vars PROVE Coins!TypeOK'
  OBVIOUS
<1>0. Coins!TypeOK /\ now \in Nat /\ Coins!StaleTypeOK'
  BY Numbers, CoinNumbers DEF TypeOK, Twap!TypeOK, Coins!TypeOK, Coins!StaleTypeOK
<1>1. CASE Tick
  <2>1. now' = now + 1 /\ coinPrice' = coinPrice /\ UNCHANGED coinVars
    BY <1>1 DEF Tick, Twap!Tick
  <2>2. [ok : BOOLEAN, amount : Nat, at : 0..now] \subseteq [ok : BOOLEAN, amount : Nat, at : 0..now']
    BY <1>0, <2>1
  <2> QED
    BY <1>0, <2>1, <2>2 DEF Coins!TypeOK, coinVars
<1>2. CASE Report
  <2>1. Coins!CoinReplies \subseteq [ok : BOOLEAN, amount : Nat, at : 0..now]
    <3>1. Coins!Reverted \in [ok : BOOLEAN, amount : Nat, at : 0..now]
      BY <1>0 DEF Coins!Reverted
    <3>2. \A price \in CoinPrices :
            Coins!Answer(price, now) \in [ok : BOOLEAN, amount : Nat, at : 0..now]
      BY <1>0, CoinNumbers DEF Coins!Answer
    <3> QED
      BY <3>1, <3>2 DEF Coins!CoinReplies
  <2> QED
    BY <1>0, <1>2, <2>1 DEF Report, Coins!TypeOK, coinVars
<1>3. CASE UpdateStableCoins
  <2>1. PICK primary \in StableCoins :
          \E secondary \in StableCoins : Coins!UpdateStableCoins(primary, secondary)
    BY <1>3 DEF UpdateStableCoins
  <2>2. PICK secondary \in StableCoins : Coins!UpdateStableCoins(primary, secondary)
    BY <2>1
  <2> QED
    BY <1>0, <1>3, <2>2, CoinNumbers DEF UpdateStableCoins, Coins!UpdateStableCoins, Coins!TypeOK
<1>4. CASE UNCHANGED <<now, coinPrice, coinVars>>
  BY <1>0, <1>4 DEF Coins!TypeOK, coinVars
<1>5. CASE Trade
  BY <1>4, <1>5 DEF Trade, Twap!Trade
<1>6. CASE UpdateOnePair
  BY <1>4, <1>6 DEF UpdateOnePair, Twap!UpdateOrAdd
<1>7. CASE Update
  BY <1>4, <1>7 DEF Update
<1>8. CASE UpdateDefaultTwapPeriod
  BY <1>4, <1>8 DEF UpdateDefaultTwapPeriod, Twap!UpdateDefaultTwapPeriod
<1> QED
  BY <1>1, <1>2, <1>3, <1>4, <1>5, <1>6, <1>7, <1>8 DEF Next, vars

\* The provider, the coins and their cached decimals always have their types:
\* a governor who exchanges the coins never makes them one.
THEOREM TypeCorrect == Spec => []TypeOK
<1>1. Init => TypeOK
  BY TwapInitType, CoinsInitType DEF TypeOK
<1>2. TypeOK /\ [Next]_vars => TypeOK'
  BY TwapNextType, CoinsNextType DEF TypeOK
<1> QED
  BY <1>1, <1>2, PTL DEF Spec
-----------------------------------------------------------------------------
\* Prices in the primary coin.

\* The cached decimals are those of the coins of now.
DecimalsCached == primaryDecimals = Decimals(primaryStableCoin)

LEMMA CachedInit == Init => DecimalsCached
  BY DEF Init, DecimalsCached

LEMMA CachedStep == DecimalsCached /\ [Next]_vars => DecimalsCached'
<1> SUFFICES ASSUME DecimalsCached, [Next]_vars PROVE DecimalsCached'
  OBVIOUS
<1>1. CASE UpdateStableCoins
  BY <1>1 DEF UpdateStableCoins, Coins!UpdateStableCoins, DecimalsCached
<1>2. CASE UNCHANGED coinVars
  BY <1>2 DEF coinVars, DecimalsCached
<1> QED
  BY <1>1, <1>2 DEF Next, Tick, Report, Trade, UpdateOnePair, Update,
                    UpdateDefaultTwapPeriod, vars

LEMMA AmountOutType ==
  ASSUME Twap!TypeOK, NEW a, NEW b, NEW k \in Periods, NEW amountIn \in Nat
  PROVE  Twap!GetAmountOut(a, b, k, amountIn).amount \in Nat
<1> DEFINE p == Twap!PairFor(a, b)
           o == IF p = Twap!NoPair THEN Twap!NoOracle ELSE oracles[p][k]
           s == IF p # Twap!NoPair /\ a = p[1] THEN 0 ELSE 1
<1>1. o.average[s] \in Nat
  <2>1. CASE p = Twap!NoPair
    BY <2>1 DEF Twap!NoOracle, Twap!Zero, Twap!Side
  <2>2. CASE p # Twap!NoPair
    <3>1. oracles[p][k].average \in [Twap!Side -> 0..(AvgMod - 1)]
      BY <2>2, PairForType DEF Twap!TypeOK, Twap!OracleState
    <3> QED
      BY <2>2, <3>1, Numbers DEF Twap!Side
  <2> QED
    BY <2>1, <2>2
<1>2. Twap!GetAmountOut(a, b, k, amountIn).amount = (o.average[s] * amountIn) \div Q
  BY DEF Twap!GetAmountOut
<1> HIDE DEF o, s
<1>3. o.average[s] * amountIn \in Nat
  BY <1>1
<1>4. \A x \in Nat, y \in Nat \ {0} : x \div y \in Nat
  BY SMT
<1> QED
  BY <1>2, <1>3, <1>4, Numbers

LEMMA QuoteType ==
  ASSUME Twap!TypeOK, NEW a, NEW b, NEW k \in Periods, NEW amountIn \in Nat
  PROVE  Twap!Quote(a, b, k, amountIn).amount \in Nat
<1> DEFINE leg1 == Twap!GetAmountOut(a, WETH, k, amountIn)
<1>1. leg1.amount \in Nat
  BY AmountOutType
<1>2. Twap!GetAmountOut(WETH, b, k, leg1.amount).amount \in Nat
  BY <1>1, AmountOutType
<1>3. Twap!GetAmountOut(a, b, k, amountIn).amount \in Nat
  BY AmountOutType
<1> QED
  BY <1>2, <1>3 DEF Twap!Quote

LEMMA PegType ==
  ASSUME NEW coin \in Coins!GetStableCoinIfPegged
  PROVE  /\ coin \in {primaryStableCoin, secondaryStableCoin}
         /\ Coins!GetStableCoinIfPegged = {coin}
  BY DEF Coins!GetStableCoinIfPegged

\* What a served price is computed from.
LEMMA ServedPrice ==
  ASSUME TypeOK, GetPriceInUsd.ok
  PROVE  \E coin \in Coins!GetStableCoinIfPegged :
           LET quote == Twap!Quote(ALUSD, coin, defaultTwapPeriod, 10 ^ Decimals(ALUSD))
               price == Coins!ToUsdRepresentation(quote.amount)
           IN /\ DollarPrice(ALUSD) = Coins!Answer(price, quote.inAt)
              /\ GetPriceInUsd = QuoteTokenToUsd(ALUSD, 10 ^ Decimals(ALUSD))
<1>1. /\ GetPriceInUsd = QuoteTokenToUsd(ALUSD, 10 ^ Decimals(ALUSD))
      /\ QuoteTokenToUsd(ALUSD, 10 ^ Decimals(ALUSD)).ok
  BY DEF GetPriceInUsd, Coins!Reverted
<1>2. DollarPrice(ALUSD) # Coins!Reverted
  BY <1>1 DEF QuoteTokenToUsd, Coins!QuoteTokenToUsd, Coins!Reverted
<1>3. PICK coin : coin \in Coins!GetStableCoinIfPegged
  BY <1>2 DEF DollarPrice
<1>4. (CHOOSE c \in Coins!GetStableCoinIfPegged : TRUE) = coin
  BY <1>3, PegType
<1> QED
  BY <1>1, <1>3, <1>4 DEF DollarPrice

LEMMA PricedStep == TypeOK /\ DecimalsCached => PricedInThePrimaryCoin
<1> SUFFICES ASSUME TypeOK, DecimalsCached, NEW coin \in Coins!GetStableCoinIfPegged,
                    coin = primaryStableCoin, GetPriceInUsd.ok
             PROVE  GetPriceInUsd.amount =
                      Coins!ScaleDecimal(Twap!Quote(ALUSD, coin, defaultTwapPeriod,
                                                    10 ^ Decimals(ALUSD)).amount,
                                         Decimals(coin), UsdDecimals)
  BY DEF PricedInThePrimaryCoin
<1> DEFINE one == 10 ^ Decimals(ALUSD)
           quoted == Twap!Quote(ALUSD, coin, defaultTwapPeriod, one).amount
           scaled == Coins!ScaleDecimal(quoted, Decimals(coin), UsdDecimals)
<1>1. one \in Nat \ {0}
  BY CoinNumbers, CoinsAssumption
<1>2. quoted \in Nat
  BY <1>1, QuoteType DEF TypeOK, Twap!TypeOK
<1>3. scaled \in Nat
  <2>1. coin \in Token
    BY DEF TypeOK, Coins!TypeOK
  <2>2. /\ Decimals(coin) > UsdDecimals => 10 ^ (Decimals(coin) - UsdDecimals) \in Nat \ {0}
        /\ ~(Decimals(coin) > UsdDecimals) => 10 ^ (UsdDecimals - Decimals(coin)) \in Nat \ {0}
    BY <2>1, CoinNumbers, PowersAssumption
  <2>3. \A x \in Nat, y \in Nat \ {0} : x \div y \in Nat /\ x * y \in Nat
    BY SMT
  <2> HIDE DEF quoted
  <2> QED
    BY <1>2, <2>2, <2>3 DEF Coins!ScaleDecimal
<1>4. /\ DollarPrice(ALUSD).ok /\ DollarPrice(ALUSD).amount = scaled
      /\ GetPriceInUsd = QuoteTokenToUsd(ALUSD, one)
  BY ServedPrice, PegType DEF Coins!Answer, Coins!ToUsdRepresentation, DecimalsCached
<1>5. GetPriceInUsd.amount = (one * scaled) \div one
  BY <1>4 DEF QuoteTokenToUsd, Coins!QuoteTokenToUsd, Coins!Answer
<1> HIDE DEF one, scaled
<1>6. \A x \in Nat, y \in Nat \ {0} : (y * x) \div y = x
  BY SMT
<1> QED
  BY <1>1, <1>3, <1>5, <1>6 DEF one, scaled

\* However the coins were exchanged, a price quoted in the primary coin is
\* converted with that coin's own decimals.
THEOREM PrimaryPricesUseTheirDecimals == Spec => []PricedInThePrimaryCoin
  BY CachedInit, CachedStep, PricedStep, TypeCorrect, PTL DEF Spec
-----------------------------------------------------------------------------
\* The legs of a price that only update() refreshed.

\* The pairs' own times are seconds of the model: none reads as a missing oracle.
PairsDated == \A p \in Pairs : pair[p].blockTimestampLast \in 1..now

Time(p, k) == oracles[p][k].blockTimestampLast

\* Two times less than a period apart, whatever the period.
Near(at1, at2, k) ==
  /\ at1 > at2 => at1 - at2 < k
  /\ at2 > at1 => at2 - at1 < k

\* The two oracles of a period were never started, or are near.
Together(coin, k) ==
  LET at1 == Time(AlusdPair, k)
      at2 == Time(CoinPair(coin), k)
  IN /\ \/ at1 = 0 /\ at2 = 0
        \/ at1 \in 1..now /\ at2 \in 1..now
     /\ Near(at1, at2, k)

\* As long as nobody refreshed a pair alone: without any update() there are no
\* oracles, and after updates for one coin its two are together for every period,
\* also those that are not the default at the moment.
LegsInv ==
  ~alone =>
    /\ updatedFor = {} => \A p \in Pairs, k \in Periods : Time(p, k) = 0
    /\ \A coin : updatedFor = {coin} =>
         /\ {AlusdPair, CoinPair(coin)} \subseteq Pairs
         /\ \A k \in Periods : Together(coin, k)

LEMMA LegsInit == Init => PairsDated /\ LegsInv
<1> SUFFICES ASSUME Init PROVE PairsDated /\ LegsInv
  OBVIOUS
<1>1. PairsDated
  <2>1. StartTime % TsMod = StartTime
    BY Numbers, ModSmall
  <2> QED
    BY <2>1, Numbers DEF Init, PairsDated, Twap!TradingPair
<1>2. LegsInv
  BY DEF Init, LegsInv, Time, Twap!NoOracle
<1> QED
  BY <1>1, <1>2

LEMMA DatedStep == TypeOK /\ PairsDated /\ [Next]_vars => PairsDated'
<1> SUFFICES ASSUME TypeOK, PairsDated, [Next]_vars PROVE PairsDated'
  OBVIOUS
<1>0. now \in Nat \ {0} /\ now % TsMod = now
  BY NowType DEF TypeOK, Twap!TypeOK
<1>1. CASE Tick
  BY <1>0, <1>1 DEF Tick, Twap!Tick, PairsDated
<1>2. CASE Trade
  <2>1. PICK p \in Traded : Twap!Trade(p, pair[p].reserves)
    BY <1>2 DEF Trade
  <2> QED
    BY <1>0, <2>1 DEF Twap!Trade, PairsDated, TypeOK, Twap!TypeOK
<1>3. CASE UNCHANGED <<now, pair>>
  BY <1>3 DEF PairsDated
<1> QED
  BY <1>1, <1>2, <1>3
  DEF Next, Report, UpdateOnePair, Update, UpdateDefaultTwapPeriod, UpdateStableCoins, vars,
      twapVars, Twap!UpdateOrAdd, Twap!UpdateDefaultTwapPeriod

\* The time an update leaves: less than a period ago, or now.
LEMMA RefreshedTime ==
  ASSUME TypeOK, PairsDated, NEW p \in Pairs, NEW k \in Periods, Time(p, k) \in 0..now
  PROVE  /\ Twap!Refreshed(p, k).blockTimestampLast \in 1..now
         /\ \/ Twap!Refreshed(p, k).blockTimestampLast = now
            \/ now - Twap!Refreshed(p, k).blockTimestampLast < k
<1> DEFINE o == Twap!Current(p, k)
           t == o.blockTimestampLast
<1>1. now \in Nat \ {0} /\ now % TsMod = now /\ now \in StartTime..MaxTime
  BY NowType DEF TypeOK, Twap!TypeOK
<1>2. t \in 1..now
  BY <1>1 DEF Twap!Current, Twap!HasOracle, Twap!NewOracle, PairsDated, Time, Twap!NoPair
<1>3. Twap!Elapsed(t) = now - t
  BY <1>1, <1>2, ElapsedExact
<1>4. CASE Twap!Elapsed(t) < k
  BY <1>2, <1>3, <1>4 DEF Twap!Refreshed
<1>5. CASE ~(Twap!Elapsed(t) < k)
  BY <1>1, <1>5 DEF Twap!Refreshed, Twap!Updated
<1> QED
  BY <1>4, <1>5

LEMMA NearNow ==
  ASSUME NEW n \in Nat, NEW at1 \in 1..n, NEW at2 \in 1..n, NEW k \in Nat,
         at1 = n \/ n - at1 < k, at2 = n \/ n - at2 < k
  PROVE  Near(at1, at2, k)
  BY DEF Near

\* Which pairs these are does not change.
LEMMA PairsStay == AlusdPair' = AlusdPair /\ \A coin : CoinPair(coin)' = CoinPair(coin)
  BY DEF AlusdPair, CoinPair, Twap!PairFor, Twap!NoPair

LEMMA UpdateLegs ==
  ASSUME TypeOK, PairsDated, LegsInv, Update, ~alone, NEW coin, updatedFor' = {coin}
  PROVE  /\ {AlusdPair, CoinPair(coin)} \subseteq Pairs
         /\ \A k \in Periods : Together(coin, k)'
<1> DEFINE d == defaultTwapPeriod
<1>1. PICK c \in Coins!GetStableCoinIfPegged :
        /\ UpdatePairs({AlusdPair, CoinPair(c)})
        /\ updatedFor' = updatedFor \cup {c}
        /\ now' = now
  BY DEF Update
<1>2. c = coin /\ updatedFor \in {{}, {coin}}
  BY <1>1
<1>3. PICK P : P = AlusdPair
  OBVIOUS
<1>4. PICK C : C = CoinPair(coin)
  OBVIOUS
<1>5. P \in Pairs /\ C \in Pairs /\ UpdatePairs({P, C})
  BY <1>1, <1>2, <1>3, <1>4, PairForType DEF UpdatePairs, AlusdPair, CoinPair
<1>6. now \in Nat /\ d \in Periods /\ Periods \subseteq Nat
  BY NowType, Numbers DEF TypeOK, Twap!TypeOK
<1>7. ASSUME NEW k \in Periods
      PROVE  /\ \/ Time(P, k) = 0 /\ Time(C, k) = 0
                \/ Time(P, k) \in 1..now /\ Time(C, k) \in 1..now
             /\ Near(Time(P, k), Time(C, k), k)
  BY <1>2, <1>3, <1>4, <1>5 DEF LegsInv, Together, Near
<1>8. ASSUME NEW p \in {P, C}, NEW k \in Periods
      PROVE  /\ k = d => Time(p, k)' = Twap!Refreshed(p, d).blockTimestampLast
             /\ k # d => Time(p, k)' = Time(p, k)
  BY <1>5, <1>6 DEF UpdatePairs, Time, TypeOK, Twap!TypeOK
<1>9. ASSUME NEW k \in Periods
      PROVE  /\ \/ Time(P, k)' = 0 /\ Time(C, k)' = 0
                \/ Time(P, k)' \in 1..now /\ Time(C, k)' \in 1..now
             /\ Near(Time(P, k)', Time(C, k)', k)
  <2>1. CASE k # d
    BY <1>7, <1>8, <2>1
  <2>2. CASE k = d
    <3>1. Time(P, d) \in 0..now /\ Time(C, d) \in 0..now
      BY <1>6, <1>7
    <3> DEFINE t1 == Twap!Refreshed(P, d).blockTimestampLast
               t2 == Twap!Refreshed(C, d).blockTimestampLast
    <3>2. t1 \in 1..now /\ (t1 = now \/ now - t1 < d)
      BY <1>5, <1>6, <3>1, RefreshedTime
    <3>3. t2 \in 1..now /\ (t2 = now \/ now - t2 < d)
      BY <1>5, <1>6, <3>1, RefreshedTime
    <3>4. Time(P, k)' = t1 /\ Time(C, k)' = t2
      BY <1>6, <1>8, <2>2
    <3> HIDE DEF t1, t2
    <3>5. Near(t1, t2, d)
      BY <1>6, <3>2, <3>3, NearNow
    <3> QED
      BY <2>2, <3>2, <3>3, <3>4, <3>5
  <2> QED
    BY <2>1, <2>2
<1>10. ASSUME NEW k \in Periods PROVE Together(coin, k)'
  <2>1. Time(AlusdPair, k)' = Time(P, k)' /\ Time(CoinPair(coin), k)' = Time(C, k)'
    BY <1>3, <1>4, PairsStay DEF Time
  <2> QED
    BY <1>1, <1>9, <2>1 DEF Together, Near
<1> QED
  BY <1>3, <1>4, <1>5, <1>10

LEMMA LegsStep == TypeOK /\ PairsDated /\ LegsInv /\ [Next]_vars => LegsInv'
<1> SUFFICES ASSUME TypeOK, PairsDated, LegsInv, [Next]_vars PROVE LegsInv'
  OBVIOUS
<1>1. CASE Update
  <2>1. alone' = alone /\ updatedFor' # {}
    BY <1>1 DEF Update
  <2>2. \A coin : CoinPair(coin)' = CoinPair(coin) /\ AlusdPair' = AlusdPair
    BY PairsStay
  <2> QED
    BY <1>1, <2>1, <2>2, UpdateLegs DEF LegsInv
<1>2. CASE UpdateOnePair
  BY <1>2 DEF UpdateOnePair, LegsInv
<1>3. ASSUME now' \in {now, now + 1}, UNCHANGED <<oracles, history>> PROVE LegsInv'
  <2>1. now \in Nat
    BY NowType DEF TypeOK, Twap!TypeOK
  <2>2. 1..now \subseteq 1..now'
    BY <1>3, <2>1
  <2> QED
    BY <1>3, <2>2 DEF LegsInv, Together, Near, Time, history, AlusdPair, CoinPair,
                      Twap!PairFor, Twap!NoPair
<1>4. CASE Tick
  BY <1>3, <1>4 DEF Tick, Twap!Tick
<1> QED
  BY <1>1, <1>2, <1>3, <1>4
  DEF Next, Report, Trade, UpdateDefaultTwapPeriod, UpdateStableCoins, vars, twapVars,
      Twap!Trade, Twap!UpdateDefaultTwapPeriod

LEMMA LegsClose == TypeOK /\ LegsInv => UpdatedTogetherLegsStayClose
<1> SUFFICES ASSUME TypeOK, LegsInv, GetPriceInUsd.ok, ~alone,
                    Coins!GetStableCoinIfPegged = updatedFor,
                    NEW at1 \in Legs, NEW at2 \in Legs, at1 > at2
             PROVE  at1 - at2 < defaultTwapPeriod
  BY DEF UpdatedTogetherLegsStayClose
<1>1. PICK coin : coin \in Coins!GetStableCoinIfPegged
  BY ServedPrice
<1>2. updatedFor = {coin}
  BY <1>1, PegType
<1>3. Together(coin, defaultTwapPeriod)
  BY <1>2 DEF LegsInv, TypeOK, Twap!TypeOK
<1>4. Legs = {Time(AlusdPair, defaultTwapPeriod), Time(CoinPair(coin), defaultTwapPeriod)}
  BY <1>1, PegType DEF Legs, Leg, Time
<1>5. /\ Time(AlusdPair, defaultTwapPeriod) \in Int
      /\ Time(CoinPair(coin), defaultTwapPeriod) \in Int
  BY <1>3 DEF Together
<1> QED
  BY <1>3, <1>4, <1>5 DEF Together, Near

\* Two averages of a served price that only update() refreshed, and always for
\* the same coin, are less than a TWAP period apart, for every history of trades,
\* of Chainlink prices and of the governor's changes of the period and the coins.
THEOREM LegsStayClose == Spec => []UpdatedTogetherLegsStayClose
<1>1. Init => PairsDated /\ LegsInv
  BY LegsInit
<1>2. TypeOK /\ PairsDated /\ LegsInv /\ [Next]_vars => PairsDated' /\ LegsInv'
  BY DatedStep, LegsStep
<1> QED
  BY <1>1, <1>2, LegsClose, TypeCorrect, PTL DEF Spec
=============================================================================
