---------------------- MODULE AlusdTokenMainnetOracle ----------------------
(***************************************************************************)
(* src/contracts/periphery/tokens/AlusdTokenMainnetOracle.sol over the      *)
(* dollar prices of UniswapV2LikePriceProvider (getPriceInUsd), which quote *)
(* a token in the stable coin that StableCoinProvider holds for a dollar.   *)
(*                                                                          *)
(* A quote in the coin goes over two pairs, and which coin that is depends  *)
(* on the peg at the moment of the call, at an update as at a read.  Of    *)
(* the governor's settings the default TWAP period and the coins change.    *)
(***************************************************************************)
EXTENDS Integers

CONSTANTS
  Token, ALUSD, WETH,
  Pairs, Reserves, Q, TsMod, CumMod, AvgMod, CumStart,
  Periods,
  Decimals(_), UsdDecimals, CoinPrices, Whole, MaxDeviation, CoinStalePeriod,
  Primary, Secondary,    \* the constructor's coins
  StableCoins,           \* those the governor may change to
  StalePeriod,           \* of the alUSD oracle itself
  Moving, Traded, Others, \* bounds: the coins whose Chainlink price changes, the
                         \* pairs that trade, and those that others refresh
  StartTime, MaxTime

VARIABLES
  now, pair, oracles, defaultTwapPeriod, coinPrice,
  primaryStableCoin, secondaryStableCoin, primaryDecimals, secondaryDecimals,
  updatedFor,            \* history: the coins that update() refreshed, in a set
  alone                  \* history: someone refreshed one pair by itself

coinVars == <<primaryStableCoin, secondaryStableCoin, primaryDecimals, secondaryDecimals>>
twapVars == <<pair, oracles, defaultTwapPeriod>>
history == <<updatedFor, alone>>

vars == <<now, twapVars, coinPrice, coinVars, history>>

Twap == INSTANCE UniswapV2LikePriceProvider WITH NativeToken <- WETH

Coins == INSTANCE StableCoinProvider WITH
           Deviations <- {}, StalePeriods <- {},
           StalePeriod <- CoinStalePeriod,
           defaultStalePeriod <- CoinStalePeriod,
           customStalePeriod <- [x \in Token |-> 0],
           maxDeviation <- MaxDeviation

ASSUME CoinsAssumption ==
  /\ ALUSD \in Token /\ Coins!CoinConstants
  /\ StableCoins \subseteq Token /\ Moving \subseteq Token
  /\ MaxDeviation \in Nat /\ CoinStalePeriod \in Nat /\ StalePeriod \in Nat

\* What the TWAP provider assumes of its constants.
ASSUME TwapAssumption ==
  /\ Twap!PairsAssumption /\ Twap!PeriodsAssumption /\ Twap!ReservesAssumption
  /\ Twap!WidthAssumption /\ Twap!SpotAssumption /\ Twap!HorizonAssumption
  /\ Traded \subseteq Pairs /\ Others \subseteq Pairs

\* The model ends before the 32-bit clock of the pairs wraps, in 2106.
ASSUME BeforeTheWrap == StartTime > 0 /\ MaxTime < TsMod

\* The amounts of whole tokens; provers know nothing about `^'.
ASSUME PowersAssumption ==
  LET exponents == {Decimals(x) : x \in Token} \cup {UsdDecimals}
  IN \A m, n \in exponents : 10 ^ m \in Nat \ {0} /\ (m >= n => 10 ^ (m - n) \in Nat \ {0})

Init ==
  /\ now = StartTime
  /\ pair \in [Pairs -> {Twap!TradingPair(r) : r \in Reserves}]
  /\ oracles = [p \in Pairs |-> [k \in Periods |-> Twap!NoOracle]]
  /\ defaultTwapPeriod \in Periods
  /\ coinPrice = [x \in Token |-> Coins!Answer(10 ^ UsdDecimals, StartTime)]
  /\ primaryStableCoin = Primary /\ primaryDecimals = Decimals(Primary)
  /\ secondaryStableCoin = Secondary /\ secondaryDecimals = Decimals(Secondary)
  /\ updatedFor = {}
  /\ alone = FALSE

AlusdPair == Twap!PairFor(ALUSD, WETH)
CoinPair(coin) == Twap!PairFor(WETH, coin)

-----------------------------------------------------------------------------
\* The environment: the chain, Chainlink, and callers of the public updateOrAdd.

Tick == Twap!Tick /\ UNCHANGED <<coinPrice, coinVars, history>>

Report ==
  /\ \E x \in Moving : \E reply \in Coins!CoinReplies :
       coinPrice' = [coinPrice EXCEPT ![x] = reply]
  /\ UNCHANGED <<now, twapVars, coinVars, history>>

\* A trade that leaves the price where it was: the properties are about the times
\* of the averages.
Trade ==
  /\ \E p \in Traded : Twap!Trade(p, pair[p].reserves)
  /\ UNCHANGED <<coinPrice, coinVars, history>>

\* One such call is enough to bring the pairs apart, and a bound.
UpdateOnePair ==
  /\ ~alone
  /\ \E p \in Others, k \in Periods : Twap!UpdateOrAdd(p, k)
  /\ alone' = TRUE
  /\ UNCHANGED <<coinPrice, coinVars, updatedFor>>

UpdatePairs(ps) ==
  /\ \A p \in ps : p # Twap!NoPair /\ Twap!UpdateSucceeds(p, defaultTwapPeriod)
  /\ oracles' = [p \in Pairs |->
       IF p \in ps
       THEN [oracles[p] EXCEPT ![defaultTwapPeriod] = Twap!Refreshed(p, defaultTwapPeriod)]
       ELSE oracles[p]]

\* Mutant: a pair of the coin that is tracked already is left to others.
Update_CoinOnce ==
  \E coin \in Coins!GetStableCoinIfPegged :
    /\ UpdatePairs({AlusdPair} \cup
         {p \in {CoinPair(coin)} : ~Twap!HasOracle(p, defaultTwapPeriod)})
    /\ updatedFor' = updatedFor \cup {coin}
    /\ UNCHANGED <<now, pair, defaultTwapPeriod, coinPrice, coinVars, alone>>

\* update(): both pairs in one transaction, which reverts when no coin is pegged.
Update ==
  \E coin \in Coins!GetStableCoinIfPegged :
    /\ UpdatePairs({AlusdPair, CoinPair(coin)})
    /\ updatedFor' = updatedFor \cup {coin}
    /\ UNCHANGED <<now, pair, defaultTwapPeriod, coinPrice, coinVars, alone>>

UpdateDefaultTwapPeriod ==
  /\ \E k \in Periods : Twap!UpdateDefaultTwapPeriod(k)
  /\ UNCHANGED <<coinPrice, coinVars, history>>

UpdateStableCoins ==
  /\ \E primary, secondary \in StableCoins : Coins!UpdateStableCoins(primary, secondary)
  /\ UNCHANGED <<now, twapVars, coinPrice, history>>

Next ==
  \/ Tick \/ Report \/ Trade
  \/ UpdateOnePair \/ Update \/ UpdateDefaultTwapPeriod \/ UpdateStableCoins

Spec == Init /\ [][Next]_vars

-----------------------------------------------------------------------------
\* The reads.

\* UniswapV2LikePriceProvider.getPriceInUsd of one whole token: the time of the
\* first leg stands for the whole quote.
DollarPrice(x) ==
  IF Coins!GetStableCoinIfPegged = {} THEN Coins!Reverted
  ELSE LET coin == CHOOSE c \in Coins!GetStableCoinIfPegged : TRUE
           quote == Twap!Quote(x, coin, defaultTwapPeriod, 10 ^ Decimals(x))
       IN Coins!Answer(Coins!ToUsdRepresentation(quote.amount), quote.inAt)

QuoteTokenToUsd(x, amountIn) == Coins!QuoteTokenToUsd(DollarPrice(x), amountIn, 10 ^ Decimals(x))

\* The oracle asks for one whole alUSD and checks the answer's age.
GetPriceInUsd ==
  LET answer == QuoteTokenToUsd(ALUSD, 10 ^ Decimals(ALUSD))
  IN IF answer.ok /\ answer.amount > 0 /\ ~Coins!Stale(answer.at, StalePeriod)
     THEN answer ELSE Coins!Reverted

-----------------------------------------------------------------------------
TypeOK == Twap!TypeOK /\ Coins!TypeOK

\* Whatever coins the governor changed to before, a price that was quoted in the
\* primary coin is converted to dollars with the decimals of that coin, which are
\* cached.
PricedInThePrimaryCoin ==
  \A coin \in Coins!GetStableCoinIfPegged :
    coin = primaryStableCoin /\ GetPriceInUsd.ok =>
      GetPriceInUsd.amount =
        Coins!ScaleDecimal(Twap!Quote(ALUSD, coin, defaultTwapPeriod, 10 ^ Decimals(ALUSD)).amount,
                           Decimals(coin), UsdDecimals)

\* The times of the two averages a served price is the product of.
Leg(p) == oracles[p][defaultTwapPeriod].blockTimestampLast
Legs == {Leg(AlusdPair)} \cup {Leg(CoinPair(c)) : c \in Coins!GetStableCoinIfPegged}

\* "Anytime that a quote performs more than one query, it uses the oldest date"
\* (IPriceProvidersAggregator.sol:16): a served price is not dated later than any
\* of the averages it was computed from.
UsesTheOldestDate == GetPriceInUsd.ok => \A at \in Legs : GetPriceInUsd.at <= at

\* As long as only update() refreshes the pairs, and always for the same coin,
\* the legs of a served price are less than a TWAP period apart, although either
\* may have skipped refreshes that the other made: the time that is dropped is
\* almost the one that is kept.
UpdatedTogetherLegsStayClose ==
  GetPriceInUsd.ok /\ ~alone /\ Coins!GetStableCoinIfPegged = updatedFor =>
    \A at1, at2 \in Legs : at1 > at2 => at1 - at2 < defaultTwapPeriod
=============================================================================
