------------------------- MODULE StableCoinProvider -------------------------
(***************************************************************************)
(* src/contracts/core/StableCoinProvider.sol: the stable coin that stands   *)
(* for the US dollar.  Price providers without dollar prices, as the TWAP   *)
(* provider, quote in the coin of getStableCoinIfPegged and convert the     *)
(* amount with toUsdRepresentation.                                         *)
(*                                                                          *)
(* Chainlink's prices of the coins are external.                            *)
(***************************************************************************)
EXTENDS UsingStalePeriod, UsingMaxDeviation

CONSTANTS
  Decimals(_),           \* of a coin
  UsdDecimals,           \* 18
  CoinPrices,            \* what Chainlink reports for a coin
  Primary, Secondary, StalePeriod, MaxDeviation  \* the constructor's arguments

\* What is assumed of the constants; modules that run assume it.
CoinConstants ==
  /\ {Primary, Secondary} \subseteq Token /\ Primary # Secondary
  /\ UsdDecimals \in Nat /\ \A x \in Token : Decimals(x) \in Nat
  /\ CoinPrices \subseteq Nat

VARIABLES
  coinPrice,             \* coinPrice[x]: Chainlink's answer for coin x
  primaryStableCoin, secondaryStableCoin,
  primaryDecimals, secondaryDecimals             \* cached by the last update

coinVars == <<primaryStableCoin, secondaryStableCoin, primaryDecimals, secondaryDecimals>>

vars == <<now, coinPrice, coinVars, staleVars, maxDeviation>>

OneUsd == 10 ^ UsdDecimals

\* OracleHelpers.scaleDecimal.
ScaleDecimal(amount, from, to) ==
  IF from > to THEN amount \div 10 ^ (from - to) ELSE amount * 10 ^ (to - from)

CoinReplies == {Reverted} \cup {Answer(price, now) : price \in CoinPrices}

TypeOK ==
  /\ StaleTypeOK
  /\ maxDeviation \in Nat
  /\ coinPrice \in [Token -> [ok : BOOLEAN, amount : Nat, at : 0..now]]
  /\ {primaryStableCoin, secondaryStableCoin} \subseteq Token
  /\ primaryStableCoin # secondaryStableCoin
  /\ {primaryDecimals, secondaryDecimals} \subseteq Nat

Init ==
  /\ now = StartTime
  /\ coinPrice = [x \in Token |-> NoPrice]
  /\ primaryStableCoin = Primary /\ primaryDecimals = Decimals(Primary)
  /\ secondaryStableCoin = Secondary /\ secondaryDecimals = Decimals(Secondary)
  /\ StaleInit(StalePeriod)
  /\ maxDeviation = MaxDeviation

\* Chainlink reports, or starts to fail, for a coin.
Report(x, reply) ==
  /\ coinPrice' = [coinPrice EXCEPT ![x] = reply]
  /\ UNCHANGED <<now, coinVars, staleVars, maxDeviation>>

\* Mutant: one coin may be both.
UpdateStableCoins_MaybeSame(primary, secondary) ==
  /\ primaryStableCoin' = primary /\ primaryDecimals' = Decimals(primary)
  /\ secondaryStableCoin' = secondary /\ secondaryDecimals' = Decimals(secondary)

\* Mutant: the decimals of the constructor's coins are kept.
UpdateStableCoins_KeepsDecimals(primary, secondary) ==
  /\ primary # secondary
  /\ primaryStableCoin' = primary
  /\ secondaryStableCoin' = secondary
  /\ UNCHANGED <<primaryDecimals, secondaryDecimals>>

UpdateStableCoins(primary, secondary) ==
  /\ primary # secondary
  /\ primaryStableCoin' = primary /\ primaryDecimals' = Decimals(primary)
  /\ secondaryStableCoin' = secondary /\ secondaryDecimals' = Decimals(secondary)

Next ==
  \/ Pass /\ UNCHANGED <<coinPrice, coinVars, staleVars, maxDeviation>>
  \/ \E x \in Token : \E reply \in CoinReplies : Report(x, reply)
  \/ /\ \E primary, secondary \in Token : UpdateStableCoins(primary, secondary)
     /\ UNCHANGED <<now, coinPrice, staleVars, maxDeviation>>
  \/ /\ \E deviation \in Deviations : UpdateMaxDeviation(deviation)
     /\ UNCHANGED <<now, coinPrice, coinVars, staleVars>>
  \/ /\ \/ \E x \in Token : \E period \in StalePeriods \cup {0} :
             UpdateCustomStalePeriod(x, period)
        \/ \E period \in StalePeriods : UpdateDefaultStalePeriod(period)
     /\ UNCHANGED <<coinPrice, coinVars, maxDeviation>>

Spec == Init /\ [][Next]_vars

-----------------------------------------------------------------------------
\* A fresh price close enough to one dollar.
Pegged(x) ==
  /\ ~Stale(coinPrice[x].at, StalePeriodOf(x))
  /\ IsDeviationOK(coinPrice[x].amount, OneUsd)

\* The set holds the coin that is returned; it is empty when the call reverts,
\* which Chainlink's failure on the primary coin also makes it do.
GetStableCoinIfPegged ==
  IF ~coinPrice[primaryStableCoin].ok THEN {}
  ELSE IF Pegged(primaryStableCoin) THEN {primaryStableCoin}
  ELSE IF coinPrice[secondaryStableCoin].ok /\ Pegged(secondaryStableCoin)
  THEN {secondaryStableCoin}
  ELSE {}

\* The amount does not say which coin it is of.
ToUsdRepresentation(amount) == ScaleDecimal(amount, primaryDecimals, UsdDecimals)

WorthOneUsd(x) == ToUsdRepresentation(10 ^ Decimals(x)) = OneUsd

\* "Convert given amount of stable coin to USD representation (18 decimals)"
\* (IStableCoinProvider.sol:14): a whole coin of those that getStableCoinIfPegged
\* serves converts to one dollar.
ServedCoinIsWorthOneUsd == \A x \in GetStableCoinIfPegged : WorthOneUsd(x)
=============================================================================
