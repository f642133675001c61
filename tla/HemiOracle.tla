----------------------------- MODULE HemiOracle -----------------------------
(***************************************************************************)
(* The oracle deployed on Hemi and Swell: a MainAndFallbackOracle whose     *)
(* main provider is the pull cache RedstonePriceProvider and whose fallback *)
(* is a ChainlinkPriceProvider over Redstone's push feeds.                  *)
(*                                                                          *)
(* src/deploy/hemi/01 to 03.  Users send packages, the push feeds report,   *)
(* the governor changes tables and periods, and time passes, in any order;  *)
(* the oracle itself only reads.                                            *)
(***************************************************************************)
EXTENDS MainAndFallbackOracle, ChainlinkPriceProvider, Sequences

CONSTANTS
  Feed, Null, Signed(_, _), InitFeeds, Listings, MaxTimeTolerance, Skew,
  StalePeriod,           \* the constructor's default stale period
  Unit(_)                \* 10^decimals of a token

VARIABLES feeds, cache

pullVars == <<feeds, cache>>
pushVars == <<aggregators, rounds>>

hemiVars == <<now, pullVars, pushVars, staleVars>>

Pull == INSTANCE RedstonePriceProvider

ASSUME PullAssumption ==
  /\ Null \notin Token
  /\ Listings \subseteq Seq(Token \cup {Null})
  /\ InitFeeds \in [Feed -> Seq(Token \cup {Null})]
  /\ Skew \in Nat /\ MaxTimeTolerance \in Nat
  /\ \A f \in Feed : \A t \in 1..(MaxTime + Skew) : Signed(f, t) \subseteq Nat

ASSUME HemiAssumption ==
  StalePeriod \in Nat /\ \A x \in Token : Unit(x) \in Nat \ {0}

HemiTypeOK == TypeOK /\ StaleTypeOK /\ Pull!TypeOK

HemiInit == Pull!Init /\ Init /\ StaleInit(StalePeriod)

HemiNext ==
  \/ /\ Pull!Tick \/ Pull!UpdatePrices
        \/ \E f \in Feed : \E tokens \in Listings : Pull!UpdateFeed(f, tokens)
     /\ UNCHANGED <<pushVars, staleVars>>
  \/ /\ \/ \E g \in Aggregator : \E answer \in Answers : Report(g, answer)
        \/ \E x \in Token : \E g \in Aggregator \cup {NoAggregator} : UpdateAggregator(x, g)
     /\ UNCHANGED <<pullVars, staleVars>>
  \/ /\ \/ \E x \in Token : \E period \in StalePeriods \cup {0} :
             UpdateCustomStalePeriod(x, period)
        \/ \E period \in StalePeriods : UpdateDefaultStalePeriod(period)
     /\ UNCHANGED <<pullVars, pushVars>>

HemiSpec == HemiInit /\ [][HemiNext]_hemiVars

-----------------------------------------------------------------------------
\* The reads of the deployed oracle.

MainPrice(x) == Pull!GetPriceInUsd(x)
FallbackPrice(x) == GetPriceInUsd(x)

OraclePrice(x) == PriceOf(MainPrice(x), FallbackPrice(x), x)

OracleTokenToUsd(x, amountIn) ==
  TokenToUsd(MainPrice(x), FallbackPrice(x), x, amountIn, Unit(x))

OracleUsdToToken(x, amountIn) ==
  UsdToToken(MainPrice(x), FallbackPrice(x), x, amountIn, Unit(x))

\* quote: through USD, each leg choosing its provider by itself.
OracleQuote(x, y, amountIn) ==
  LET inUsd == OracleTokenToUsd(x, amountIn)
  IN IF inUsd.ok THEN OracleUsdToToken(y, inUsd.amount) ELSE Reverted

-----------------------------------------------------------------------------
\* What the fallback would answer by itself.
FallbackUsable(x) ==
  LET answer == FallbackPrice(x)
  IN answer.ok /\ answer.amount > 0 /\ ~Stale(answer.at, StalePeriodOf(x))

\* The documented promise: "if it doesn't support the asset, or price is staled,
\* try getting price from the fallback" (MainAndFallbackOracle.sol:11).  With a
\* usable fallback the oracle always answers.
FallbackCoversMain == \A x \in Token : FallbackUsable(x) => OraclePrice(x).ok

\* What the code keeps of that promise: a usable fallback is refused only while
\* the pull cache holds a package signed for a second that has yet to come and
\* that the provider's own tolerance already serves.  The outage ends by itself
\* when the clock reaches that second.
OutageOnlyWhileAhead ==
  \A x \in Token :
    FallbackUsable(x) /\ ~OraclePrice(x).ok =>
      cache[x].priceTimestamp - now \in 1..MaxTimeTolerance

\* A read never depends on how it is asked: one whole token is worth its price.
WholeTokenIsWorthItsPrice ==
  \A x \in Token : OracleTokenToUsd(x, Unit(x)) = OraclePrice(x)

\* While nothing but time passes the oracle only moves towards the fallback: an
\* answer of the fallback is never replaced by one of the main provider without
\* a moment of refusal between them (a package from the future ripening).
TimeAloneNeverPrefersMain ==
  [][now' = now + 1 =>
       \A x \in Token :
         OraclePrice(x).ok /\ OraclePrice(x)'.ok /\ MainPrice(x) = NoPrice
           => OraclePrice(x)' = OraclePrice(x)]_hemiVars

\* Selling a token and buying it back never returns more than went in, although
\* each leg picks its provider by itself, unless the amount of one leg rounds to
\* nothing at the main provider's price, which sends that leg alone to the fallback.
RoundTripNeverGains ==
  \A x \in Token : \A amountIn \in 1..(2 * Unit(x)) :
    LET main == MainPrice(x)
        inUsd == OracleTokenToUsd(x, amountIn)
        back == OracleQuote(x, x, amountIn)
    IN back.ok =>
         \/ back.amount <= amountIn
         \/ /\ QuoteTokenToUsd(main, amountIn, Unit(x)).amount = 0
            /\ main.amount \in 1..(FallbackPrice(x).amount - 1)
         \/ /\ QuoteUsdToToken(main, inUsd.amount, Unit(x)).amount = 0
            /\ main.amount > FallbackPrice(x).amount
=============================================================================
