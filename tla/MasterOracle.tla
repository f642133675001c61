---------------------------- MODULE MasterOracle ----------------------------
(***************************************************************************)
(* src/contracts/periphery/MasterOracle.sol over the oracles it routes to:  *)
(* the default one, which reads Pyth, and the token oracles, which call the *)
(* master oracle back for the tokens that theirs rest on.                   *)
(*                                                                          *)
(* A read is one call.  The calls it makes form a tree that the governor's  *)
(* routes decide; routes in a circle make it run out of gas.                *)
(***************************************************************************)
EXTENDS PythPriceProvider, CurveLpTokenOracle, TokenOracles, FiniteSets

CONSTANTS
  NoOracle,
  InitDefaultOracle, DefaultOracles,  \* the constructor's, and what it may become
  Batches,               \* the sequences of <<token, oracle>> the governor sets
  Feedable,              \* the tokens that may get a feed
  InitRate, Rates,       \* of the wrappers
  Answers,               \* of the feed
  StalePeriod,           \* of a MainOracle over Pyth
  AmountsIn

OracleNames ==
  {"PythOracle", "MainOracle", "USDPeggedTokenOracle", "ATokenOracle", "CTokenOracle",
   "VPoolTokenOracle", "YEarnTokenOracle", "ERC4626TokenOracle", "CurveLpTokenOracle",
   "ChainlinkEthOnlyTokenOracle"}

ASSUME MasterAssumption ==
  /\ StalePeriod \in Nat /\ AmountsIn \subseteq Nat
  /\ \A x \in Token : OneUnit(x) \in Nat \ {0}
  /\ IsFiniteSet(Token) /\ Feedable \subseteq Token
  /\ InitRate \in Nat /\ Rates \subseteq Nat /\ Answers \subseteq Int

ASSUME RoutesAssumption ==
  LET Oracle == OracleNames \cup {NoOracle}
  IN /\ NoOracle \notin OracleNames
     /\ InitDefaultOracle \in Oracle /\ DefaultOracles \subseteq Oracle
     /\ Batches \subseteq Seq(Token \X Oracle)

VARIABLES oracles, defaultOracle

masterVars == <<oracles, defaultOracle>>
tokenVars == <<underlyingTokens, rate, feedOf, round>>

allVars == <<now, pythVars, tokenVars, masterVars>>

Main == INSTANCE MainOracle WITH
          StalePeriods <- {}, defaultStalePeriod <- StalePeriod,
          customStalePeriod <- [x \in Token |-> 0]

MasterTypeOK ==
  /\ TypeOK /\ CurveTypeOK
  /\ rate \in [DOMAIN Underlying -> Nat]
  /\ feedOf \in [Token -> BOOLEAN]
  /\ round \in [ok : {TRUE}, amount : Int, at : Nat]
  /\ oracles \in [Token -> OracleNames \cup {NoOracle}]
  /\ defaultOracle \in OracleNames \cup {NoOracle}

MasterInit ==
  /\ Init /\ CurveInit
  /\ rate = [x \in DOMAIN Underlying |-> InitRate]
  /\ feedOf = [x \in Token |-> FALSE]
  /\ round \in {Answer(a, StartTime) : a \in Answers}
  /\ oracles = [x \in Token |-> NoOracle]
  /\ defaultOracle = InitDefaultOracle

-----------------------------------------------------------------------------
\* The governor's transactions.

UpdateDefaultOracle(o) == defaultOracle' = o /\ UNCHANGED oracles

\* What a batch leaves in a table: of the oracles it gives a token, the last.
Rerouted(table, batch) ==
  [x \in Token |-> LET sets == {i \in DOMAIN batch : batch[i][1] = x}
                   IN IF sets = {} THEN table[x] ELSE batch[Max(sets)][2]]

\* Mutant: a batch replaces the whole table.
UpdateTokenOracles_Forgets(batch) ==
  /\ oracles' = Rerouted([x \in Token |-> NoOracle], batch)
  /\ UNCHANGED defaultOracle

\* updateTokenOracle is a batch of one.  A null oracle is allowed.
UpdateTokenOracles(batch) ==
  /\ oracles' = Rerouted(oracles, batch)
  /\ UNCHANGED defaultOracle

\* The contracts behind the token oracles.
Accrue(x, r) == rate' = [rate EXCEPT ![x] = r] /\ UNCHANGED <<feedOf, round>>

Report(answer) == round' = Answer(answer, now) /\ UNCHANGED <<rate, feedOf>>

MasterNext ==
  \/ Tick /\ UNCHANGED <<tokenVars, masterVars>>
  \/ PythNext /\ UNCHANGED <<tokenVars, masterVars>>
  \/ /\ \/ \E o \in DefaultOracles : UpdateDefaultOracle(o)
        \/ \E batch \in Batches : UpdateTokenOracles(batch)
     /\ UNCHANGED <<now, pythVars, tokenVars>>
  \/ /\ \E lp \in Token : \E isLending \in BOOLEAN : registerLp(lp, isLending)
     /\ UNCHANGED <<now, pythVars, rate, feedOf, round, masterVars>>
  \/ /\ \E x \in Feedable : \E isSet \in BOOLEAN : updateFeed(x, isSet)
     /\ UNCHANGED <<now, pythVars, underlyingTokens, rate, round, masterVars>>
  \/ /\ \/ \E x \in DOMAIN rate : \E r \in Rates : Accrue(x, r)
        \/ \E answer \in Answers : Report(answer)
     /\ UNCHANGED <<now, pythVars, underlyingTokens, masterVars>>

MasterSpec == MasterInit /\ [][MasterNext]_allVars

-----------------------------------------------------------------------------
\* The reads.

WrapperOracles ==
  {"ATokenOracle", "CTokenOracle", "VPoolTokenOracle", "YEarnTokenOracle", "ERC4626TokenOracle"}

WrapperPrice(o, P, x) ==
  CASE o = "ATokenOracle" -> ATokenPrice(P, x)
    [] o = "CTokenOracle" -> CTokenPrice(P, x)
    [] o = "VPoolTokenOracle" -> VPoolPrice(P, x)
    [] o = "YEarnTokenOracle" -> YEarnPrice(P, x)
    [] o = "ERC4626TokenOracle" -> ERC4626Price(P, x)

\* A wrapper's oracle calls functions that other tokens do not have.
IsWrapperFor(o, x) ==
  x \in DOMAIN Underlying /\ (o = "CTokenOracle" \/ Underlying[x] # NoToken)

\* What an oracle answers for a token to a caller that answers P.
OraclePrice(o, P, x) ==
  CASE o \in WrapperOracles -> IF IsWrapperFor(o, x) THEN WrapperPrice(o, P, x) ELSE Reverted
    [] o = "PythOracle" -> Main!PullPrice(GetPriceInUsd(x))
    [] o = "MainOracle" -> Main!MainPrice(GetPriceInUsd(x), x)
    [] o = "USDPeggedTokenOracle" -> Answer(OneInUsd, 0)
    [] o = "CurveLpTokenOracle" -> LpPrice(P, x)
    [] o = "ChainlinkEthOnlyTokenOracle" -> QuotedTokenPrice(P, x, WETH, OneInUsd)
    [] o = NoOracle -> Reverted

Route(x) == IF oracles[x] # NoOracle THEN oracles[x] ELSE defaultOracle

\* Mutant: zero is a price.
MasterPrice_Zero(P, x) == OraclePrice(Route(x), P, x)

\* getPriceInUsd, where P is what the calls back to it answer.
MasterPrice(P, x) ==
  LET price == OraclePrice(Route(x), P, x)
  IN IF price.ok /\ price.amount > 0 THEN price ELSE Reverted

\* The answers with at most n nested calls.  As many as there are tokens are enough
\* for every call that ends.
PricesWithin[n \in 0..Cardinality(Token)] ==
  IF n = 0 THEN [x \in Token |-> Reverted]
  ELSE LET P == PricesWithin[n - 1] IN [x \in Token |-> MasterPrice(P, x)]

Prices == PricesWithin[Cardinality(Token)]

\* Mutant: the token bought is rounded up.
Quote_RoundsUp(P, x, y, amountIn) ==
  LET inUsd == QuoteTokenToUsd(P[x], amountIn, OneUnit(x))
  IN IF inUsd.ok /\ P[y].ok
     THEN Answer((inUsd.amount * OneUnit(y) + P[y].amount - 1) \div P[y].amount, 0)
     ELSE Reverted

\* quote, through quoteTokenToUsd and quoteUsdToToken.
Quote(P, x, y, amountIn) ==
  LET out == QuoteThroughUsd(P[x], P[y], amountIn, OneUnit(x), OneUnit(y))
  IN IF out.ok THEN Answer(out.amount, 0) ELSE Reverted

-----------------------------------------------------------------------------
\* The tokens that the oracle of a token asks the master oracle for.
Asks(x) ==
  LET o == Route(x)
  IN CASE o \in WrapperOracles /\ IsWrapperFor(o, x) ->
            {IF o = "CTokenOracle" THEN CTokenUnderlying(x) ELSE Underlying[x]}
       [] o = "CurveLpTokenOracle" -> ToSet(underlyingTokens[x])
       [] o = "ChainlinkEthOnlyTokenOracle" -> {WETH}
       [] OTHER -> {}

RestsWithin[n \in 0..Cardinality(Token)] ==
  IF n = 0 THEN [x \in Token |-> {}]
  ELSE LET rests == RestsWithin[n - 1]
       IN [x \in Token |-> Asks(x) \cup UNION {rests[y] : y \in Asks(x)}]

\* The tokens whose prices a price is computed from, through any number of calls.
RestsOn == RestsWithin[Cardinality(Token)]

\* However deep the calls go, a price that is served was computed from positive
\* prices that would be served too: no zero, no circle and nothing that refuses is
\* under it.
RestsOnServedPrices ==
  LET P == Prices
      rests == RestsOn
  IN \A x \in Token :
       P[x].ok =>
         /\ x \notin rests[x]
         /\ \A y \in rests[x] : P[y].ok /\ P[y].amount > 0

\* A share of a pool is never worth more than any coin of the pool, or any underlying
\* coin if it was registered as a lending pool, would be at the virtual price.
LpIsWorthItsWorstCoin ==
  LET P == Prices
  IN \A lp \in DOMAIN Pool :
       Route(lp) = "CurveLpTokenOracle" /\ P[lp].ok =>
         \E coins \in {Pool[lp].coins, Pool[lp].underlyingCoins} : \A i \in DOMAIN coins :
           LET coin == P[Wrapped(coins[i])]
           IN coin.ok /\ P[lp].amount * OneShare <= coin.amount * VirtualPrice(lp)

\* The governor's change of some tokens' oracles moves no price but theirs and
\* those of the tokens that rest on them.
OnlyRoutedPricesMove ==
  [][UNCHANGED <<now, pythVars, tokenVars>> /\ oracles' # oracles =>
       LET before == Prices
           after == Prices'
           rests == RestsOn
       IN \A batch \in Batches : UpdateTokenOracles(batch) =>
            LET named == {batch[i][1] : i \in DOMAIN batch}
            IN \A x \in Token : ({x} \cup rests[x]) \cap named = {} => after[x] = before[x]
    ]_allVars

\* While nothing but time passes, a price may cease or come to be served, but it does
\* not change: no oracle on the way replaces a source that has gone stale by another.
TimeAloneOnlySilences ==
  [][now' = now + 1 =>
       LET before == Prices
           after == Prices'
       IN \A x \in Token : before[x].ok /\ after[x].ok => after[x] = before[x]]_allVars

\* Whatever tokens an amount is quoted through and back, it does not grow.
RoundTripsNeverGain ==
  LET P == Prices
  IN \A x, y \in Token : \A amountIn \in AmountsIn :
       LET there == Quote(P, x, y, amountIn)
       IN there.ok => Quote(P, y, x, there.amount).amount <= amountIn

\* PullOracle "is the same as MainOracle but without stale period check because
\* pull-oracle providers already do that".  Where the stale period is no shorter than
\* the provider's tolerance, each of the four reads shows what that is worth: no price
\* is too old for MainOracle that the provider lets pass.  The two are not the same,
\* though: MainOracle refuses a zero, and prices dated ahead, and PullOracle answers.
PullNeedsNoStalePeriod ==
  StalePeriod >= MaxTimeTolerance =>
    \A x, y \in {z \in Token : feedIds[z] # NoFeedId} : \A amountIn \in AmountsIn :
      LET px == GetPriceInUsd(x)
          py == GetPriceInUsd(y)
          one == OneUnit(x)
      IN /\ Main!IsPullUnlessEarly(Main!MainPrice(px, x), Main!PullPrice(px), {px.at})
         /\ Main!IsPullUnlessEarly(Main!MainTokenToUsd(px, x, amountIn, one),
                                   Main!PullTokenToUsd(px, amountIn, one), {px.at})
         /\ Main!IsPullUnlessEarly(Main!MainUsdToToken(px, x, amountIn, one),
                                   Main!PullUsdToToken(px, amountIn, one), {px.at})
         /\ Main!IsPullUnlessEarly(
              Main!MainQuote(px, py, x, y, amountIn, one, OneUnit(y)),
              Main!PullQuote(px, py, amountIn, one, OneUnit(y)), {px.at, py.at})

\* The default oracle prices x, by a price of Pyth's dated ahead of the block.
DefaultedEarly(x) ==
  oracles[x] = NoOracle /\ Priced(x) /\ Main!Ahead(GetPriceInUsd(x).at)

\* When the governor exchanges PullOracle for MainOracle or back, under every token
\* without an oracle of its own, no price changes and none becomes too old: MainOracle
\* silences the prices that rest, through any number of calls, on one dated ahead, and
\* every other is answered as before.  No zero that PullOracle lets pass shows.
ExchangeSilencesOnlyEarlyPrices ==
  [][/\ StalePeriod >= MaxTimeTolerance
     /\ {defaultOracle, defaultOracle'} = {"PythOracle", "MainOracle"}
     => LET before == Prices
            after == Prices'
            rests == RestsOn
            main == IF defaultOracle = "MainOracle" THEN before ELSE after
            pull == IF defaultOracle = "MainOracle" THEN after ELSE before
        IN \A x \in Token :
             main[x] = IF \E y \in {x} \cup rests[x] : DefaultedEarly(y)
                       THEN Reverted ELSE pull[x]]_allVars
=============================================================================
