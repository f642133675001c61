--------------------- MODULE ChainlinkAndFallbacksOracle ---------------------
(***************************************************************************)
(* src/contracts/periphery/ChainlinkAndFallbacksOracle.sol: Chainlink's     *)
(* answer if it is good, else that of one or two fallback providers, which  *)
(* must agree when both are good.                                           *)
(*                                                                          *)
(* Its four reads repeat one selection over answers that carry one time, or *)
(* two for quote.                                                           *)
(***************************************************************************)
EXTENDS PriceProvidersAggregator, UsingStalePeriod, UsingMaxDeviation, Sequences

CONSTANTS
  CHAINLINK,
  StalePeriod, MaxDeviation, InitFallbacks,      \* the constructor's arguments
  Registrations          \* the pairs of setPriceProvider calls the governor makes

ASSUME ConstructorAssumption ==
  /\ CHAINLINK \in Provider
  /\ StalePeriod \in Nat /\ MaxDeviation \in Nat
  /\ InitFallbacks \in Provider \X (Provider \cup {NONE})
  /\ Registrations \subseteq Provider \X (Contract \cup {NoContract})

VARIABLES fallbackProviderA, fallbackProviderB

governed == <<priceProviders, staleVars, maxDeviation, fallbackProviderA, fallbackProviderB>>

vars == <<now, prices, governed>>

TypeOK ==
  /\ AggregatorTypeOK /\ StaleTypeOK
  /\ maxDeviation \in Nat
  /\ fallbackProviderA \in Provider
  /\ fallbackProviderB \in Provider \cup {NONE}

Init ==
  /\ now = StartTime
  /\ AggregatorInit
  /\ StaleInit(StalePeriod)
  /\ maxDeviation = MaxDeviation
  /\ fallbackProviderA = InitFallbacks[1]
  /\ fallbackProviderB = InitFallbacks[2]

\* Mutant: the check for a fallback A is missing.
UpdateFallbackProviders_AnyA(a, b) ==
  /\ fallbackProviderA' = a
  /\ fallbackProviderB' = b
  /\ UNCHANGED <<now, aggregatorVars, staleVars, maxDeviation>>

\* A fallback A is required; B may be NONE, and may be A.
UpdateFallbackProviders(a, b) ==
  /\ a # NONE
  /\ fallbackProviderA' = a
  /\ fallbackProviderB' = b
  /\ UNCHANGED <<now, aggregatorVars, staleVars, maxDeviation>>

fallbackVars == <<fallbackProviderA, fallbackProviderB>>

Next ==
  \/ Pass /\ UNCHANGED <<prices, governed>>
  \/ /\ \/ \E c \in Contract : \E x \in Token : \E reply \in Replies : Report(c, x, reply)
        \/ \E r \in Registrations : SetPriceProvider(r[1], r[2])
     /\ UNCHANGED <<staleVars, maxDeviation, fallbackVars>>
  \/ \E a, b \in Provider \cup {NONE} : UpdateFallbackProviders(a, b)
  \/ /\ \E deviation \in Deviations : UpdateMaxDeviation(deviation)
     /\ UNCHANGED <<now, aggregatorVars, staleVars, fallbackVars>>
  \/ /\ \/ \E x \in Token : \E period \in StalePeriods \cup {0} :
             UpdateCustomStalePeriod(x, period)
        \/ \E period \in StalePeriods : UpdateDefaultStalePeriod(period)
     /\ UNCHANGED <<aggregatorVars, maxDeviation, fallbackVars>>

Spec == Init /\ [][Next]_vars

-----------------------------------------------------------------------------
\* The private wrappers: a call that reverts reads as (0, 0).
Caught(answer) == IF answer.ok THEN answer ELSE [answer EXCEPT !.amount = 0]

\* Mutant: a price is stale already when its age is the period.
Check_AtPeriod(amount, ages) ==
  LET stale == {i \in DOMAIN ages : ~Ahead(ages[i][1]) /\ now - ages[i][1] >= ages[i][2]}
  IN IF amount = 0 THEN "bad"
     ELSE IF \E i \in DOMAIN ages : Ahead(ages[i][1]) /\ \A j \in stale : i < j THEN "reverts"
     ELSE IF stale # {} THEN "bad" ELSE "good"

\* The check of an amount against the ages <<time, period>> of its prices, which
\* are looked at in order.  A time ahead of the block's reverts the oracle, not
\* the call that is caught.
Check(amount, ages) ==
  LET stale == {i \in DOMAIN ages : ~Ahead(ages[i][1]) /\ Stale(ages[i][1], ages[i][2])}
  IN IF amount = 0 THEN "bad"
     ELSE IF \E i \in DOMAIN ages : Ahead(ages[i][1]) /\ \A j \in stale : i < j THEN "reverts"
     ELSE IF stale # {} THEN "bad" ELSE "good"

Checked(answer, ages) ==
  [amount |-> answer.amount, check |-> Check(answer.amount, ages)]

\* Mutant: an unusable fallback A is not made up for by a good B.
Select_NeedsA(chainlink, a, b) ==
  LET Good(c) == c.check = "good"
  IN IF Good(chainlink) THEN [ok |-> TRUE, amount |-> chainlink.amount]
     ELSE IF \/ chainlink.check = "reverts" \/ a.check = "reverts"
             \/ fallbackProviderB # NONE /\ b.check = "reverts"
             \/ ~Good(a)
             \/ fallbackProviderB # NONE /\ Good(b) /\ ~IsDeviationOK(a.amount, b.amount)
          THEN [ok |-> FALSE, amount |-> 0]
     ELSE [ok |-> TRUE, amount |-> a.amount]

\* The selection.  Fallback B is not asked when it is NONE.
Select(chainlink, a, b) ==
  LET Good(c) == c.check = "good"
      refuse == [ok |-> FALSE, amount |-> 0]
      Use(c) == [ok |-> TRUE, amount |-> c.amount]
  IN IF chainlink.check = "reverts" THEN refuse
     ELSE IF Good(chainlink) THEN Use(chainlink)
     ELSE IF a.check = "reverts" THEN refuse
     ELSE IF fallbackProviderB = NONE THEN IF Good(a) THEN Use(a) ELSE refuse
     ELSE IF b.check = "reverts" THEN refuse
     ELSE IF Good(a) /\ Good(b)
          THEN IF IsDeviationOK(a.amount, b.amount) THEN Use(a) ELSE refuse
     ELSE IF Good(a) THEN Use(a)
     ELSE IF Good(b) THEN Use(b)
     ELSE refuse

SelectFrom(Try(_)) ==
  Select(Try(CHAINLINK), Try(fallbackProviderA), Try(fallbackProviderB))

Priced(p, x) ==
  LET answer == Caught(GetPriceInUsd(p, x))
  IN Checked(answer, <<<<answer.at, StalePeriodOf(x)>>>>)

OraclePrice(x) == SelectFrom(LAMBDA p : Priced(p, x))

OracleTokenToUsd(x, amountIn) ==
  SelectFrom(LAMBDA p : LET answer == Caught(AggregatorTokenToUsd(p, x, amountIn))
                        IN Checked(answer, <<<<answer.at, StalePeriodOf(x)>>>>))

\* Mutant: the token's own period is ignored.
OracleUsdToToken_DefaultPeriod(x, amountIn) ==
  SelectFrom(LAMBDA p : LET answer == Caught(AggregatorUsdToToken(p, x, amountIn))
                        IN Checked(answer, <<<<answer.at, defaultStalePeriod>>>>))

OracleUsdToToken(x, amountIn) ==
  SelectFrom(LAMBDA p : LET answer == Caught(AggregatorUsdToToken(p, x, amountIn))
                        IN Checked(answer, <<<<answer.at, StalePeriodOf(x)>>>>))

OracleQuote(x, y, amountIn) ==
  SelectFrom(LAMBDA p : LET answer == Caught(AggregatorQuote(p, x, y, amountIn))
                        IN Checked(answer, <<<<answer.inAt, StalePeriodOf(x)>>,
                                             <<answer.outAt, StalePeriodOf(y)>>>>))

-----------------------------------------------------------------------------
\* How the providers stand for token x.
IsGood(p, x) == Priced(p, x).check = "good"
IsAhead(p, x) == Priced(p, x).check = "reverts"
Consulted == {CHAINLINK, fallbackProviderA, fallbackProviderB} \ {NONE}

\* The oracle refuses a token that Chainlink or a fallback can price only when
\* the two fallbacks contradict each other or when one of the consulted
\* providers answers with a time ahead of the block's, which the checked
\* subtraction turns into a revert although a good answer is at hand.
RefusesOnlyForCause ==
  \A x \in Token :
    ~OraclePrice(x).ok =>
      \/ \A p \in Consulted : ~IsGood(p, x)
      \/ \E p \in Consulted : IsAhead(p, x)
      \/ /\ ~IsGood(CHAINLINK, x)
         /\ IsGood(fallbackProviderA, x) /\ IsGood(fallbackProviderB, x)
         /\ ~IsDeviationOK(Priced(fallbackProviderA, x).amount,
                           Priced(fallbackProviderB, x).amount)

\* Two answers that no pair of comparisons with a third one tells apart.  A maximum
\* of a whole or more allows everything.
WithinTwoDeviations(a, b) ==
  LET kept == IF maxDeviation < Whole THEN Whole - maxDeviation - 1 ELSE 0
  IN a * kept * kept <= b * Whole * Whole /\ b * kept * kept <= a * Whole * Whole

\* At most one provider contract, not Chainlink's, answers differently.
OneContractMoves ==
  \E c \in Contract \ {priceProviders[CHAINLINK]} :
    \A d \in Contract \ {c} : prices'[d] = prices[d]

\* With Chainlink out and two separate fallbacks that were both good, neither a
\* step of one provider nor the passing of time moves the oracle's price further
\* than the two deviations that the old and the new answer may be from the
\* provider that did not move.
OneFallbackMovesThePriceAtMostTwoDeviations ==
  [][\A x \in Token :
       (/\ governed' = governed /\ OneContractMoves
        /\ ~IsGood(CHAINLINK, x) /\ ~IsGood(CHAINLINK, x)'
        /\ fallbackProviderB # NONE
        /\ IsGood(fallbackProviderA, x) /\ IsGood(fallbackProviderB, x)
        /\ priceProviders[fallbackProviderA] # priceProviders[fallbackProviderB]
        /\ OraclePrice(x).ok /\ OraclePrice(x)'.ok)
         => WithinTwoDeviations(OraclePrice(x).amount, OraclePrice(x)'.amount)]_vars

\* One base unit of a token, which is what its amounts round by, takes the distance
\* of two prices past the allowed one.
OneUnitPastDeviation(a, b, unit) ==
  a < b /\ ((b - a) * unit + b) * Whole > (maxDeviation + 1) * unit * b

\* The four reads tell one story.  When the price of a token is answered, a whole
\* token sells for it, it buys a whole token back, and a whole token quotes in
\* itself as one, although each read selects by the amounts it gets.  Only for the
\* purchase are two fallbacks compared in other units: their amounts are rounded, so
\* that it may be refused when their prices just pass.
ReadsAgree ==
  \A x \in Token :
    LET price == OraclePrice(x)
        bought == OracleUsdToToken(x, price.amount)
        whole == [ok |-> TRUE, amount |-> Unit(x)]
    IN /\ OracleTokenToUsd(x, Unit(x)) = price
       /\ price.ok =>
            /\ OracleQuote(x, x, Unit(x)) = whole
            /\ \/ bought = whole
               \/ /\ ~bought.ok /\ ~IsGood(CHAINLINK, x)
                  /\ IsGood(fallbackProviderA, x) /\ IsGood(fallbackProviderB, x)
                  /\ OneUnitPastDeviation(Priced(fallbackProviderA, x).amount,
                                          Priced(fallbackProviderB, x).amount, Unit(x))

\* ChainlinkOracle.sol, the oracle without fallbacks, with the same periods and the same
\* aggregator: MainOracle's checks over what the CHAINLINK provider answers.
Single == INSTANCE MainOracle

ChainlinkPrice(x) == Single!MainPrice(GetPriceInUsd(CHAINLINK, x), x)

ChainlinkTokenToUsd(x, amountIn) ==
  Single!MainTokenToUsd(GetPriceInUsd(CHAINLINK, x), x, amountIn, Unit(x))

ChainlinkUsdToToken(x, amountIn) ==
  Single!MainUsdToToken(GetPriceInUsd(CHAINLINK, x), x, amountIn, Unit(x))

ChainlinkQuote(x, y, amountIn) ==
  Single!MainQuote(GetPriceInUsd(CHAINLINK, x), GetPriceInUsd(CHAINLINK, y),
                   x, y, amountIn, Unit(x), Unit(y))

Answers(oracle, single) == single.ok => oracle = [ok |-> TRUE, amount |-> single.amount]

\* Fallbacks only add answers.  Whatever they say, in each of the four reads the oracle
\* gives the answer that ChainlinkOracle gives, whenever that one gives any.
FallbacksOnlyAddAnswers ==
  \A x, y \in Token : \A amountIn \in Prices :
    /\ Answers(OraclePrice(x), ChainlinkPrice(x))
    /\ Answers(OracleTokenToUsd(x, amountIn), ChainlinkTokenToUsd(x, amountIn))
    /\ Answers(OracleUsdToToken(x, amountIn), ChainlinkUsdToToken(x, amountIn))
    /\ Answers(OracleQuote(x, y, amountIn), ChainlinkQuote(x, y, amountIn))
=============================================================================
