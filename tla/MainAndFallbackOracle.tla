------------------------ MODULE MainAndFallbackOracle ------------------------
(***************************************************************************)
(* src/contracts/periphery/MainAndFallbackOracle.sol: the answer of a main  *)
(* price provider if it is positive and fresh, else that of a fallback.     *)
(*                                                                          *)
(* The providers are two external contracts; `main' and `fallback' below    *)
(* are what they answer for the token.                                      *)
(***************************************************************************)
EXTENDS UsingStalePeriod

\* Mutant: the fallback is asked only when the main has no price at all.
FirstUsable_NoFallbackOnStale(main, fallback, period) ==
  LET Aborts(a) == ~a.ok \/ (a.amount > 0 /\ Ahead(a.at))
      Usable(a) == a.amount > 0 /\ ~Stale(a.at, period)
  IN IF Aborts(main) \/ (main.amount > 0 /\ ~Usable(main)) THEN Reverted
     ELSE IF Usable(main) THEN main
     ELSE IF Aborts(fallback) \/ ~Usable(fallback) THEN Reverted
     ELSE fallback

\* The check is common to the three reads.  A provider's revert is not caught,
\* and the subtraction of the staleness check, made for a positive amount only,
\* reverts on a time ahead of the block's: both abort the call before the
\* fallback is asked.
FirstUsable(main, fallback, period) ==
  LET Aborts(a) == ~a.ok \/ (a.amount > 0 /\ Ahead(a.at))
      Usable(a) == a.amount > 0 /\ ~Stale(a.at, period)
  IN IF Aborts(main) THEN Reverted
     ELSE IF Usable(main) THEN main
     ELSE IF Aborts(fallback) \/ ~Usable(fallback) THEN Reverted
     ELSE fallback

PriceOf(main, fallback, x) == FirstUsable(main, fallback, StalePeriodOf(x))

\* Mutant: the token's own period is ignored.
TokenToUsd_DefaultPeriod(main, fallback, x, amountIn, one) ==
  FirstUsable(QuoteTokenToUsd(main, amountIn, one),
              QuoteTokenToUsd(fallback, amountIn, one), defaultStalePeriod)

TokenToUsd(main, fallback, x, amountIn, one) ==
  FirstUsable(QuoteTokenToUsd(main, amountIn, one),
              QuoteTokenToUsd(fallback, amountIn, one), StalePeriodOf(x))

\* Mutant: the fallback is asked first.
UsdToToken_FallbackFirst(main, fallback, x, amountIn, one) ==
  FirstUsable(QuoteUsdToToken(fallback, amountIn, one),
              QuoteUsdToToken(main, amountIn, one), StalePeriodOf(x))

UsdToToken(main, fallback, x, amountIn, one) ==
  FirstUsable(QuoteUsdToToken(main, amountIn, one),
              QuoteUsdToToken(fallback, amountIn, one), StalePeriodOf(x))
=============================================================================
