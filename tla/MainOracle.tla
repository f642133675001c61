----------------------------- MODULE MainOracle -----------------------------
(***************************************************************************)
(* src/contracts/periphery/MainOracle.sol and PullOracle.sol: one price     *)
(* provider as an oracle, with a check of its answers or without any.       *)
(*                                                                          *)
(* `answer' is what the provider replies.  What an oracle returns has no    *)
(* time: its answers are dated 0.                                           *)
(***************************************************************************)
EXTENDS UsingStalePeriod

Undated(answer) == [answer EXCEPT !.at = 0]

\* The requirement common to the reads; the age of a price dated ahead reverts.
Valid(answer, x) ==
  /\ answer.ok /\ answer.amount > 0
  /\ ~Ahead(answer.at) /\ ~Stale(answer.at, StalePeriodOf(x))

MainPrice(answer, x) == IF Valid(answer, x) THEN Undated(answer) ELSE Reverted

MainTokenToUsd(answer, x, amountIn, one) ==
  MainPrice(QuoteTokenToUsd(answer, amountIn, one), x)

MainUsdToToken(answer, x, amountIn, one) ==
  MainPrice(QuoteUsdToToken(answer, amountIn, one), x)

MainQuote(answerIn, answerOut, x, y, amountIn, oneIn, oneOut) ==
  LET out == QuoteThroughUsd(answerIn, answerOut, amountIn, oneIn, oneOut)
  IN IF /\ Valid([ok |-> out.ok, amount |-> out.amount, at |-> out.inAt], x)
        /\ Valid([ok |-> out.ok, amount |-> out.amount, at |-> out.outAt], y)
     THEN Answer(out.amount, 0) ELSE Reverted

\* PullOracle: whatever the provider answers, zero included.
PullPrice(answer) == Undated(answer)
PullTokenToUsd(answer, amountIn, one) == Undated(QuoteTokenToUsd(answer, amountIn, one))
PullUsdToToken(answer, amountIn, one) == Undated(QuoteUsdToToken(answer, amountIn, one))
PullQuote(answerIn, answerOut, amountIn, oneIn, oneOut) ==
  LET out == QuoteThroughUsd(answerIn, answerOut, amountIn, oneIn, oneOut)
  IN [ok |-> out.ok, amount |-> out.amount, at |-> 0]

-----------------------------------------------------------------------------
\* What MainOracle answers, from what PullOracle answers, in a read of prices dated
\* `dates' none of which is too old: all of it but zero and prices dated ahead.
IsPullUnlessEarly(main, pull, dates) ==
  main = IF pull.ok /\ pull.amount > 0 /\ \A at \in dates : ~Ahead(at) THEN pull ELSE Reverted
=============================================================================
