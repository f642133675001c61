--------------------------- MODULE PriceProvider ---------------------------
(***************************************************************************)
(* src/contracts/core/PriceProvider.sol: what every price provider answers, *)
(* and the conversions they all inherit.                                    *)
(*                                                                          *)
(* An answer is the pair (amount, last update) a call returns, or the       *)
(* failure of a call that reverts.  `one' is the number of base units in a  *)
(* token, 10^decimals; all divisions round down.                            *)
(***************************************************************************)
EXTENDS Integers

Answer(amount, at) == [ok |-> TRUE, amount |-> amount, at |-> at]

Reverted == [ok |-> FALSE, amount |-> 0, at |-> 0]

\* The (0, 0) that providers return for "no price".
NoPrice == Answer(0, 0)

QuoteTokenToUsd(price, amountIn, one) ==
  IF price.ok THEN Answer((amountIn * price.amount) \div one, price.at) ELSE Reverted

QuoteUsdToToken(price, amountIn, one) ==
  IF ~price.ok THEN Reverted
  ELSE IF price.amount = 0 THEN NoPrice
  ELSE Answer((amountIn * one) \div price.amount, price.at)

\* quote: token to USD to token, with the time of either price.
QuoteThroughUsd(priceIn, priceOut, amountIn, oneIn, oneOut) ==
  LET inUsd == QuoteTokenToUsd(priceIn, amountIn, oneIn)
      out == QuoteUsdToToken(priceOut, inUsd.amount, oneOut)
  IN [ok |-> inUsd.ok /\ out.ok, amount |-> out.amount, inAt |-> inUsd.at, outAt |-> out.at]
=============================================================================
