------------------------------- MODULE MCHemi -------------------------------
(***************************************************************************)
(* An instance of the Hemi oracle for TLC: one token with a pull feed and a *)
(* push feed, and a push feed of the wrong decimals the governor may try.   *)
(***************************************************************************)
EXTENDS HemiOracle, TLC

CONSTANTS ETH, WETH, pushETH, push18

\* The pull price of a token of 2 units moves with time: 1, 2, 3 ...  At the first of
\* these one unit is worth nothing.
SignedValues(f, t) == {t}

PullTable == ETH :> <<WETH>>
PushTable == WETH :> pushETH
GovernorLists == {<<>>, <<WETH>>}

DecimalsOf(g) == IF g = push18 THEN 18 ELSE 8
UnitOf(x) == 2

PushAnswers == {-1, 1, 4}
=============================================================================
