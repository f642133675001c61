------------------------------ MODULE MCTwap ------------------------------
(***************************************************************************)
(* Instances of the TWAP provider for TLC.                                  *)
(***************************************************************************)
EXTENDS TwapHistory

CONSTANTS A, U, N

\* One pair, two periods.
PairAU == {<<A, U>>}

\* Three pairs: one direct and the two legs through the native token.
PairsRoute == {<<A, N>>, <<N, U>>, <<A, U>>}

Reserves2 == {<<2, 1>>, <<1, 3>>}

Reserves1 == {<<2, 1>>}
=============================================================================
