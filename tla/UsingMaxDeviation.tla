------------------------- MODULE UsingMaxDeviation -------------------------
(***************************************************************************)
(* src/contracts/features/UsingMaxDeviation.sol: how far two prices of one  *)
(* asset may be apart.                                                      *)
(***************************************************************************)
EXTENDS Integers

CONSTANTS
  Whole,                 \* the scale of deviations, 1e18 in the contract
  Deviations             \* the maxima the governor sets

ASSUME DeviationsAssumption == Whole \in Nat \ {0} /\ Deviations \subseteq Nat

VARIABLE maxDeviation

UpdateMaxDeviation(deviation) == maxDeviation' = deviation

\* Mutant: the prices are compared on one side only.
IsDeviationOK_OneSided(a, b) == a > b => ((a - b) * Whole) \div a <= maxDeviation

\* The distance is relative to the larger price and rounds down.  Not both are 0.
IsDeviationOK(a, b) ==
  (IF a > b THEN ((a - b) * Whole) \div a ELSE ((b - a) * Whole) \div b) <= maxDeviation
=============================================================================
