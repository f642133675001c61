-------------------------- MODULE UsingStalePeriod --------------------------
(***************************************************************************)
(* src/contracts/features/UsingStalePeriod.sol: how old a price may be, per *)
(* token.  Oracles that inherit the feature conjoin its actions to their    *)
(* own.                                                                     *)
(***************************************************************************)
EXTENDS PriceProvider, BlockTime

CONSTANT StalePeriods

ASSUME StalePeriodsAssumption == StalePeriods \subseteq Nat

VARIABLES
  defaultStalePeriod,
  customStalePeriod      \* 0 for a token without one

staleVars == <<defaultStalePeriod, customStalePeriod>>

StaleTypeOK ==
  /\ defaultStalePeriod \in Nat
  /\ customStalePeriod \in [Token -> StalePeriods \cup {0}]

StaleInit(period) ==
  /\ defaultStalePeriod = period
  /\ customStalePeriod = [x \in Token |-> 0]

StalePeriodOf(x) ==
  IF customStalePeriod[x] = 0 THEN defaultStalePeriod ELSE customStalePeriod[x]

\* Mutant: an unchecked subtraction lets times from the future pass as fresh.
Ahead_Passes(at) == FALSE

\* _priceIsStale subtracts with a check: it neither holds nor fails for a time
\* ahead of the block's, it reverts.
Ahead(at) == at > now
Stale(at, period) == now - at > period

\* A period of 0 removes the token's own.
UpdateCustomStalePeriod(x, period) ==
  /\ customStalePeriod' = [customStalePeriod EXCEPT ![x] = period]
  /\ UNCHANGED <<now, defaultStalePeriod>>

UpdateDefaultStalePeriod(period) ==
  /\ defaultStalePeriod' = period
  /\ UNCHANGED <<now, customStalePeriod>>
=============================================================================
