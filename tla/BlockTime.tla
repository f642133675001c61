-------------------------- MODULE BlockTime --------------------------
(***************************************************************************)
(* What the contracts of one chain share: the tokens and the block's time,  *)
(* which never goes back and may be the same for many transactions.         *)
(***************************************************************************)
EXTENDS Integers

CONSTANTS
  Token,
  StartTime, MaxTime     \* the seconds a model runs through

ASSUME TimeAssumption ==
  StartTime \in Nat \ {0} /\ MaxTime \in Nat /\ StartTime <= MaxTime

VARIABLE now             \* block.timestamp

Pass == now < MaxTime /\ now' = now + 1
=============================================================================
