----------------------- MODULE ChainlinkPriceProvider -----------------------
(***************************************************************************)
(* src/contracts/core/ChainlinkPriceProvider.sol: prices pushed to external *)
(* aggregators, one aggregator per token.  On Hemi and Swell the            *)
(* aggregators are Redstone's push feeds.                                   *)
(*                                                                          *)
(* An aggregator is external: it holds a signed answer and the block time   *)
(* of its last report.                                                      *)
(***************************************************************************)
EXTENDS PriceProvider, BlockTime

CONSTANTS
  Aggregator,
  NoAggregator,          \* address(0)
  Decimals(_),           \* of an aggregator
  ChainlinkDecimals,
  ToScale,               \* 10^(USD_DECIMALS - CHAINLINK_DECIMALS)
  InitAggregators,       \* the table set by the constructor
  Answers                \* what aggregators report, negative numbers included

ASSUME AnswersAssumption == Answers \subseteq Int /\ ToScale \in Nat \ {0}

ASSUME AggregatorsAssumption ==
  /\ NoAggregator \notin Aggregator
  /\ InitAggregators \in [Token -> Aggregator \cup {NoAggregator}]
  /\ \A x \in Token : InitAggregators[x] \in Aggregator =>
       Decimals(InitAggregators[x]) = ChainlinkDecimals

VARIABLES
  aggregators,           \* aggregators[x]: the aggregator of token x
  rounds                 \* rounds[g]: the latest round of aggregator g

Round == [answer : Answers \cup {0}, updatedAt : Nat]

\* The aggregators TO_SCALE is right for.
Scaled == {g \in Aggregator : Decimals(g) = ChainlinkDecimals}

TypeOK ==
  /\ aggregators \in [Token -> Scaled \cup {NoAggregator}]
  /\ rounds \in [Aggregator -> Round]

Init ==
  /\ aggregators = InitAggregators
  /\ rounds = [g \in Aggregator |-> [answer |-> 0, updatedAt |-> 0]]

\* A new round of an aggregator.
Report(g, answer) ==
  /\ rounds' = [rounds EXCEPT ![g] = [answer |-> answer, updatedAt |-> now]]
  /\ UNCHANGED <<now, aggregators>>

\* Mutant: the aggregator's decimals are not checked.
UpdateAggregator_AnyDecimals(x, g) ==
  /\ g # aggregators[x]
  /\ aggregators' = [aggregators EXCEPT ![x] = g]
  /\ UNCHANGED <<now, rounds>>

UpdateAggregator(x, g) ==
  /\ g # aggregators[x]
  /\ g = NoAggregator \/ Decimals(g) = ChainlinkDecimals
  /\ aggregators' = [aggregators EXCEPT ![x] = g]
  /\ UNCHANGED <<now, rounds>>

\* getPriceInUsd reverts without an aggregator and on a negative answer.
GetPriceInUsd(x) ==
  IF aggregators[x] = NoAggregator THEN Reverted
  ELSE LET round == rounds[aggregators[x]]
       IN IF round.answer < 0 THEN Reverted
          ELSE Answer(round.answer * ToScale, round.updatedAt)
=============================================================================
