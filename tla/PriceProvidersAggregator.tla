---------------------- MODULE PriceProvidersAggregator ----------------------
(***************************************************************************)
(* src/contracts/core/PriceProvidersAggregator.sol: one entry point to many *)
(* price providers, which the governor registers under an enumeration.      *)
(*                                                                          *)
(* The provider contracts behind it are modelled by what they answer for a  *)
(* token: a price with a time, no price, or a revert.                       *)
(***************************************************************************)
EXTENDS PriceProvider, BlockTime

CONSTANTS
  Provider,              \* DataTypes.Provider without NONE
  NONE,
  Contract,              \* deployed price provider contracts
  NoContract,            \* address(0)
  InitProviders,
  Unit(_),               \* 10^decimals of a token
  Prices                 \* the prices providers report

ASSUME RegistryAssumption ==
  /\ NONE \notin Provider /\ NoContract \notin Contract
  /\ InitProviders \in [Provider -> Contract \cup {NoContract}]

ASSUME PricesAssumption ==
  Prices \subseteq Nat /\ \A x \in Token : Unit(x) \in Nat \ {0}

VARIABLES
  priceProviders,        \* priceProviders[p]: the contract registered for p
  prices                 \* prices[c][x]: what contract c answers for token x

aggregatorVars == <<priceProviders, prices>>

\* What a provider may answer at this time: clocks of signers and publishers
\* may be a second ahead.
Replies == {Reverted, NoPrice} \cup {Answer(amount, at) : amount \in Prices, at \in {now, now + 1}}

PriceReply == [ok : BOOLEAN, amount : Nat, at : Nat]

AggregatorTypeOK ==
  /\ priceProviders \in [Provider -> Contract \cup {NoContract}]
  /\ prices \in [Contract -> [Token -> PriceReply]]

AggregatorInit ==
  /\ priceProviders = InitProviders
  /\ prices = [c \in Contract |-> [x \in Token |-> NoPrice]]

\* The price of a token changes at one of the providers.
Report(c, x, reply) ==
  /\ prices' = [prices EXCEPT ![c][x] = reply]
  /\ UNCHANGED <<now, priceProviders>>

SetPriceProvider(p, c) ==
  /\ c # priceProviders[p]
  /\ priceProviders' = [priceProviders EXCEPT ![p] = c]
  /\ UNCHANGED <<now, prices>>

-----------------------------------------------------------------------------
IsSet(p) == p # NONE /\ priceProviders[p] # NoContract

\* All reads revert for a provider that is not set.
GetPriceInUsd(p, x) == IF IsSet(p) THEN prices[priceProviders[p]][x] ELSE Reverted

AggregatorTokenToUsd(p, x, amountIn) == QuoteTokenToUsd(GetPriceInUsd(p, x), amountIn, Unit(x))

AggregatorUsdToToken(p, x, amountIn) == QuoteUsdToToken(GetPriceInUsd(p, x), amountIn, Unit(x))

AggregatorQuote(p, x, y, amountIn) ==
  QuoteThroughUsd(GetPriceInUsd(p, x), GetPriceInUsd(p, y), amountIn, Unit(x), Unit(y))
=============================================================================
