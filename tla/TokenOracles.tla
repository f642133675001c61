---------------------------- MODULE TokenOracles ----------------------------
(***************************************************************************)
(* src/contracts/periphery/tokens: the oracles that price a token through   *)
(* another one, for which they ask the oracle that asks them; P is what it  *)
(* answers.  Their formulas are over third-party contracts: a wrapper's     *)
(* underlying token and its rate, and an aggregator's round.                *)
(***************************************************************************)
EXTENDS PriceProvider, BlockTime

CONSTANTS
  Underlying,            \* Underlying[x]: the token that wrapper x holds
  NoToken,
  WETHLike,              \* what CTokenOracle takes for a missing underlying
  OneUnit(_),            \* 10^decimals of a token
  OneCToken, OneInUsd,   \* 1e8 and 1e18
  FeedStalePeriod        \* of the oracles with feeds

ASSUME WrapperAssumption ==
  /\ DOMAIN Underlying \subseteq Token /\ WETHLike \in Token
  /\ \A x \in DOMAIN Underlying : Underlying[x] \in Token \cup {NoToken}
  /\ OneCToken \in Nat /\ OneInUsd \in Nat \ {0} /\ FeedStalePeriod \in Nat

VARIABLES
  rate,                  \* rate[x]: what a share of wrapper x is worth in it
  feedOf,                \* ethFeedOf, usdcFeedOf: whether the governor set it
  round                  \* the feed's answer and its time

Times(price, amount, one) ==
  IF price.ok THEN Answer((price.amount * amount) \div one, 0) ELSE Reverted

\* ATokenOracle: one for one.
ATokenPrice(P, x) == P[Underlying[x]]

\* CTokenOracle: a token without underlying() wraps ether.  The underlying amount
\* of one cToken is rounded before it is priced.
CTokenUnderlying(x) == IF Underlying[x] = NoToken THEN WETHLike ELSE Underlying[x]

CTokenPrice(P, x) ==
  Times(P[CTokenUnderlying(x)], (OneCToken * rate[x]) \div OneInUsd,
        OneUnit(CTokenUnderlying(x)))

\* VPoolTokenOracle, and YEarnTokenOracle, whose rate always has 18 decimals.
VPoolPrice(P, x) == Times(P[Underlying[x]], rate[x], OneUnit(Underlying[x]))
YEarnPrice(P, x) == Times(P[Underlying[x]], rate[x], OneInUsd)

\* ERC4626TokenOracle: the caller's quoteTokenToUsd of a share's assets.
ERC4626Price(P, x) == Times(P[Underlying[x]], rate[x], OneUnit(Underlying[x]))

\* ChainlinkEthOnlyTokenOracle, and RedstoneUsdcOnlyTokenOracle, which differ in
\* the token the feed is quoted in and its scale.  Without a feed the call fails.
QuotedTokenPrice(P, x, quoted, scale) ==
  IF \/ ~feedOf[x]
     \/ round.amount <= 0
     \/ round.at > now \/ now - round.at > FeedStalePeriod
  THEN Reverted ELSE Times(P[quoted], round.amount, scale)

updateFeed(x, isSet) == feedOf' = [feedOf EXCEPT ![x] = isSet]
=============================================================================
