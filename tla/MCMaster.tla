------------------------------ MODULE MCMaster ------------------------------
(***************************************************************************)
(* An instance of the master oracle for TLC: ether and a dollar coin that   *)
(* Pyth prices, a token with an ether feed, a vault over the coin, and the  *)
(* share of a lending pool of ether and the vault.                          *)
(***************************************************************************)
EXTENDS MasterOracle

CONSTANTS USDC, STE, VAULT, LP, ethFeed, usdcFeed

\* Pyth signs zero for the coin, and for ether a negative price and an exponent out of
\* range.
P(price, expo) == [price |-> price, expo |-> expo]
PublishedPrices(f) ==
  IF f = ethFeed THEN {P(3, 0), P(-1, 0), P(25, -2)} ELSE {P(10, -1), P(0, 0)}

PythTable ==
  [x \in Token |-> CASE x = WETH -> ethFeed [] x = USDC -> usdcFeed [] OTHER -> NoFeedId]

UnderlyingOf == [x \in {VAULT} |-> USDC]

\* USDC has fewer decimals.
UnitOf(x) == IF x = USDC THEN 2 ELSE 10

LendingPool ==
  [x \in {LP} |-> [coins |-> <<ETH, VAULT>>, underlyingCoins |-> <<ETH, USDC>>]]

VirtualPrices(lp) == 11

\* WETH with an oracle that asks for WETH is the circle.
GovernorBatches ==
  {<<<<WETH, "ChainlinkEthOnlyTokenOracle">>>>, <<<<WETH, NoOracle>>>>,
   <<<<STE, "ChainlinkEthOnlyTokenOracle">>, <<LP, "CurveLpTokenOracle">>>>,
   <<<<VAULT, "ERC4626TokenOracle">>>>,
   <<<<VAULT, "CTokenOracle">>, <<STE, NoOracle>>>>}
=============================================================================
