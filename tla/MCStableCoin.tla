---------------------------- MODULE MCStableCoin ----------------------------
(***************************************************************************)
(* Instances of the stable coin provider for TLC: DAI with as many decimals *)
(* as USD amounts, USDC and USDT with fewer.                                *)
(***************************************************************************)
EXTENDS StableCoinProvider

CONSTANTS DAI, USDC, USDT

CoinDecimals(x) == IF x = DAI THEN 2 ELSE 1
=============================================================================
