------------------------------ MODULE MCAlusd ------------------------------
(***************************************************************************)
(* An instance of the alUSD oracle for TLC: DAI and USDC as the stable      *)
(* coins, each traded against WETH as alUSD is.                             *)
(***************************************************************************)
EXTENDS AlusdTokenMainnetOracle

CONSTANTS DAI, USDC

SushiPairs == {<<ALUSD, WETH>>, <<WETH, DAI>>, <<USDC, WETH>>}

\* The trades of one pair are enough for legs that begin at different times, and
\* another's updates for legs that end at different times.
AlusdPairs == {<<ALUSD, WETH>>}
DaiPairs == {<<WETH, DAI>>}

\* One base unit for one base unit.
Even == {<<1, 1>>}

\* DAI has as many decimals as USD amounts.
CoinDecimals(x) == IF x = DAI THEN 2 ELSE 1
=============================================================================
