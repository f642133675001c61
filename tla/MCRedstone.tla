---------------------------- MODULE MCRedstone ----------------------------
(***************************************************************************)
(* An instance of the Redstone cache for TLC: two feeds, the first of which *)
(* lists two tokens, as ETH lists WETH and msETH on mainnet.                *)
(***************************************************************************)
EXTENDS RedstoneHistory, TLC

CONSTANTS ETH, BTC, WETH, msETH

\* Two signer sets disagree about ETH in every second; prices move with time.
SignedValues(f, t) == IF f = ETH THEN {10 + t, 20 + t} ELSE {40 + t}

Constructor == (ETH :> <<WETH, msETH>>) @@ (BTC :> <<>>)

\* One of the tokens (perhaps moved to the other feed), both, and a null token.
GovernorLists == {<<WETH>>, <<msETH, WETH>>, <<Null>>}
=============================================================================
