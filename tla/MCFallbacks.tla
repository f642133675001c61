---------------------------- MODULE MCFallbacks ----------------------------
(***************************************************************************)
(* An instance of the oracle over Chainlink and two fallbacks for TLC.      *)
(***************************************************************************)
EXTENDS ChainlinkAndFallbacksOracle, TLC

CONSTANTS UNISWAP_V3, UNISWAP_V2, feedContract, v3Contract, v2Contract, WETH

Registry == (CHAINLINK :> feedContract) @@ (UNISWAP_V3 :> v3Contract) @@ (UNISWAP_V2 :> v2Contract)

Fallbacks == <<UNISWAP_V3, UNISWAP_V2>>

\* A provider that is taken away and one that is replaced by the other's contract.
GovernorRegistrations == {<<CHAINLINK, NoContract>>, <<UNISWAP_V2, v3Contract>>}

UnitOf(x) == 10
=============================================================================
