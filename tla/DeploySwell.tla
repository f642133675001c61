----------------------------- MODULE DeploySwell -----------------------------
(***************************************************************************)
(* src/deploy/swell: the deploy scripts of the network, in file order.       *)
(***************************************************************************)
EXTENDS SetupTokenOracles

Address(key) == At(swell, key)

ChainlinkPriceProvider ==
  Script("ChainlinkPriceProvider", {},
         <<Deploy("ChainlinkPriceProvider", "ChainlinkPriceProvider", <<>>)>>)

RedstonePriceProvider ==
  Script("RedstonePriceProvider", {},
         <<Deploy("RedstonePriceProvider", "RedstonePriceProvider", <<>>)>>)

MainAndFallbackOracle ==
  Script("MainAndFallbackOracle", {"ChainlinkPriceProvider", "RedstonePriceProvider"},
         <<Deploy("MainAndFallbackOracle", "MainAndFallbackOracle",
                  <<DeploymentOf("RedstonePriceProvider"),
                    DeploymentOf("ChainlinkPriceProvider"), Seconds(24 * 60 * 60)>>)>>)

MasterOracle ==
  Script("MasterOracle", {"MainAndFallbackOracle"},
         <<DeployMasterOracle("MainAndFallbackOracle"), DefaultOracle("MainAndFallbackOracle")>>)

RedstoneUsdcOnlyTokenOracle ==
  Script("RedstoneUsdcOnlyTokenOracle", {},
         <<Deploy("RedstoneUsdcOnlyTokenOracle", "RedstoneUsdcOnlyTokenOracle",
                  <<Address("USDC")>>)>>)

setupOracles ==
  Script("setupOracles", {}, setupTokenOracles(
    [chainlinkAggregators |->
       <<[token |-> Address("USDC"), aggregator |-> Address("REDSTONE_USDC_USD_AGGREGATOR")]>>,
     redstoneUsdcOnly |->
       <<[token |-> Address("WETH"), usdcFeed |-> Address("REDSTONE_ETH_USDC_AGGREGATOR")],
         [token |-> Address("msETH"), usdcFeed |-> Address("REDSTONE_ETH_USDC_AGGREGATOR")]>>]))

Scripts ==
  <<ChainlinkPriceProvider, RedstonePriceProvider, MainAndFallbackOracle, MasterOracle,
    RedstoneUsdcOnlyTokenOracle, setupOracles, MultiSigTxs>>
=============================================================================
