------------------------------ MODULE DeployHemi ------------------------------
(***************************************************************************)
(* src/deploy/hemi: the deploy scripts of the network, in file order.        *)
(***************************************************************************)
EXTENDS SetupTokenOracles

Address(key) == At(hemi, key)

Push(token, aggregator) == [token |-> Address(token), aggregator |-> Address(aggregator)]

\* The constructor has the aggregators of three tokens (and of a WBTC that the
\* address book does not name).
RedstonePushPriceProvider ==
  LET constructed ==
        <<Push("USDC", "REDSTONE_USDC_USD_AGGREGATOR"),
          Push("USDT", "REDSTONE_USDT_USD_AGGREGATOR"),
          Push("WETH", "REDSTONE_ETH_USD_AGGREGATOR")>>
  IN Script("RedstonePushPriceProvider", {},
       <<Constructs(Deploy("RedstonePushPriceProvider", "RedstoneHemiPushPriceProvider", <<>>),
                    [i \in 1..3 |-> RedstonePushAggregator(constructed[i])])>>)

RedstonePriceProvider ==
  Script("RedstonePriceProvider", {},
         <<Deploy("RedstonePriceProvider", "RedstonePriceProvider", <<>>)>>)

MainAndFallbackOracle ==
  Script("MainAndFallbackOracle", {"RedstonePushPriceProvider", "RedstonePriceProvider"},
         <<Deploy("MainAndFallbackOracle", "MainAndFallbackOracle",
                  <<DeploymentOf("RedstonePriceProvider"),
                    DeploymentOf("RedstonePushPriceProvider"), Seconds(24 * 60 * 60)>>)>>)

MasterOracle ==
  Script("MasterOracle", {"MainAndFallbackOracle"},
         <<DeployMasterOracle("MainAndFallbackOracle"), DefaultOracle("MainAndFallbackOracle")>>)

USDPeggedTokenOracle ==
  Script("USDPeggedTokenOracle", {},
         <<Deploy("USDPeggedTokenOracle", "USDPeggedTokenOracle", <<>>)>>)

setupOracles ==
  Script("setupOracles", {}, setupTokenOracles(
    [redstonePushAggregators |->
       <<Push("WETH", "REDSTONE_ETH_USD_AGGREGATOR"),
         Push("USDC", "REDSTONE_USDC_USD_AGGREGATOR"),
         Push("USDCe", "REDSTONE_USDC_USD_AGGREGATOR"),
         Push("USDT", "REDSTONE_USDT_USD_AGGREGATOR"),
         Push("msETH", "REDSTONE_ETH_USD_AGGREGATOR"),
         Push("msBTC", "REDSTONE_BTC_USD_AGGREGATOR")>>,
     customOracles |-> <<[token |-> Address("msUSD"), oracle |-> "USDPeggedTokenOracle"]>>]))

Scripts ==
  <<RedstonePushPriceProvider, RedstonePriceProvider, MainAndFallbackOracle, MasterOracle,
    USDPeggedTokenOracle, setupOracles, MultiSigTxs>>
=============================================================================
