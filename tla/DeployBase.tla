------------------------------ MODULE DeployBase ------------------------------
(***************************************************************************)
(* src/deploy/base: the deploy scripts of the network, in file order.        *)
(***************************************************************************)
EXTENDS SetupTokenOracles

Address(key) == At(base, key)

ChainlinkPriceProvider ==
  Script("ChainlinkPriceProvider", {},
         <<Deploy("ChainlinkPriceProvider", "ChainlinkBasePriceProvider", <<>>)>>)

PriceProvidersAggregator ==
  Script("PriceProvidersAggregator", {"ChainlinkPriceProvider"},
         <<Deploy("PriceProvidersAggregator", "PriceProvidersAggregator", <<Address("WETH")>>),
           Set("PriceProvidersAggregator", "priceProviders", Provider.CHAINLINK,
               DeploymentOf("ChainlinkPriceProvider"))>>)

ChainlinkOracle ==
  Script("ChainlinkOracle", {"PriceProvidersAggregator"},
         <<Deploy("ChainlinkOracle", "ChainlinkOracle", <<Seconds(24 * 60 * 60)>>)>>)

MasterOracle ==
  Script("MasterOracle", {"ChainlinkOracle"},
         <<Once(DeployMasterOracle("ChainlinkOracle")), DefaultOracle("ChainlinkOracle")>>)

USDPeggedTokenOracle ==
  Script("USDPeggedTokenOracle", {},
         <<Deploy("USDPeggedTokenOracle", "USDPeggedTokenOracle", <<>>)>>)

VPoolTokenOracle ==
  Script("VPoolTokenOracle", {}, <<Deploy("VPoolTokenOracle", "VPoolTokenOracle", <<>>)>>)

ChainlinkEthOnlyTokenOracle ==
  Script("ChainlinkEthOnlyTokenOracle", {},
         <<Deploy("ChainlinkEthOnlyTokenOracle", "ChainlinkEthOnlyTokenOracle",
                  <<Address("WETH")>>)>>)

ERC4626TokenOracle ==
  Script("ERC4626TokenOracle", {}, <<Deploy("ERC4626TokenOracle", "ERC4626TokenOracle", <<>>)>>)

setupOracles ==
  LET Chainlink(token, aggregator) ==
        [token |-> Address(token), aggregator |-> Address(aggregator)]
      Custom(token, oracle) == [token |-> Address(token), oracle |-> oracle]
      EthOnly(token, feed) == [token |-> Address(token), ethFeed |-> Address(feed)]
  IN Script("setupOracles", {}, setupTokenOracles(
       [chainlinkAggregators |->
          <<Chainlink("msETH", "CHAINLINK_ETH_USD_AGGREGATOR"),
            Chainlink("CBETH", "CHAINLINK_CBETH_USD_AGGREGATOR")>>,
        customOracles |->
          <<Custom("vaUSDC", "VPoolTokenOracle"), Custom("vaETH", "VPoolTokenOracle"),
            Custom("vacbETH", "VPoolTokenOracle"), Custom("vawstETH", "VPoolTokenOracle"),
            Custom("msUSD", "USDPeggedTokenOracle"),
            Custom("wsuperOETHb", "ERC4626TokenOracle")>>,
        chainlinkEthOnly |->
          <<EthOnly("WSTETH", "CHAINLINK_WSTETH_ETH_AGGREGATOR"),
            EthOnly("EZETH", "CHAINLINK_EZETH_ETH_AGGREGATOR"),
            EthOnly("superOETHb", "CHAINLINK_SUPER_OETH_B_AGGREGATOR")>>]))

Scripts ==
  <<ChainlinkPriceProvider, PriceProvidersAggregator, ChainlinkOracle, MasterOracle,
    USDPeggedTokenOracle, VPoolTokenOracle, ChainlinkEthOnlyTokenOracle, ERC4626TokenOracle,
    setupOracles, MultiSigTxs>>
=============================================================================
