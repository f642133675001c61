---------------------------- MODULE DeployOptimism ----------------------------
(***************************************************************************)
(* src/deploy/optimism: the deploy scripts of the network, in file order.    *)
(***************************************************************************)
EXTENDS SetupTokenOracles

Address(key) == At(optimism, key)

ChainlinkPriceProvider ==
  Script("ChainlinkPriceProvider", {},
         <<Deploy("ChainlinkPriceProvider", "ChainlinkOptimismPriceProvider", <<>>)>>)

PriceProvidersAggregator ==
  Script("PriceProvidersAggregator", {"ChainlinkPriceProvider"},
         <<Deploy("PriceProvidersAggregator", "PriceProvidersAggregator", <<Address("WETH")>>),
           Set("PriceProvidersAggregator", "priceProviders", Provider.CHAINLINK,
               DeploymentOf("ChainlinkPriceProvider"))>>)

ChainlinkOracle ==
  Script("ChainlinkOracle", {"PriceProvidersAggregator"},
         <<Deploy("ChainlinkOracle", "ChainlinkOracle", <<Seconds(24 * 60 * 60)>>)>>)

MasterOracle ==
  Script("MasterOracle", {"ChainlinkOracle"},
         <<Once(DeployMasterOracle("ChainlinkOracle")), DefaultOracle("ChainlinkOracle")>>)

USDPeggedTokenOracle ==
  Script("USDPeggedTokenOracle", {},
         <<Deploy("USDPeggedTokenOracle", "USDPeggedTokenOracle", <<>>)>>)

CurveLpTokenOracle ==
  Script("CurveLpTokenOracle", {},
         <<Deploy("CurveLpTokenOracle", "CurveLpTokenOracle",
                  <<Address("ADDRESS_PROVIDER"), Address("WETH")>>)>>)

CurveFactoryLpTokenOracle ==
  Script("CurveFactoryLpTokenOracle", {},
         <<Deploy("CurveFactoryLpTokenOracle", "CurveFactoryLpTokenOracle",
                  <<Address("WETH")>>)>>)

VPoolTokenOracle ==
  Script("VPoolTokenOracle", {}, <<Deploy("VPoolTokenOracle", "VPoolTokenOracle", <<>>)>>)

ChainlinkEthOnlyTokenOracle ==
  Script("ChainlinkEthOnlyTokenOracle", {},
         <<Deploy("ChainlinkEthOnlyTokenOracle", "ChainlinkEthOnlyTokenOracle",
                  <<Address("WETH")>>)>>)

setupOracles ==
  LET Chainlink(token, aggregator) ==
        [token |-> Address(token), aggregator |-> Address(aggregator)]
      Lp(token) == [token |-> Address(token), isLending |-> FALSE]
      Custom(token, oracle) == [token |-> Address(token), oracle |-> oracle]
  IN Script("setupOracles", {}, setupTokenOracles(
       [chainlinkAggregators |->
          <<Chainlink("SETH_ETH_LP", "CHAINLINK_ETH_USD_AGGREGATOR"),
            Chainlink("SUSD_LP", "CHAINLINK_USDC_USD_AGGREGATOR"),
            Chainlink("WSTETH", "CHAINLINK_WSTETH_USD_AGGREGATOR"),
            Chainlink("msETH", "CHAINLINK_ETH_USD_AGGREGATOR"),
            Chainlink("msOP", "CHAINLINK_OP_USD_AGGREGATOR")>>,
        curveLpTokens |-> <<Lp("WSTETH_ETH_LP"), Lp("FRAXBP_USDC_LP")>>,
        customOracles |->
          <<Custom("vaUSDC", "VPoolTokenOracle"), Custom("vaETH", "VPoolTokenOracle"),
            Custom("vaOP", "VPoolTokenOracle"), Custom("vawstETH", "VPoolTokenOracle"),
            Custom("msUSD", "USDPeggedTokenOracle")>>,
        chainlinkEthOnly |->
          <<[token |-> Address("EZETH"), ethFeed |-> Address("CHAINLINK_EZETH_ETH_AGGREGATOR")]>>]))

Scripts ==
  <<ChainlinkPriceProvider, PriceProvidersAggregator, ChainlinkOracle, MasterOracle,
    USDPeggedTokenOracle, CurveLpTokenOracle, CurveFactoryLpTokenOracle, VPoolTokenOracle,
    ChainlinkEthOnlyTokenOracle, setupOracles, MultiSigTxs>>
=============================================================================
