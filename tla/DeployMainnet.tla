---------------------------- MODULE DeployMainnet ----------------------------
(***************************************************************************)
(* src/deploy/mainnet: the deploy scripts of the network, in file order.     *)
(***************************************************************************)
EXTENDS SetupTokenOracles

Address(key) == At(mainnet, key)

\* A script that only deploys an artifact of its own name.
Plain(name, args) == Script(name, {}, <<Deploy(name, name, args)>>)

ChainlinkPriceProvider ==
  Script("ChainlinkPriceProvider", {},
         <<Deploy("ChainlinkPriceProvider", "ChainlinkFeedPriceProvider", <<>>)>>)

UniswapV2PriceProvider ==
  Script("UniswapV2PriceProvider", {},
         <<Deploy("UniswapV2PriceProvider", "UniswapV2LikePriceProvider",
                  <<Address("UNISWAP_V2_FACTORY_ADDRESS"), Seconds(2 * 60 * 60),
                    Address("WETH")>>)>>)

SushiswapPriceProvider ==
  Script("SushiswapPriceProvider", {},
         <<Deploy("SushiswapPriceProvider", "UniswapV2LikePriceProvider",
                  <<Address("SUSHISWAP_FACTORY_ADDRESS"), Seconds(2 * 60 * 60),
                    Address("WETH")>>)>>)

PriceProvidersAggregator ==
  LET Provides(provider, name) ==
        Set("PriceProvidersAggregator", "priceProviders", provider, DeploymentOf(name))
  IN Script("PriceProvidersAggregator",
            {"ChainlinkPriceProvider", "UniswapV2PriceProvider", "SushiswapPriceProvider"},
            <<Deploy("PriceProvidersAggregator", "PriceProvidersAggregator", <<Address("WETH")>>),
              Provides(Provider.CHAINLINK, "ChainlinkPriceProvider"),
              Provides(Provider.UNISWAP_V2, "UniswapV2PriceProvider"),
              Provides(Provider.SUSHISWAP, "SushiswapPriceProvider")>>)

StableCoinProvider ==
  Script("StableCoinProvider", {"PriceProvidersAggregator"},
         <<Deploy("StableCoinProvider", "StableCoinProvider",
                  <<Address("USDC"), Address("DAI"), Seconds(24 * 60 * 60), Deviation(1)>>)>>)

VspOracle ==
  Script("VspOracle", {},
         <<Deploy("VspOracle", "VspMainnetOracle", <<Deviation(5), Seconds(2 * 60 * 60)>>)>>)

ChainlinkOracle == Plain("ChainlinkOracle", <<Seconds(4 * 60 * 60)>>)

\* The new default oracle is proposed at once, which ends the run, because
\* setupTokenOracles needs it in place.
MasterOracle ==
  Script("MasterOracle", {"ChainlinkOracle"},
         <<Once(DeployMasterOracle("ChainlinkOracle")), AtOnce(DefaultOracle("ChainlinkOracle"))>>)

CurveLpTokenOracle ==
  Plain("CurveLpTokenOracle", <<Address("ADDRESS_PROVIDER"), Address("WETH")>>)

CurveFactoryLpTokenOracle == Plain("CurveFactoryLpTokenOracle", <<Address("WETH")>>)

MStableTokenOracle == Plain("MStableTokenOracle", <<>>)

BTCPeggedTokenOracle ==
  Plain("BTCPeggedTokenOracle",
        <<Address("CHAINLINK_BTC_USD_AGGREGATOR"), Seconds(60 * 60)>>)

IbBtcTokenOracle ==
  Script("IbBtcTokenOracle", {"BTCPeggedTokenOracle"},
         <<Deploy("IbBtcTokenOracle", "IbBtcTokenOracle",
                  <<DeploymentOf("BTCPeggedTokenOracle")>>)>>)

AlusdTokenMainnetOracle ==
  Script("AlusdTokenMainnetOracle", {},
         <<Deploy("AlusdTokenMainnetOracle", "AlusdTokenMainnetOracle",
                  <<Seconds(4 * 60 * 60)>>),
           UpdateIfNew("AlusdTokenMainnetOracle")>>)

ATokenOracle == Plain("ATokenOracle", <<>>)

CTokenOracle == Plain("CTokenOracle", <<Address("WETH")>>)

YEarnTokenOracle == Plain("YEarnTokenOracle", <<>>)

USDPeggedTokenOracle == Plain("USDPeggedTokenOracle", <<>>)

VPoolTokenOracle == Plain("VPoolTokenOracle", <<>>)

VTokenFraxLendOracle ==
  LET Lends(name, feed, vault) ==
        Deploy(name, "VTokenFraxLendOracle", <<Address(feed), Address(vault)>>)
  IN Script("VTokenFraxLendOracle", {},
       <<Lends("VTokenFraxLendOracle_vaUSDC", "CHAINLINK_USDC_USD_AGGREGATOR", "vaUSDC"),
         Lends("VTokenFraxLendOracle_vaDAI", "CHAINLINK_DAI_USD_AGGREGATOR", "vaDAI"),
         Lends("VTokenFraxLendOracle_vaETH", "CHAINLINK_ETH_USD_AGGREGATOR", "vaETH"),
         Lends("VTokenFraxLendOracle_vastETH", "CHAINLINK_STETH_USD_AGGREGATOR", "vastETH")>>)

SFraxEthTokenOracle == Plain("SFraxEthTokenOracle", <<>>)

ChainlinkEthOnlyTokenOracle == Plain("ChainlinkEthOnlyTokenOracle", <<Address("WETH")>>)

TBYOracle == Plain("TBYOracle", <<Address("EXCHANGE_REGISTRY")>>)

CurveLpTokenOracleV2 == Plain("CurveLpTokenOracleV2", <<Address("WETH")>>)

PythPriceProvider ==
  Script("PythPriceProvider", {},
         <<Deploy("PythPriceProvider", "PythMainnetPriceProvider", <<Address("PYTH_ORACLE")>>)>>)

PythOracle ==
  Script("PythOracle", {"PythPriceProvider"},
         <<Deploy("PythOracle", "PullOracle", <<DeploymentOf("PythPriceProvider")>>)>>)

ERC4626TokenOracle == Plain("ERC4626TokenOracle", <<>>)

-----------------------------------------------------------------------------
\* 98_setup_token_oracles.ts

chainlinkAggregators ==
  LET Chainlink(token, aggregator) ==
        [token |-> Address(token), aggregator |-> Address(aggregator)]
  IN <<Chainlink("RENBTC", "CHAINLINK_BTC_USD_AGGREGATOR"),
       Chainlink("SBTC", "CHAINLINK_BTC_USD_AGGREGATOR"),
       Chainlink("msETH", "CHAINLINK_ETH_USD_AGGREGATOR"),
       Chainlink("msBTC", "CHAINLINK_BTC_USD_AGGREGATOR"),
       Chainlink("stETH", "CHAINLINK_STETH_USD_AGGREGATOR"),
       Chainlink("USDS", "CHAINLINK_USDS_USD_AGGREGATOR"),
       Chainlink("WSTETH", "CHAINLINK_WSTETH_USD_AGGREGATOR"),
       Chainlink("SUSDE", "CHAINLINK_SUSDE_USD_AGGREGATOR")>>

curveLpTokens ==
  LET Coins(token) == [token |-> Address(token), isLending |-> FALSE]
      Lending(token) == [token |-> Address(token), isLending |-> TRUE]
  IN <<Coins("TRIPOOL_LP"), Coins("MIM_3CRV_LP"), Coins("FRAX_3CRV_LP"), Coins("SUSD_LP"),
       Coins("MUSD_LP"), Coins("SBTC_LP"), Coins("AAVE_LP"), Lending("COMPOUND_LP"),
       Lending("USDT_LP"), Lending("BUSD_LP"), Lending("PAX_LP"), Lending("Y_LP"),
       Coins("REN_LP"), Coins("FRAX_USDC_LP")>>

Addressed(keys) == [i \in DOMAIN keys |-> Address(keys[i])]

curveLpTokensV2 == Addressed(<<"DOLA_FRAXPYUSD_LP", "eUSD_USDC_POOL", "ynETHx_WETH_POOL">>)

curveFactoryLps ==
  Addressed(<<"IBBTC_SBTC_LP", "D3_LP", "DOLA_3CRV_LP", "DOLA_FRAXBP_LP", "EUSD_FRAXBP_POOL">>)

customOracles ==
  LET Custom(keys, oracle) ==
        [i \in DOMAIN keys |-> [token |-> Address(keys[i]), oracle |-> oracle]]
  IN Custom(<<"MUSD">>, "MStableTokenOracle")
     \o Custom(<<"WIBBTC">>, "IbBtcTokenOracle")
     \o Custom(<<"ALUSD">>, "AlusdTokenMainnetOracle")
     \o Custom(<<"CDAI", "CUSDC", "CETH">>, "CTokenOracle")
     \o Custom(<<"ADAI", "AUSDC", "AUSDT">>, "ATokenOracle")
     \o Custom(<<"vaUSDC", "vaDAI", "vaFRAX", "vaETH", "vastETH", "vaWBTC", "vaLINK", "varETH",
                 "vacbETH">>, "VPoolTokenOracle")
     \o Custom(<<"yDAIv3", "yUSDCv3", "yUSDTv3", "yBUSD", "ycDAI", "ycUSDC", "ycUSDT", "yDAI",
                 "yUSDC", "yUSDT", "yTUSD">>, "YEarnTokenOracle")
     \o Custom(<<"msUSD", "DOLA", "eUSD">>, "USDPeggedTokenOracle")
     \o Custom(<<"sFrxETH">>, "SFraxEthTokenOracle")
     \o Custom(<<"SUSDS", "ynETHx">>, "ERC4626TokenOracle")

customStalePeriods ==
  LET Day(token) == [token |-> Address(token), stalePeriod |-> Seconds(24 * 60 * 60)]
  IN <<Day("USDT"), Day("USDC"), Day("sUSD"), Day("FRAX"), Day("msDOGE")>>

chainlinkEthOnly ==
  LET EthOnly(token, feed) == [token |-> Address(token), ethFeed |-> Address(feed)]
  IN <<EthOnly("rETH", "CHAINLINK_RETH_ETH_AGGREGATOR"),
       EthOnly("CBETH", "CHAINLINK_CBETH_ETH_AGGREGATOR"),
       EthOnly("RSWETH", "CHAINLINK_RSWETH_ETH_AGGREGATOR"),
       EthOnly("WEETH", "CHAINLINK_WEETH_ETH_USD_AGGREGATOR")>>

setupOracles ==
  Script("setupOracles", {}, setupTokenOracles(
    [customOracles |-> customOracles, chainlinkAggregators |-> chainlinkAggregators,
     curveLpTokens |-> curveLpTokens, curveLpTokensV2 |-> curveLpTokensV2,
     curveFactoryLps |-> curveFactoryLps, customStalePeriods |-> customStalePeriods,
     chainlinkEthOnly |-> chainlinkEthOnly]))

Scripts ==
  <<ChainlinkPriceProvider, UniswapV2PriceProvider, SushiswapPriceProvider,
    PriceProvidersAggregator, StableCoinProvider, VspOracle, ChainlinkOracle, MasterOracle,
    CurveLpTokenOracle, CurveFactoryLpTokenOracle, MStableTokenOracle, BTCPeggedTokenOracle,
    IbBtcTokenOracle, AlusdTokenMainnetOracle, ATokenOracle, CTokenOracle, YEarnTokenOracle,
    USDPeggedTokenOracle, VPoolTokenOracle, VTokenFraxLendOracle, SFraxEthTokenOracle,
    ChainlinkEthOnlyTokenOracle, TBYOracle, CurveLpTokenOracleV2, PythPriceProvider,
    PythOracle, ERC4626TokenOracle, setupOracles, MultiSigTxs>>
=============================================================================
