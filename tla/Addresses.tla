------------------------------ MODULE Addresses ------------------------------
(***************************************************************************)
(* The address book of src/helpers/address.ts: for each network, the keys   *)
(* that have an address.  Two keys of a network may name one address, and    *)
(* an address may be written without its checksum.  The table is typed       *)
(* `any', so that a key it does not have is undefined, not an error.         *)
(***************************************************************************)
EXTENDS Naturals, TLC

\* A value of a deployment: an address of the table or of a contract that the
\* deployment records (the nth it deployed under that name), or a number.
External(id, checksummed) ==
  [kind |-> "external", id |-> id, nth |-> 0, checksummed |-> checksummed]
DeploymentOf(name) == [kind |-> "deployment", id |-> name, nth |-> 0, checksummed |-> TRUE]
Seconds(n) == [kind |-> "number", id |-> "seconds", nth |-> n, checksummed |-> TRUE]
Deviation(percent) == [kind |-> "number", id |-> "percent", nth |-> percent, checksummed |-> TRUE]
AddressZero == [kind |-> "zero", id |-> "0x0", nth |-> 0, checksummed |-> TRUE]
Undefined == [kind |-> "undefined", id |-> "undefined", nth |-> 0, checksummed |-> TRUE]

Value ==
  [kind : {"external", "deployment", "number", "zero", "undefined"},
   id : STRING, nth : Nat, checksummed : BOOLEAN]

\* ethers.utils.getAddress, and what the chain answers for an address.
getAddress(value) == [value EXCEPT !.checksummed = TRUE]

\* The entries for the keys, where lowercase ones are written without checksum
\* and same[k] is another key with the address of k.
Book(keys, lowercase, same) ==
  [k \in keys |-> External(IF k \in DOMAIN same THEN same[k] ELSE k, k \notin lowercase)]

At(book, key) == IF key \in DOMAIN book THEN book[key] ELSE Undefined

NoOther == <<>>

DEPLOYER == External("DEPLOYER", TRUE)

-----------------------------------------------------------------------------
mainnetTokens ==
  Book({"ETH", "WETH", "DAI", "USDC", "USDT", "FRAX", "WBTC", "BUSD", "USDP", "STETH", "VSP",
        "RENBTC", "SBTC", "ALUSD", "WIBBTC", "MUSD", "stETH", "sUSD",
        "UNISWAP_V2_FACTORY_ADDRESS", "UNISWAP_V2_ROUTER_ADDRESS",
        "SUSHISWAP_FACTORY_ADDRESS", "SUSHISWAP_ROUTER_ADDRESS", "DOLA", "STG", "CRV", "CVX",
        "FXS", "CVXCRV", "RETH", "CBETH", "EUL", "GOVERNOR", "GNOSIS_SAFE", "rETH", "eUSD",
        "WEETH", "USDS", "WSTETH", "RSWETH", "SUSDE", "SUSDS", "ynETHx", "PYTH_ORACLE"},
       {"BUSD", "USDP", "stETH", "sUSD", "WEETH", "WSTETH", "SUSDS", "ynETHx", "PYTH_ORACLE"},
       [stETH |-> "STETH", rETH |-> "RETH", GNOSIS_SAFE |-> "GOVERNOR"])

mainnetFeeds ==
  Book({"CHAINLINK_DAI_USD_AGGREGATOR", "CHAINLINK_ETH_USD_AGGREGATOR",
        "CHAINLINK_BTC_USD_AGGREGATOR", "CHAINLINK_DOGE_USD_AGGREGATOR",
        "CHAINLINK_BUSD_USD_AGGREGATOR", "CHAINLINK_USDP_USD_AGGREGATOR",
        "CHAINLINK_STETH_USD_AGGREGATOR", "CHAINLINK_USDC_USD_AGGREGATOR",
        "CHAINLINK_FRAX_USD_AGGREGATOR", "CHAINLINK_LINK_USD_AGGREGATOR",
        "CHAINLINK_RETH_ETH_AGGREGATOR", "CHAINLINK_CBETH_ETH_AGGREGATOR",
        "NOT_ON_CHAINLINK_TOKEN", "CHAINLINK_USDS_USD_AGGREGATOR",
        "CHAINLINK_WSTETH_USD_AGGREGATOR", "CHAINLINK_RSWETH_ETH_AGGREGATOR",
        "CHAINLINK_SUSDE_USD_AGGREGATOR", "CHAINLINK_WEETH_ETH_USD_AGGREGATOR",
        "REDSTONE_WEETH_USD_AGGREGATOR"},
       {"CHAINLINK_STETH_USD_AGGREGATOR"}, NoOther)

mainnetCurve ==
  Book({"ADDRESS_PROVIDER", "TRIPOOL_LP", "TRIPOOL_POOL", "SBTC_LP", "MIM_3CRV_LP", "SUSD_LP",
        "D3_LP", "CVX_CRV_POOL", "CVX_ETH_POOL", "ETH_USDT_POOL", "CVXCRV_FRAX_POOL",
        "FRAX_3CRV_LP", "IBBTC_SBTC_LP", "MUSD_LP", "MUSD_POOL", "AAVE_LP", "GUSD_LP", "BUSD_LP",
        "BUSD_POOL", "PAX_LP", "PAX_POOL", "Y_LP", "Y_POOL", "COMPOUND_LP", "COMPOUND_POOL",
        "USDT_LP", "USDT_POOL", "DOLA_3CRV_LP", "REN_LP", "FRAX_USDC_LP", "DOLA_FRAXBP_LP",
        "STG_USDC_POOL", "FRAX_3CRV_POOL", "FRAXBP_POOL", "FRAXBPZAP", "CRV_ETH_POOL",
        "EUSD_FRAXBP_POOL", "DOLA_FRAXPYUSD_LP", "eUSD_USDC_POOL", "ynETHx_WETH_POOL"},
       {"TRIPOOL_LP", "TRIPOOL_POOL", "MUSD_POOL", "DOLA_3CRV_LP", "STG_USDC_POOL",
        "FRAX_3CRV_POOL", "FRAXBP_POOL", "EUSD_FRAXBP_POOL"},
       [FRAX_3CRV_POOL |-> "FRAX_3CRV_LP"])

mainnetLending ==
  Book({"CDAI", "CUSDC", "CETH", "UMBRELLA_REGISTRY", "UMB_ADDRESS", "ADAI", "AUSDC", "AUSDT"},
       {"UMBRELLA_REGISTRY", "UMB_ADDRESS"}, NoOther)

mainnetVaults ==
  Book({"yDAIv3", "yUSDCv3", "yUSDTv3", "yBUSD", "ycDAI", "ycUSDC", "ycUSDT", "yDAI", "yUSDC",
        "yUSDT", "yTUSD", "vaUSDC", "vaDAI", "vaFRAX", "vaETH", "vaWBTC", "vaLINK", "vastETH",
        "varETH", "vacbETH", "msUSD", "msETH", "msBTC", "msDOGE", "frxETH", "sFrxETH",
        "TBY_MAR24_A", "EXCHANGE_REGISTRY"}, {}, NoOther)

mainnet == mainnetTokens @@ mainnetFeeds @@ mainnetCurve @@ mainnetLending @@ mainnetVaults

optimism ==
  Book({"USDC", "WETH", "WBTC", "OP", "DAI", "WSTETH", "GOVERNOR", "GNOSIS_SAFE", "EZETH",
        "ADDRESS_PROVIDER", "SETH_ETH_LP", "SUSD_LP", "WSTETH_ETH_LP", "FRAXBP_USDC_LP",
        "CHAINLINK_ETH_USD_AGGREGATOR", "CHAINLINK_USDC_USD_AGGREGATOR",
        "CHAINLINK_OP_USD_AGGREGATOR", "CHAINLINK_WSTETH_USD_AGGREGATOR",
        "CHAINLINK_EZETH_ETH_AGGREGATOR", "vaUSDC", "vaETH", "vaOP", "vawstETH", "msUSD",
        "msETH", "msOP", "PYTH_ORACLE"},
       {"WSTETH", "SETH_ETH_LP", "FRAXBP_USDC_LP"}, [GNOSIS_SAFE |-> "GOVERNOR"])

base ==
  Book({"USDC", "WETH", "WBTC", "DAI", "CBETH", "WSTETH", "GOVERNOR", "GNOSIS_SAFE", "EZETH",
        "wsuperOETHb", "superOETHb", "CHAINLINK_ETH_USD_AGGREGATOR",
        "CHAINLINK_USDC_USD_AGGREGATOR", "CHAINLINK_WBTC_USD_AGGREGATOR",
        "CHAINLINK_CBETH_USD_AGGREGATOR", "CHAINLINK_WSTETH_ETH_AGGREGATOR",
        "CHAINLINK_EZETH_ETH_AGGREGATOR", "CHAINLINK_SUPER_OETH_B_AGGREGATOR", "msUSD", "msETH",
        "vaUSDC", "vaETH", "vacbETH", "vawstETH", "PYTH_ORACLE"},
       {}, [GNOSIS_SAFE |-> "GOVERNOR"])

\* The governor is the deployer's own account, and there is no Safe.
swell ==
  [GOVERNOR |-> DEPLOYER, GNOSIS_SAFE |-> AddressZero]
  @@ Book({"WETH", "USDC", "REDSTONE_USDC_USD_AGGREGATOR", "REDSTONE_ETH_USDC_AGGREGATOR",
           "msETH"}, {}, NoOther)

hemi ==
  Book({"WETH", "USDC", "USDCe", "USDT", "GOVERNOR", "GNOSIS_SAFE",
        "REDSTONE_USDC_USD_AGGREGATOR", "REDSTONE_USDT_USD_AGGREGATOR",
        "REDSTONE_ETH_USD_AGGREGATOR", "REDSTONE_BTC_USD_AGGREGATOR", "msETH", "msUSD",
        "msBTC"}, {}, [GNOSIS_SAFE |-> "GOVERNOR"])
=============================================================================
