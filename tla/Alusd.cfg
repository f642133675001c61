SPECIFICATION Spec
CONSTANTS
  ALUSD = ALUSD
  WETH = WETH
  DAI = DAI
  USDC = USDC
  Token = {ALUSD, WETH, DAI, USDC}
  Pairs <- SushiPairs
  Reserves <- Even
  Q = 2
  AvgMod = 3
  TsMod = 32
  CumMod = 96
  CumStart = 0
  Periods = {0, 2}
  Decimals <- CoinDecimals
  UsdDecimals = 2
  CoinPrices = {80, 100}
  Whole = 10
  MaxDeviation = 1
  CoinStalePeriod = 9
  Primary = DAI
  Secondary = USDC
  StableCoins = {DAI, USDC}
  StalePeriod = 2
  Moving = {DAI}
  Traded <- AlusdPairs
  Others <- DaiPairs
  StartTime = 10
  MaxTime = 14
INVARIANTS TypeOK PricedInThePrimaryCoin UpdatedTogetherLegsStayClose
CHECK_DEADLOCK FALSE
