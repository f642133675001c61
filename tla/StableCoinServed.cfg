SPECIFICATION Spec
CONSTANTS
  DAI = DAI
  USDC = USDC
  USDT = USDT
  Token = {DAI, USDC, USDT}
  Primary = DAI
  Secondary = USDC
  Decimals <- CoinDecimals
  UsdDecimals = 2
  CoinPrices = {0, 97, 106}
  Whole = 100
  MaxDeviation = 5
  Deviations = {0}
  StalePeriod = 1
  StalePeriods = {2}
  StartTime = 4
  MaxTime = 6
INVARIANT ServedCoinIsWorthOneUsd
CHECK_DEADLOCK FALSE
