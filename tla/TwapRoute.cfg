SPECIFICATION HSpec
CONSTANTS
  A = A
  U = U
  N = N
  Token = {A, U, N}
  NativeToken = N
  Pairs <- PairsRoute
  Periods = {2}
  Reserves <- Reserves1
  Q = 4
  TsMod = 8
  CumMod = 104
  CumStart = 90
  AvgMod = 13
  StartTime = 6
  MaxTime = 9
PROPERTIES QuoteLostOnlyByOpening
CHECK_DEADLOCK FALSE
