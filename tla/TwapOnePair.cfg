SPECIFICATION HSpec
CONSTANTS
  A = A
  U = U
  N = N
  Token = {A, U, N}
  NativeToken = N
  Pairs <- PairAU
  Periods = {0, 3}
  Reserves <- Reserves2
  Q = 4
  TsMod = 8
  CumMod = 104
  CumStart = 90
  AvgMod = 13
  StartTime = 5
  MaxTime = 11
INVARIANTS HTypeOK CutsExact CastNeverTruncates
PROPERTIES ImplementsTwap SameBlockTradesHaveNoWeight OraclesOutliveUpdates
CHECK_DEADLOCK FALSE
