--------------------- MODULE UniswapV2LikePriceProvider ---------------------
(***************************************************************************)
(* src/contracts/core/UniswapV2LikePriceProvider.sol: time-weighted average *)
(* prices read from the cumulative price accumulators of UniswapV2 pairs.   *)
(*                                                                          *)
(* The pairs are external contracts (@uniswap/v2-core) and are modelled as  *)
(* far as the provider depends on them: reserves, the two accumulators and  *)
(* the 32-bit time of their last update.  A transaction is one step; one    *)
(* that reverts changes nothing and is no step.                             *)
(*                                                                          *)
(* Integer widths are constants, so that small instances reach the wraps:   *)
(* TsMod is 2^32, CumMod 2^256, AvgMod 2^224, and Q = 2^112 is the          *)
(* fixed-point scale of uq112x112.                                          *)
(***************************************************************************)
EXTENDS Integers

CONSTANTS
  Token,             \* the ERC-20 tokens
  NativeToken,       \* the wrapped native token the two-leg quotes go through
  Pairs,             \* the factory's pairs, each <<token0, token1>>
  Periods,           \* the TWAP periods callers use
  Reserves,          \* the reserves trades leave, each <<reserve0, reserve1>>
  Q, TsMod, CumMod, AvgMod,
  CumStart,          \* the accumulators of the pairs that are already trading
  StartTime, MaxTime \* the seconds the model runs through

Side == {0, 1}

Empty == <<0, 0>>    \* the reserves of a pair nobody has minted yet

NoPair == <<>>       \* getPair's address(0)

\* The pair's spot price of each token in the other, as uq112x112.
Spot(reserves) ==
  [s \in Side |->
     IF reserves = Empty THEN 0
     ELSE IF s = 0 THEN (reserves[2] * Q) \div reserves[1]
                   ELSE (reserves[1] * Q) \div reserves[2]]

ASSUME PairsAssumption ==
  /\ Pairs \subseteq Token \X Token
  /\ \A p \in Pairs : p[1] # p[2] /\ <<p[2], p[1]>> \notin Pairs

ASSUME PeriodsAssumption == Periods \subseteq Nat /\ Periods # {}

\* Reserves are 112 bits wide, as is the scale of the prices.
ASSUME ReservesAssumption ==
  /\ Reserves \subseteq (Nat \ {0}) \X (Nat \ {0})
  /\ \A r \in Reserves : r[1] < Q /\ r[2] < Q

ASSUME WidthAssumption ==
  /\ Q \in Nat \ {0} /\ TsMod \in Nat \ {0}
  /\ CumMod \in Nat \ {0} /\ AvgMod \in Nat \ {0}

\* A spot price of 112-bit reserves fits in 224 bits, and 32 bits of seconds of
\* it fit in 256.
ASSUME SpotAssumption ==
  /\ \A r \in Reserves : \A s \in Side : Spot(r)[s] < AvgMod
  /\ AvgMod * TsMod <= CumMod
  /\ CumStart \in 0..(CumMod - 1)

\* The model runs for less than one turn of the 32-bit clock (136 years); it
\* may start right before the clock wraps.
ASSUME HorizonAssumption ==
  /\ StartTime \in Nat /\ MaxTime \in Nat
  /\ StartTime <= MaxTime /\ MaxTime - StartTime < TsMod

VARIABLES
  now,               \* block.timestamp
  pair,              \* pair[p]: the state of the external pair contract
  oracles,           \* oracles[p][k]: the provider's Oracle struct
  defaultTwapPeriod

vars == <<now, pair, oracles, defaultTwapPeriod>>

Zero == [s \in Side |-> 0]

\* A struct that was never written; token0 and token1 are those of the pair.
NoOracle == [cumulativeLast |-> Zero, blockTimestampLast |-> 0, average |-> Zero]

PairState ==
  [reserves : Reserves \cup {Empty}, cumulativeLast : [Side -> 0..(CumMod - 1)],
   blockTimestampLast : 0..(TsMod - 1)]

OracleState ==
  [cumulativeLast : [Side -> 0..(CumMod - 1)], blockTimestampLast : 0..(TsMod - 1),
   average : [Side -> 0..(AvgMod - 1)]]

TypeOK ==
  /\ now \in StartTime..MaxTime
  /\ pair \in [Pairs -> PairState]
  /\ oracles \in [Pairs -> [Periods -> OracleState]]
  /\ defaultTwapPeriod \in Periods

\* A pair created and not minted, and one that has traded for long and last in
\* the block the provider was deployed in.
NewPair == [reserves |-> Empty, cumulativeLast |-> Zero, blockTimestampLast |-> 0]

TradingPair(r) ==
  [reserves |-> r, cumulativeLast |-> [s \in Side |-> CumStart],
   blockTimestampLast |-> StartTime % TsMod]

Init ==
  /\ now = StartTime
  /\ pair \in [Pairs -> {NewPair} \cup {TradingPair(r) : r \in Reserves}]
  /\ oracles = [p \in Pairs |-> [k \in Periods |-> NoOracle]]
  /\ defaultTwapPeriod \in Periods

-----------------------------------------------------------------------------
\* The pair contracts.

\* Seconds since a recorded 32-bit time; the subtraction wraps.
Elapsed(timestamp) == (now - timestamp) % TsMod

\* UniswapV2OracleLibrary.currentCumulativePrices: the accumulators as an
\* update of the pair in this block would leave them.
CurrentCumulative(p) ==
  [s \in Side |->
     (pair[p].cumulativeLast[s]
        + Spot(pair[p].reserves)[s] * Elapsed(pair[p].blockTimestampLast)) % CumMod]

\* A block with a later timestamp.
Tick ==
  /\ now < MaxTime
  /\ now' = now + 1
  /\ UNCHANGED <<pair, oracles, defaultTwapPeriod>>

\* Any swap, mint, burn or sync: the price that held so far is accumulated
\* before the reserves change.
Trade(p, reserves) ==
  /\ pair' = [pair EXCEPT ![p] = [reserves |-> reserves,
                                  cumulativeLast |-> CurrentCumulative(p),
                                  blockTimestampLast |-> now % TsMod]]
  /\ UNCHANGED <<now, oracles, defaultTwapPeriod>>

-----------------------------------------------------------------------------
\* The provider.

HasOracle(p, k) == p # NoPair /\ oracles[p][k].blockTimestampLast > 0

PairFor(a, b) ==
  IF <<a, b>> \in Pairs THEN <<a, b>> ELSE IF <<b, a>> \in Pairs THEN <<b, a>> ELSE NoPair

\* Mutant: the accumulators of the last trade with the time of this block.
NewOracle_CutNow(p) ==
  [cumulativeLast |-> pair[p].cumulativeLast,
   blockTimestampLast |-> now % TsMod,
   average |-> Zero]

\* _addOracleFor starts from the pair's own last checkpoint, not from now.
NewOracle(p) ==
  [cumulativeLast |-> pair[p].cumulativeLast,
   blockTimestampLast |-> pair[p].blockTimestampLast,
   average |-> Zero]

\* Mutant: the time is stored without its cast to 32 bits.
Updated_NoCast(p, o) ==
  [cumulativeLast |-> CurrentCumulative(p),
   blockTimestampLast |-> now,
   average |-> o.average]

\* The mean price since the struct o was cut, before its cast to 224 bits.
Mean(p, o) ==
  [s \in Side |->
     ((CurrentCumulative(p)[s] - o.cumulativeLast[s]) % CumMod) \div Elapsed(o.blockTimestampLast)]

\* Mutant: the pair's accumulators are read without the price pending since its
\* last trade.
Updated_NotCurrent(p, o) ==
  [cumulativeLast |-> pair[p].cumulativeLast,
   blockTimestampLast |-> now % TsMod,
   average |-> [s \in Side |->
     (((pair[p].cumulativeLast[s] - o.cumulativeLast[s]) % CumMod)
        \div Elapsed(o.blockTimestampLast)) % AvgMod]]

\* Mutant: the struct is written anew without its time.
Updated_NoTime(p, o) ==
  [cumulativeLast |-> CurrentCumulative(p), blockTimestampLast |-> 0,
   average |-> o.average]

\* _updateIfNeeded past its early return: close the window that began at o.
Updated(p, o) ==
  [cumulativeLast |-> CurrentCumulative(p),
   blockTimestampLast |-> now % TsMod,
   average |-> [s \in Side |-> Mean(p, o)[s] % AvgMod]]

\* Mutant: every call starts a new oracle.
UpdateOrAdd_AddsAlways(p, k) ==
  LET o == NewOracle(p)
      timeElapsed == Elapsed(o.blockTimestampLast)
  IN /\ pair[p].reserves # Empty
     /\ timeElapsed >= k => timeElapsed > 0
     /\ oracles' = [oracles EXCEPT ![p][k] = IF timeElapsed < k THEN o ELSE Updated(p, o)]
     /\ UNCHANGED <<now, pair, defaultTwapPeriod>>

\* The window a call of updateOrAdd works on: the oracle's own, or the one that
\* _addOracleFor opens.
Current(p, k) == IF HasOracle(p, k) THEN oracles[p][k] ELSE NewOracle(p)

\* updateOrAdd reverts on a pair without reserves, and on the division when no
\* time passed in a period of 0.
UpdateSucceeds(p, k) ==
  /\ HasOracle(p, k) \/ pair[p].reserves # Empty
  /\ Elapsed(Current(p, k).blockTimestampLast) >= k =>
       Elapsed(Current(p, k).blockTimestampLast) > 0

Refreshed(p, k) ==
  IF Elapsed(Current(p, k).blockTimestampLast) < k
  THEN Current(p, k) ELSE Updated(p, Current(p, k))

\* updateOrAdd, and the state change of updateAndQuote.
UpdateOrAdd(p, k) ==
  /\ UpdateSucceeds(p, k)
  /\ oracles' = [oracles EXCEPT ![p][k] = Refreshed(p, k)]
  /\ UNCHANGED <<now, pair, defaultTwapPeriod>>

UpdateDefaultTwapPeriod(k) ==
  /\ defaultTwapPeriod' = k
  /\ UNCHANGED <<now, pair, oracles>>

Next ==
  \/ Tick
  \/ \E p \in Pairs : \E r \in Reserves : Trade(p, r)
  \/ \E p \in Pairs, k \in Periods : UpdateOrAdd(p, k)
  \/ \E k \in Periods : UpdateDefaultTwapPeriod(k)

Spec == Init /\ [][Next]_vars

-----------------------------------------------------------------------------
\* The views.

\* _getAmountOut: price 0 converts token0, price 1 everything else.  A missing
\* pair or oracle reads as a zero struct.
GetAmountOut(tokenIn, tokenOut, k, amountIn) ==
  LET p == PairFor(tokenIn, tokenOut)
      o == IF p = NoPair THEN NoOracle ELSE oracles[p][k]
      s == IF p # NoPair /\ tokenIn = p[1] THEN 0 ELSE 1
  IN [amount |-> (o.average[s] * amountIn) \div Q, at |-> o.blockTimestampLast]

\* quote: straight through the direct oracle if there is one, else two legs
\* through the native token.
Quote(tokenIn, tokenOut, k, amountIn) ==
  IF tokenIn = tokenOut
  THEN [amount |-> amountIn, inAt |-> now, outAt |-> now]
  ELSE IF HasOracle(PairFor(tokenIn, tokenOut), k)
  THEN LET leg == GetAmountOut(tokenIn, tokenOut, k, amountIn)
       IN [amount |-> leg.amount, inAt |-> leg.at, outAt |-> leg.at]
  ELSE LET leg1 == GetAmountOut(tokenIn, NativeToken, k, amountIn)
           leg2 == GetAmountOut(NativeToken, tokenOut, k, leg1.amount)
       IN [amount |-> leg2.amount, inAt |-> leg1.at, outAt |-> leg2.at]
=============================================================================
