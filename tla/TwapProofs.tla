----------------------------- MODULE TwapProofs -----------------------------
(***************************************************************************)
(* Proofs about the TWAP provider, for every set of pairs, periods and      *)
(* reserves, every width and every horizon that the assumptions of          *)
(* UniswapV2LikePriceProvider allow.                                        *)
(***************************************************************************)
EXTENDS TwapHistory, IntegerTheorems

-----------------------------------------------------------------------------
\* Spot prices and the accumulators read now.

LEMMA SpotType ==
  ASSUME NEW r \in Reserves \cup {Empty}
  PROVE  /\ Spot(r) \in [Side -> 0..(AvgMod - 1)]
         /\ r # Empty => r \in Reserves
<1>1. CASE r = Empty
  BY <1>1, WidthAssumption DEF Spot, Side
<1>2. CASE r \in Reserves
  <2>1. r[1] \in Nat \ {0} /\ r[2] \in Nat \ {0} /\ r # Empty
    BY <1>2, ReservesAssumption DEF Empty
  <2>2. (r[2] * Q) \div r[1] \in Nat /\ (r[1] * Q) \div r[2] \in Nat
    <3>1. r[2] * Q \in Nat /\ r[1] * Q \in Nat
      BY <2>1, WidthAssumption
    <3>2. \A a \in Nat, b \in Nat \ {0} : a \div b \in Nat
      BY SMT
    <3> QED
      BY <2>1, <3>1, <3>2
  <2>3. \A s \in Side : Spot(r)[s] \in Nat
    BY <2>1, <2>2 DEF Spot, Side
  <2>4. \A s \in Side : Spot(r)[s] \in 0..(AvgMod - 1)
    BY <1>2, <2>3, SpotAssumption, WidthAssumption
  <2> QED
    BY <2>1, <2>4 DEF Spot
<1> QED
  BY <1>1, <1>2

LEMMA ElapsedType ==
  ASSUME HTypeOK, NEW t \in 0..(TsMod - 1)
  PROVE  Elapsed(t) \in 0..(TsMod - 1)
<1>1. now - t \in Int /\ TsMod \in Nat \ {0}
  BY WidthAssumption, HorizonAssumption DEF HTypeOK, TypeOK
<1> QED
  BY <1>1, DivMod DEF Elapsed

\* Within the horizon the 32-bit difference of times is the time that passed.
LEMMA ElapsedExact ==
  ASSUME HTypeOK, NEW t \in StartTime..(MaxTime + 1), t <= now
  PROVE  Elapsed(t % TsMod) = now - t
<1>1. /\ now \in Int /\ t \in Int /\ TsMod \in Nat \ {0}
      /\ now - t \in 0..(TsMod - 1)
  BY WidthAssumption, HorizonAssumption DEF HTypeOK, TypeOK
<1> QED
  BY <1>1, ModDifference DEF Elapsed

LEMMA NowModType ==
  ASSUME HTypeOK
  PROVE  now \in Nat /\ now % TsMod \in 0..(TsMod - 1)
<1>1. now \in Int /\ now \in Nat /\ TsMod \in Nat \ {0}
  BY WidthAssumption, HorizonAssumption DEF HTypeOK, TypeOK
<1> QED
  BY <1>1, DivMod

LEMMA CurrentType ==
  ASSUME HTypeOK, NEW p \in Pairs
  PROVE  CurrentCumulative(p) \in [Side -> 0..(CumMod - 1)]
<1> SUFFICES ASSUME NEW s \in Side
             PROVE  CurrentCumulative(p)[s] \in 0..(CumMod - 1)
  BY DEF CurrentCumulative
<1>1. /\ pair[p].cumulativeLast[s] \in 0..(CumMod - 1)
      /\ pair[p].reserves \in Reserves \cup {Empty}
      /\ pair[p].blockTimestampLast \in 0..(TsMod - 1)
  BY DEF HTypeOK, TypeOK, PairState
<1>2. Spot(pair[p].reserves)[s] \in 0..(AvgMod - 1)
  BY <1>1, SpotType
<1>3. Elapsed(pair[p].blockTimestampLast) \in 0..(TsMod - 1)
  BY <1>1, ElapsedType
<1>4. \A x, y, z \in Nat : x + y * z \in Int
  BY SMT
<1>5. pair[p].cumulativeLast[s]
        + Spot(pair[p].reserves)[s] * Elapsed(pair[p].blockTimestampLast) \in Int
  BY <1>1, <1>2, <1>3, <1>4
<1> QED
  BY <1>5, DivMod, WidthAssumption DEF CurrentCumulative

\* The cumulative prices read now are the area under the price up to now.
LEMMA CurrentExact ==
  ASSUME HTypeOK, NEW p \in Pairs, PairCut(p), NEW s \in Side
  PROVE  CurrentCumulative(p)[s] = area[p][s] % CumMod
<1> DEFINE m == moved[p]
           x == Spot(pair[p].reserves)[s]
           e == Elapsed(pair[p].blockTimestampLast)
<1>0. /\ pair[p].reserves \in Reserves \cup {Empty}
      /\ pair[p].blockTimestampLast \in 0..(TsMod - 1)
      /\ pair[p].cumulativeLast[s] \in 0..(CumMod - 1)
  BY DEF HTypeOK, TypeOK, PairState
<1>1. CASE pair[p].reserves = Empty
  <2>1. x = 0 /\ e \in Int
    BY <1>0, <1>1, ElapsedType, WidthAssumption DEF Spot
  <2>2. CurrentCumulative(p)[s] = pair[p].cumulativeLast[s] % CumMod
    BY <1>0, <2>1, WidthAssumption DEF CurrentCumulative
  <2>3. pair[p].cumulativeLast[s] % CumMod = pair[p].cumulativeLast[s]
    BY <1>0, ModSmall, WidthAssumption
  <2> QED
    BY <1>1, <2>2, <2>3 DEF PairCut
<1>2. CASE pair[p].reserves # Empty
  <2>1. /\ m.at \in StartTime..(MaxTime + 1) /\ m.at <= now
        /\ pair[p].blockTimestampLast = m.at % TsMod
        /\ m.area[s] \in Nat
        /\ pair[p].cumulativeLast[s] = m.area[s] % CumMod
        /\ area[p][s] = m.area[s] + x * (now - m.at)
    BY <1>2 DEF HTypeOK, InstantState, PairCut
  <2>2. x \in Int
    BY <1>0, SpotType, WidthAssumption
  <2>3. e = now - m.at
    BY <2>1, ElapsedExact
  <2>4. now - m.at \in Int
    BY <2>1, NowModType, HorizonAssumption
  <2>5. x * (now - m.at) \in Int
    BY <2>2, <2>4
  <2>6. CurrentCumulative(p)[s] = ((m.area[s] % CumMod) + x * (now - m.at)) % CumMod
    BY <2>1, <2>3 DEF CurrentCumulative
  <2> QED
    BY <2>1, <2>5, <2>6, ModAdd, WidthAssumption
<1> QED
  BY <1>1, <1>2

-----------------------------------------------------------------------------
\* Type correctness.

LEMMA InstantType ==
  ASSUME HTypeOK, NEW p \in Pairs
  PROVE  Instant(p) \in InstantState
  BY HorizonAssumption DEF HTypeOK, TypeOK, Instant, InstantState

LEMMA BaseType ==
  ASSUME HTypeOK, NEW p \in Pairs, NEW k \in Periods
  PROVE  Base(p, k) \in InstantState
  BY DEF HTypeOK, Base

LEMMA NewOracleType ==
  ASSUME HTypeOK, NEW p \in Pairs
  PROVE  NewOracle(p) \in OracleState
<1>1. Zero \in [Side -> 0..(AvgMod - 1)]
  BY WidthAssumption DEF Zero
<1> QED
  BY <1>1 DEF HTypeOK, TypeOK, NewOracle, PairState, OracleState

LEMMA UpdatedType ==
  ASSUME HTypeOK, NEW p \in Pairs, NEW o \in OracleState,
         Elapsed(o.blockTimestampLast) > 0
  PROVE  Updated(p, o) \in OracleState
<1> DEFINE e == Elapsed(o.blockTimestampLast)
           gain(s) == (CurrentCumulative(p)[s] - o.cumulativeLast[s]) % CumMod
<1>1. e \in Nat \ {0}
  BY ElapsedType, WidthAssumption DEF OracleState
<1>2. ASSUME NEW s \in Side PROVE (gain(s) \div e) % AvgMod \in 0..(AvgMod - 1)
  <2>1. CurrentCumulative(p)[s] - o.cumulativeLast[s] \in Int
    BY CurrentType, WidthAssumption DEF OracleState
  <2>2. gain(s) \in Int
    BY <2>1, DivMod, WidthAssumption
  <2> HIDE DEF gain, e
  <2>3. gain(s) \div e \in Int
    BY <1>1, <2>2, DivMod
  <2> QED
    BY <2>3, DivMod, WidthAssumption
<1>3. [s \in Side |-> Mean(p, o)[s] % AvgMod] \in [Side -> 0..(AvgMod - 1)]
  BY <1>2 DEF Mean
<1> QED
  BY <1>3, CurrentType, NowModType DEF Updated, OracleState

LEMMA InitType == HInit => HTypeOK
<1> SUFFICES ASSUME HInit PROVE HTypeOK
  OBVIOUS
<1>1. /\ \A r \in Reserves : TradingPair(r) \in PairState
      /\ NewPair \in PairState
  <2>1. StartTime % TsMod \in 0..(TsMod - 1)
    BY HorizonAssumption, WidthAssumption, DivMod
  <2> QED
    BY <2>1, SpotAssumption, WidthAssumption
    DEF TradingPair, NewPair, PairState, Zero
<1>2. NoOracle \in OracleState
  BY WidthAssumption DEF NoOracle, OracleState, Zero
<1>3. TypeOK
  BY <1>1, <1>2, HorizonAssumption DEF HInit, Init, TypeOK
<1>4. area \in [Pairs -> [Side -> Nat]]
  <2>1. \A p \in Pairs : pair[p].cumulativeLast \in [Side -> Nat]
    BY <1>3, WidthAssumption DEF TypeOK, PairState
  <2> QED
    BY <2>1 DEF HInit
<1>5. Never \in InstantState
  BY HorizonAssumption DEF Never, InstantState, Zero
<1>6. \A p \in Pairs : Instant(p) \in InstantState
  BY <1>3, <1>4, HorizonAssumption DEF Instant, InstantState, TypeOK
<1> QED
  BY <1>3, <1>4, <1>5, <1>6 DEF HInit, HTypeOK

LEMMA NextType == HTypeOK /\ [HNext]_hvars => HTypeOK'
<1> SUFFICES ASSUME HTypeOK, [HNext]_hvars PROVE HTypeOK'
  OBVIOUS
<1>1. CASE HTick
  <2>1. now' \in StartTime..MaxTime
    BY <1>1, HorizonAssumption DEF HTick, Tick, HTypeOK, TypeOK
  <2>2. area' \in [Pairs -> [Side -> Nat]]
    <3>1. ASSUME NEW p \in Pairs, NEW s \in Side
          PROVE  area[p][s] + Spot(pair[p].reserves)[s] \in Nat
      <4>1. pair[p].reserves \in Reserves \cup {Empty}
        BY DEF HTypeOK, TypeOK, PairState
      <4>2. Spot(pair[p].reserves)[s] \in Nat
        BY <4>1, SpotType, WidthAssumption
      <4> QED
        BY <4>2 DEF HTypeOK
    <3> QED
      BY <1>1, <3>1 DEF HTick
  <2> QED
    BY <1>1, <2>1, <2>2 DEF HTick, Tick, HTypeOK, TypeOK
<1>2. ASSUME NEW p \in Pairs, NEW r \in Reserves, HTrade(p, r) PROVE HTypeOK'
  <2>1. [reserves |-> r, cumulativeLast |-> CurrentCumulative(p),
         blockTimestampLast |-> now % TsMod] \in PairState
    BY CurrentType, NowModType DEF PairState
  <2> QED
    BY <1>2, <2>1, InstantType DEF HTrade, Trade, HTypeOK, TypeOK
<1>3. ASSUME NEW p \in Pairs, NEW k \in Periods, HUpdateOrAdd(p, k) PROVE HTypeOK'
  <2> DEFINE o == Current(p, k)
  <2>1. o \in OracleState
    BY NewOracleType DEF Current, HTypeOK, TypeOK
  <2>2. PICK n \in OracleState : oracles' = [oracles EXCEPT ![p][k] = n]
    <3>1. Elapsed(o.blockTimestampLast) \in Nat /\ k \in Nat
      BY <2>1, ElapsedType, PeriodsAssumption DEF OracleState
    <3>2. CASE Elapsed(o.blockTimestampLast) < k
      BY <1>3, <2>1, <3>2 DEF HUpdateOrAdd, UpdateOrAdd, Refreshed
    <3>3. CASE Elapsed(o.blockTimestampLast) >= k
      <4>1. Elapsed(o.blockTimestampLast) > 0
        BY <1>3, <3>3 DEF HUpdateOrAdd, UpdateOrAdd, UpdateSucceeds
      <4>2. Updated(p, o) \in OracleState
        BY <2>1, <4>1, UpdatedType
      <4>3. oracles' = [oracles EXCEPT ![p][k] = Updated(p, o)]
        <5>1. ~(Elapsed(o.blockTimestampLast) < k)
          BY <3>1, <3>3
        <5>2. Refreshed(p, k) = Updated(p, o)
          BY <5>1, Zenon DEF Refreshed
        <5> QED
          BY <1>3, <5>2 DEF HUpdateOrAdd, UpdateOrAdd
      <4> QED
        BY <4>2, <4>3
    <3> QED
      BY <3>1, <3>2, <3>3
  <2>3. oracles' \in [Pairs -> [Periods -> OracleState]]
    BY <2>2 DEF HTypeOK, TypeOK
  <2>4. mark' \in [Pairs -> [Periods -> InstantState]]
    BY <1>3, InstantType, BaseType DEF HUpdateOrAdd, HTypeOK
  <2> QED
    BY <1>3, <2>3, <2>4 DEF HUpdateOrAdd, UpdateOrAdd, HTypeOK, TypeOK
<1>4. ASSUME NEW k \in Periods, HUpdateDefaultTwapPeriod(k) PROVE HTypeOK'
  BY <1>4 DEF HUpdateDefaultTwapPeriod, UpdateDefaultTwapPeriod, history, HTypeOK, TypeOK
<1>5. CASE UNCHANGED hvars
  BY <1>5 DEF hvars, vars, history, HTypeOK, TypeOK
<1> QED
  BY <1>1, <1>2, <1>3, <1>4, <1>5 DEF HNext

\* The provider's state and its history always have their types.  The averages are stored
\* as they are cast, so this does not show that the cast keeps them: CastsNeverTruncate does.
THEOREM TypeCorrect == HSpec => []HTypeOK
  BY InitType, NextType, PTL DEF HSpec

-----------------------------------------------------------------------------
\* The structs are cut exactly.

\* What CutsExact says of the struct an update works on.
LEMMA BaseExact ==
  ASSUME HTypeOK, CutsExact, NEW p \in Pairs, NEW k \in Periods,
         HasOracle(p, k) \/ pair[p].reserves # Empty
  PROVE  /\ pair[p].reserves # Empty
         /\ Base(p, k).at <= now
         /\ Current(p, k).blockTimestampLast = Base(p, k).at % TsMod
         /\ Elapsed(Current(p, k).blockTimestampLast) = now - Base(p, k).at
         /\ \A s \in Side :
              /\ Current(p, k).cumulativeLast[s] = Base(p, k).area[s] % CumMod
              /\ Base(p, k).area[s] <= area[p][s]
              /\ area[p][s] - Base(p, k).area[s] <= (AvgMod - 1) * (now - Base(p, k).at)
<1> DEFINE goal == /\ pair[p].reserves # Empty
                   /\ Base(p, k).at <= now
                   /\ Current(p, k).blockTimestampLast = Base(p, k).at % TsMod
                   /\ \A s \in Side :
                        /\ Current(p, k).cumulativeLast[s] = Base(p, k).area[s] % CumMod
                        /\ Base(p, k).area[s] <= area[p][s]
                        /\ area[p][s] - Base(p, k).area[s]
                              <= (AvgMod - 1) * (now - Base(p, k).at)
<1>1. ASSUME HasOracle(p, k) PROVE goal
  BY <1>1 DEF CutsExact, OracleCut, AreaBound, Base, Current
<1>2. ASSUME ~HasOracle(p, k) PROVE goal
  <2>1. Base(p, k) = moved[p] /\ Current(p, k) = NewOracle(p) /\ PairCut(p)
    BY <1>2 DEF Base, Current, CutsExact
  <2>2. ASSUME NEW s \in Side
        PROVE  /\ moved[p].area[s] <= area[p][s]
               /\ area[p][s] - moved[p].area[s] <= (AvgMod - 1) * (now - moved[p].at)
    <3> DEFINE x == Spot(pair[p].reserves)[s]
               e == now - moved[p].at
    <3>1. x \in 0..(AvgMod - 1)
      BY SpotType DEF HTypeOK, TypeOK, PairState
    <3>2. e \in Nat
      BY <1>2, <2>1, NowModType, HorizonAssumption DEF PairCut, HTypeOK, InstantState
    <3>3. /\ area[p][s] = moved[p].area[s] + x * e
          /\ area[p][s] \in Nat /\ moved[p].area[s] \in Nat
      BY <1>2, <2>1 DEF PairCut, HTypeOK, InstantState
    <3> HIDE DEF x, e
    <3>4. x * e \in Nat /\ x * e <= (AvgMod - 1) * e
      BY <3>1, <3>2, WidthAssumption
    <3>5. area[p][s] - moved[p].area[s] = x * e /\ moved[p].area[s] <= area[p][s]
      BY <3>3, <3>4
    <3> QED
      BY <3>4, <3>5 DEF e
  <2> QED
    BY <1>2, <2>1, <2>2 DEF PairCut, NewOracle
<1>3. goal
  BY <1>1, <1>2
<1>4. Elapsed(Current(p, k).blockTimestampLast) = now - Base(p, k).at
  BY <1>3, BaseType, ElapsedExact DEF InstantState
<1> QED
  BY <1>3, <1>4

LEMMA InitCuts == HInit => CutsExact
<1> SUFFICES ASSUME HInit PROVE CutsExact
  OBVIOUS
<1> USE InitType
<1>1. ASSUME NEW p \in Pairs PROVE PairCut(p)
  <2>1. \A s \in Side : /\ pair[p].cumulativeLast[s] \in 0..(CumMod - 1)
                        /\ area[p][s] = pair[p].cumulativeLast[s]
    BY DEF HInit, HTypeOK, TypeOK, PairState
  <2>2. \A s \in Side : pair[p].cumulativeLast[s] = area[p][s] % CumMod
    BY <2>1, ModSmall, WidthAssumption
  <2>3. ASSUME pair[p].reserves # Empty
        PROVE  /\ moved[p] = Instant(p) /\ now = StartTime
               /\ pair[p].blockTimestampLast = StartTime % TsMod
    BY <2>3 DEF HInit, Init, NewPair, TradingPair
  <2>4. ASSUME NEW s \in Side
        PROVE  area[p][s] = area[p][s] + Spot(pair[p].reserves)[s] * (now - now)
    <3>1. Spot(pair[p].reserves)[s] \in Int /\ area[p][s] \in Int /\ now \in Int
      BY SpotType, WidthAssumption, HorizonAssumption DEF HTypeOK, TypeOK, PairState
    <3> QED
      BY <3>1
  <2> QED
    BY <2>2, <2>3, <2>4, NowModType DEF PairCut, Instant
<1>2. \A p \in Pairs, k \in Periods : ~HasOracle(p, k)
  BY DEF HInit, Init, HasOracle, NoOracle
<1> QED
  BY <1>1, <1>2 DEF CutsExact, OracleCut, AreaBound

\* A second passes: the area under every price grows by the price.
LEMMA TickCuts == ASSUME HTypeOK, CutsExact, HTick PROVE CutsExact'
<1>1. ASSUME NEW p \in Pairs, NEW s \in Side
      PROVE  /\ Spot(pair[p].reserves)[s] \in 0..(AvgMod - 1)
             /\ area[p][s] \in Nat
             /\ area'[p][s] = area[p][s] + Spot(pair[p].reserves)[s]
  <2>1. pair[p].reserves \in Reserves \cup {Empty}
    BY DEF HTypeOK, TypeOK, PairState
  <2> QED
    BY <2>1, SpotType DEF HTick, HTypeOK
<1>2. /\ pair' = pair /\ oracles' = oracles /\ moved' = moved /\ mark' = mark
      /\ now \in Nat /\ now' = now + 1
  BY NowModType DEF HTick, Tick
<1>3. ASSUME NEW p \in Pairs PROVE PairCut(p)'
  <2>1. CASE pair[p].reserves = Empty
    <3>1. \A s \in Side : area'[p][s] = area[p][s]
      BY <1>1, <2>1 DEF Spot
    <3> QED
      BY <1>2, <2>1, <3>1 DEF CutsExact, PairCut
  <2>2. CASE pair[p].reserves # Empty
    <3>1. PairCut(p)
      BY DEF CutsExact
    <3>2. moved[p].at \in Int /\ moved[p].at <= now /\ moved'[p].at <= now'
      BY <1>1, <1>2, <2>2, <3>1, HorizonAssumption, NowModType
      DEF PairCut, HTypeOK, InstantState, Side, HTick, Tick
    <3>3. ASSUME NEW s \in Side
          PROVE  area'[p][s] = moved'[p].area[s]
                                 + Spot(pair'[p].reserves)[s] * (now' - moved'[p].at)
      <4> DEFINE x == Spot(pair[p].reserves)[s]
                 e == now - moved[p].at
      <4>1. /\ x \in Int /\ e \in Int /\ moved[p].area[s] \in Int
            /\ now' - moved[p].at = e + 1
        <5>1. x \in Int
          BY <1>1, WidthAssumption
        <5>2. moved[p].area[s] \in Int
          BY DEF HTypeOK, InstantState
        <5> QED
          BY <1>2, <3>2, <5>1, <5>2
      <4>0. area[p][s] = moved[p].area[s] + x * e
        BY <2>2, <3>1 DEF PairCut
      <4> HIDE DEF x, e
      <4>2. x * (e + 1) = x * e + x
        BY <4>1
      <4>3. area'[p][s] = area[p][s] + x
        BY <1>1 DEF x
      <4>4. x * e \in Int
        BY <4>1
      <4>5. area'[p][s] = moved[p].area[s] + x * (e + 1)
        BY <4>0, <4>1, <4>2, <4>3, <4>4
      <4> QED
        BY <1>2, <4>1, <4>5 DEF x
    <3> QED
      BY <1>2, <2>2, <3>1, <3>2, <3>3 DEF PairCut
  <2> QED
    BY <2>1, <2>2
<1>4. ASSUME NEW p \in Pairs, NEW k \in Periods
      PROVE  OracleCut(p, k)' /\ AreaBound(p, k)'
  <2>1. HasOracle(p, k)' = HasOracle(p, k)
    BY <1>2 DEF HasOracle
  <2>2. OracleCut(p, k) /\ AreaBound(p, k)
    BY DEF CutsExact
  <2>3. mark[p][k].at \in Int
    BY HorizonAssumption DEF HTypeOK, InstantState
  <2>4. OracleCut(p, k)'
    BY <1>1, <1>2, <2>1, <2>2, <2>3, NowModType DEF OracleCut, HTick, Tick
  <2>5. ASSUME HasOracle(p, k), NEW s \in Side
        PROVE  /\ mark'[p][k].area[s] <= area'[p][s]
               /\ area'[p][s] - mark'[p][k].area[s]
                     <= (AvgMod - 1) * (now' - mark'[p][k].at)
    <3> DEFINE e == now - mark[p][k].at
               n == AvgMod - 1
    <3>1. /\ e \in Int /\ n \in Int
          /\ mark[p][k].area[s] \in Nat
          /\ mark[p][k].area[s] <= area[p][s]
          /\ area[p][s] - mark[p][k].area[s] <= n * e
          /\ now' - mark[p][k].at = e + 1
      BY <1>1, <1>2, <2>2, <2>3, <2>5, WidthAssumption DEF AreaBound, HTypeOK, InstantState
    <3>2. Spot(pair[p].reserves)[s] <= n
      BY <1>1, WidthAssumption
    <3> HIDE DEF e, n
    <3>3. n * (e + 1) = n * e + n /\ n * e \in Int
      BY <3>1
    <3>4. area'[p][s] - mark[p][k].area[s] <= n * (e + 1)
      BY <1>1, <3>1, <3>2, <3>3, WidthAssumption
    <3> QED
      BY <1>1, <1>2, <3>1, <3>4, WidthAssumption DEF n
  <2> QED
    BY <2>1, <2>4, <2>5 DEF AreaBound
<1> QED
  BY <1>3, <1>4 DEF CutsExact

\* A trade cuts the pair's accumulators at this instant.
LEMMA TradeCuts ==
  ASSUME HTypeOK, CutsExact, NEW p \in Pairs, NEW r \in Reserves, HTrade(p, r)
  PROVE  CutsExact'
<1>1. /\ now' = now /\ oracles' = oracles /\ area' = area /\ mark' = mark
      /\ \A q \in Pairs \ {p} : pair'[q] = pair[q] /\ moved'[q] = moved[q]
      /\ pair'[p] = [reserves |-> r, cumulativeLast |-> CurrentCumulative(p),
                     blockTimestampLast |-> now % TsMod]
      /\ moved'[p] = Instant(p)
  BY DEF HTrade, Trade, HTypeOK, TypeOK
<1>2. r # Empty
  BY SpotType, ReservesAssumption DEF Empty
<1>3. PairCut(p)'
  <2>1. \A s \in Side : CurrentCumulative(p)[s] = area[p][s] % CumMod
    BY CurrentExact DEF CutsExact
  <2>2. ASSUME NEW s \in Side PROVE area[p][s] = area[p][s] + Spot(r)[s] * (now - now)
    <3>1. Spot(r)[s] \in Int /\ area[p][s] \in Int /\ now \in Int
      BY SpotType, NowModType, WidthAssumption DEF HTypeOK
    <3> QED
      BY <3>1
  <2> QED
    BY <1>1, <1>2, <2>1, <2>2, NowModType DEF PairCut, Instant
<1>4. ASSUME NEW q \in Pairs \ {p} PROVE PairCut(q)'
  <2>1. PairCut(q)
    BY DEF CutsExact
  <2> QED
    BY <1>1, <2>1 DEF PairCut
<1>5. ASSUME NEW q \in Pairs, NEW k \in Periods
      PROVE  OracleCut(q, k)' /\ AreaBound(q, k)'
  <2>1. OracleCut(q, k) /\ AreaBound(q, k)
    BY DEF CutsExact
  <2>2. HasOracle(q, k)' = HasOracle(q, k)
    BY <1>1 DEF HasOracle
  <2>3. pair[q].reserves # Empty => pair'[q].reserves # Empty
    BY <1>1, <1>2
  <2> QED
    BY <1>1, <2>1, <2>2, <2>3 DEF OracleCut, AreaBound
<1> QED
  BY <1>3, <1>4, <1>5 DEF CutsExact

\* An update either keeps the struct it works on, or cuts a new one here.
LEMMA UpdateCuts ==
  ASSUME HTypeOK, CutsExact, NEW p \in Pairs, NEW k \in Periods, HUpdateOrAdd(p, k)
  PROVE  CutsExact'
<1> DEFINE o == Current(p, k)
           b == Base(p, k)
<1>1. /\ now' = now /\ pair' = pair /\ area' = area /\ moved' = moved
      /\ HasOracle(p, k) \/ pair[p].reserves # Empty
  BY DEF HUpdateOrAdd, UpdateOrAdd, UpdateSucceeds
<1>2. ASSUME NEW q \in Pairs, NEW j \in Periods, q # p \/ j # k
      PROVE  oracles'[q][j] = oracles[q][j] /\ mark'[q][j] = mark[q][j]
  BY <1>2 DEF HUpdateOrAdd, UpdateOrAdd, HTypeOK, TypeOK
<1>3. /\ pair[p].reserves # Empty
      /\ b.at <= now
      /\ o.blockTimestampLast = b.at % TsMod
      /\ Elapsed(o.blockTimestampLast) = now - b.at
      /\ \A s \in Side :
           /\ o.cumulativeLast[s] = b.area[s] % CumMod
           /\ b.area[s] <= area[p][s]
           /\ area[p][s] - b.area[s] <= (AvgMod - 1) * (now - b.at)
  BY <1>1, BaseExact
<1>4. OracleCut(p, k)' /\ AreaBound(p, k)'
  <2>1. CASE now - b.at < k
    <3>1. oracles'[p][k] = o /\ mark'[p][k] = b
      <4>1. now - b.at \in Int /\ k \in Int
        BY NowModType, BaseType, HorizonAssumption, PeriodsAssumption DEF InstantState
      <4>2. mark'[p][k] = b
        BY <2>1, <4>1 DEF HUpdateOrAdd, HTypeOK
      <4>3. oracles'[p][k] = o
        BY <1>3, <2>1, <4>1 DEF HUpdateOrAdd, UpdateOrAdd, UpdateSucceeds, Refreshed, Current, HTypeOK, TypeOK
      <4> QED
        BY <4>2, <4>3
    <3> QED
      BY <1>1, <1>3, <3>1 DEF OracleCut, AreaBound
  <2>2. CASE ~(now - b.at < k)
    <3>1. now - b.at >= k
      BY <2>2, NowModType, BaseType, HorizonAssumption, PeriodsAssumption DEF InstantState
    <3>2. mark'[p][k] = Instant(p)
      BY <3>1 DEF HUpdateOrAdd, HTypeOK
    <3>3. oracles'[p][k] = Updated(p, o)
      BY <1>3, <2>2 DEF HUpdateOrAdd, UpdateOrAdd, UpdateSucceeds, Refreshed, Current, HTypeOK, TypeOK
    <3>4. \A s \in Side : CurrentCumulative(p)[s] = area[p][s] % CumMod
      BY CurrentExact DEF CutsExact
    <3>5. OracleCut(p, k)'
      BY <1>1, <1>3, <3>2, <3>3, <3>4, NowModType DEF OracleCut, Updated, Instant
    <3>6. ASSUME NEW s \in Side
          PROVE  /\ area[p][s] <= area[p][s]
                 /\ area[p][s] - area[p][s] <= (AvgMod - 1) * (now - now)
      <4>1. area[p][s] \in Int /\ now \in Int /\ AvgMod \in Int
        BY NowModType, WidthAssumption DEF HTypeOK
      <4> QED
        BY <4>1
    <3> QED
      BY <1>1, <3>2, <3>5, <3>6 DEF AreaBound, Instant
  <2> QED
    BY <2>1, <2>2
<1>5. \A q \in Pairs : PairCut(q)'
  BY <1>1 DEF CutsExact, PairCut
<1>6. ASSUME NEW q \in Pairs, NEW j \in Periods, q # p \/ j # k
      PROVE  OracleCut(q, j)' /\ AreaBound(q, j)'
  <2>1. OracleCut(q, j) /\ AreaBound(q, j)
    BY DEF CutsExact
  <2>2. HasOracle(q, j)' = HasOracle(q, j)
    BY <1>2, <1>6 DEF HasOracle
  <2> QED
    BY <1>1, <1>2, <1>6, <2>1, <2>2 DEF OracleCut, AreaBound
<1> QED
  BY <1>4, <1>5, <1>6 DEF CutsExact

LEMMA NextCuts == HTypeOK /\ CutsExact /\ [HNext]_hvars => CutsExact'
<1> SUFFICES ASSUME HTypeOK, CutsExact, [HNext]_hvars PROVE CutsExact'
  OBVIOUS
<1>1. CASE HTick
  BY <1>1, TickCuts
<1>2. ASSUME NEW p \in Pairs, NEW r \in Reserves, HTrade(p, r) PROVE CutsExact'
  BY <1>2, TradeCuts
<1>3. ASSUME NEW p \in Pairs, NEW k \in Periods, HUpdateOrAdd(p, k) PROVE CutsExact'
  BY <1>3, UpdateCuts
<1>4. ASSUME UNCHANGED <<now, pair, oracles, history>> PROVE CutsExact'
  BY <1>4 DEF history, CutsExact, PairCut, OracleCut, AreaBound, HasOracle
<1>5. CASE UNCHANGED hvars
  BY <1>4, <1>5 DEF hvars, vars
<1>6. ASSUME NEW k \in Periods, HUpdateDefaultTwapPeriod(k) PROVE CutsExact'
  BY <1>4, <1>6 DEF HUpdateDefaultTwapPeriod, UpdateDefaultTwapPeriod
<1> QED
  BY <1>1, <1>2, <1>3, <1>5, <1>6 DEF HNext

\* Every struct the provider stores belongs to one instant of its pair's
\* history, and the area gained since is below what the wrapping subtractions of
\* _updateIfNeeded can tell apart ("overflow is desired").
THEOREM CutsAlwaysExact == HSpec => []CutsExact
<1>1. HInit => HTypeOK /\ CutsExact
  BY InitType, InitCuts
<1>2. HTypeOK /\ CutsExact /\ [HNext]_hvars => (HTypeOK /\ CutsExact)'
  BY NextType, NextCuts
<1> QED
  BY <1>1, <1>2, PTL DEF HSpec

-----------------------------------------------------------------------------
\* The averages are time-weighted means.

\* The mean that an update computes is the exact mean over its window, and fits in 224 bits.
LEMMA MeanFits ==
  ASSUME HTypeOK, CutsExact, NEW p \in Pairs, NEW k \in Periods,
         HasOracle(p, k) \/ pair[p].reserves # Empty, now > Base(p, k).at,
         NEW s \in Side
  PROVE  /\ Mean(p, Current(p, k))[s]
              = (area[p][s] - Base(p, k).area[s]) \div (now - Base(p, k).at)
         /\ Mean(p, Current(p, k))[s] \in 0..(AvgMod - 1)
<1> DEFINE o == Current(p, k)
           b == Base(p, k)
<1> DEFINE a == area[p][s]
           c == b.area[s]
           e == now - b.at
<1>0. /\ a \in Nat /\ c \in Nat
      /\ b.at \in StartTime..(MaxTime + 1) /\ now \in StartTime..MaxTime
  BY BaseType DEF HTypeOK, TypeOK, InstantState
<1>1. /\ a \in Nat /\ c \in Nat /\ e \in Nat \ {0} /\ e < TsMod
      /\ Elapsed(o.blockTimestampLast) = e
      /\ o.cumulativeLast[s] = c % CumMod
      /\ c <= a
      /\ a - c <= (AvgMod - 1) * e
  <2>1. e \in Nat \ {0} /\ e < TsMod
    BY <1>0, HorizonAssumption, WidthAssumption
  <2>2. /\ Elapsed(o.blockTimestampLast) = e
        /\ o.cumulativeLast[s] = c % CumMod
        /\ c <= a
        /\ a - c <= (AvgMod - 1) * e
    BY BaseExact
  <2> QED
    BY <1>0, <2>1, <2>2
<1>2. CurrentCumulative(p)[s] = a % CumMod
  BY CurrentExact DEF CutsExact
<1> HIDE DEF a, c, e
<1>3. (AvgMod - 1) * e < CumMod /\ (AvgMod - 1) * e \in Int
  BY <1>1, ProductBelow, WidthAssumption, SpotAssumption
<1>4. a - c \in 0..(CumMod - 1) /\ a - c \in Nat
  BY <1>1, <1>3, WidthAssumption
<1>5. ((a % CumMod) - (c % CumMod)) % CumMod = a - c
  <2>1. a \in Int /\ c \in Int /\ CumMod \in Nat \ {0}
    BY <1>1, WidthAssumption
  <2> QED
    BY <1>4, <2>1, ModDifference
<1>6. (a - c) \div e \in 0..(AvgMod - 1)
  <2> DEFINE d == a - c
  <2>1. d \in Nat /\ d <= (AvgMod - 1) * e
    BY <1>1, <1>4
  <2> HIDE DEF d
  <2>2. d \div e \in 0..(AvgMod - 1)
    BY <1>1, <2>1, MeanBelow, WidthAssumption
  <2> QED
    BY <2>2 DEF d
<1>7. Mean(p, o)[s] = (a - c) \div e
  BY <1>1, <1>2, <1>5 DEF Mean
<1> QED
  BY <1>6, <1>7 DEF a, c, e

\* What an update publishes is that mean.
LEMMA MeanExact ==
  ASSUME HTypeOK, CutsExact, NEW p \in Pairs, NEW k \in Periods,
         HasOracle(p, k) \/ pair[p].reserves # Empty, now > Base(p, k).at
  PROVE  Updated(p, Current(p, k)).average = TWAP!MeanSince(p, Base(p, k))
<1> DEFINE mean == Mean(p, Current(p, k))
<1>1. ASSUME NEW s \in Side
      PROVE  mean[s] % AvgMod = (area[p][s] - Base(p, k).area[s]) \div (now - Base(p, k).at)
  <2>1. /\ mean[s] = (area[p][s] - Base(p, k).area[s]) \div (now - Base(p, k).at)
        /\ mean[s] \in 0..(AvgMod - 1)
    BY MeanFits
  <2> HIDE DEF mean
  <2>2. mean[s] % AvgMod = mean[s]
    BY <2>1, ModSmall, WidthAssumption
  <2> QED
    BY <2>1, <2>2
<1> HIDE DEF mean
<1>2. Updated(p, Current(p, k)).average = [s \in Side |-> mean[s] % AvgMod]
  BY DEF Updated, mean
<1> QED
  BY <1>1, <1>2 DEF TWAP!MeanSince, Side, TWAP!Side

LEMMA MeansFit == HTypeOK /\ CutsExact => CastNeverTruncates
<1> SUFFICES ASSUME HTypeOK, CutsExact, NEW p \in Pairs, NEW k \in Periods, NEW s \in Side,
                    UpdateSucceeds(p, k), Elapsed(Current(p, k).blockTimestampLast) > 0
             PROVE  Mean(p, Current(p, k))[s] < AvgMod
  BY DEF CastNeverTruncates
<1>1. HasOracle(p, k) \/ pair[p].reserves # Empty
  BY DEF UpdateSucceeds
<1>2. /\ Base(p, k).at <= now
      /\ Elapsed(Current(p, k).blockTimestampLast) = now - Base(p, k).at
  BY <1>1, BaseExact
<1>3. now \in Int /\ Base(p, k).at \in Int
  BY NowModType, BaseType, HorizonAssumption DEF InstantState
<1>4. now > Base(p, k).at
  BY <1>2, <1>3
<1>5. Mean(p, Current(p, k))[s] \in 0..(AvgMod - 1)
  BY <1>1, <1>4, MeanFits
<1> QED
  BY <1>5, WidthAssumption

\* No mean that an update would cast to 224 bits exceeds them: what a pair gains in a window
\* is what prices of 112-bit reserves can cover, although both the accumulator and the
\* clock may have wrapped since ("casting never truncates").
THEOREM CastsNeverTruncate == HSpec => []CastNeverTruncates
<1> QED
  BY TypeCorrect, CutsAlwaysExact, MeansFit, PTL

LEMMA SpotNotZero ==
  ASSUME NEW r \in Reserves
  PROVE  Spot(r) # Zero
<1>1. /\ r[1] \in Nat \ {0} /\ r[2] \in Nat \ {0} /\ r # Empty
  BY ReservesAssumption DEF Empty
<1>2. CASE r[2] >= r[1]
  <2>1. \A x, y \in Nat \ {0} : x >= y => x \div y # 0
    BY SMT
  <2>2. \A x \in Nat \ {0}, q \in Nat \ {0} : x * q \in Nat \ {0} /\ x * q >= x
    BY SMT
  <2>3. r[2] * Q \in Nat \ {0} /\ r[2] * Q >= r[1]
    BY <1>1, <1>2, <2>2, WidthAssumption
  <2>4. (r[2] * Q) \div r[1] # 0
    BY <1>1, <2>1, <2>3
  <2> QED
    BY <1>1, <2>4 DEF Spot, Zero, Side
<1>3. CASE r[1] >= r[2]
  <2>1. \A x, y \in Nat \ {0} : x >= y => x \div y # 0
    BY SMT
  <2>2. \A x \in Nat \ {0}, q \in Nat \ {0} : x * q \in Nat \ {0} /\ x * q >= x
    BY SMT
  <2>3. r[1] * Q \in Nat \ {0} /\ r[1] * Q >= r[2]
    BY <1>1, <1>3, <2>2, WidthAssumption
  <2>4. (r[1] * Q) \div r[2] # 0
    BY <1>1, <2>1, <2>3
  <2>5. Spot(r)[1] # 0
    BY <1>1, <2>4 DEF Spot, Side
  <2> QED
    BY <2>5 DEF Zero, Side
<1> QED
  BY <1>1, <1>2, <1>3

LEMMA InitRefines == HInit => TWAP!Init
<1> SUFFICES ASSUME HInit PROVE TWAP!Init
  OBVIOUS
<1> DEFINE spot == [p \in Pairs |-> Spot(pair[p].reserves)]
<1>1. HTypeOK
  BY InitType
<1>2. ASSUME NEW p \in Pairs
      PROVE  /\ spot[p] \in {Spot(r) : r \in Reserves} \cup {Zero}
             /\ pair[p].reserves = Empty <=> spot[p] = Zero
  <2>1. pair[p].reserves \in Reserves \cup {Empty}
    BY <1>1 DEF HTypeOK, TypeOK, PairState
  <2>2. Spot(Empty) = Zero
    BY DEF Spot, Zero
  <2> QED
    BY <2>1, <2>2, SpotNotZero
<1>3. TWAP!NoPrice = Zero /\ TWAP!Never = Never /\ \A p \in Pairs : TWAP!Instant(p) = Instant(p)
  BY DEF TWAP!NoPrice, TWAP!Never, TWAP!Instant, Zero, Never, Instant, TWAP!Side, Side
<1>4. moved = [p \in Pairs |-> IF spot[p] = TWAP!NoPrice THEN TWAP!Never ELSE TWAP!Instant(p)]
  BY <1>2, <1>3 DEF HInit
<1>5. mark = [p \in Pairs |-> [k \in Periods |-> TWAP!Never]]
  BY <1>3 DEF HInit
<1>6. [p \in Pairs |-> [k \in Periods |-> oracles[p][k].average]]
        = [p \in Pairs |-> [k \in Periods |-> TWAP!NoPrice]]
  BY <1>3 DEF HInit, Init, NoOracle
<1>7. area \in [Pairs -> [TWAP!Side -> Nat]]
  BY <1>1 DEF HTypeOK, TWAP!Side, Side
<1>8. spot \in [Pairs -> {Spot(r) : r \in Reserves} \cup {TWAP!NoPrice}]
  BY <1>2, <1>3
<1> QED
  BY <1>4, <1>5, <1>6, <1>7, <1>8 DEF TWAP!Init, HInit, Init

\* Every step of the provider is a step of the abstract oracle or a stutter.
LEMMA NextRefines == HTypeOK /\ CutsExact /\ [HNext]_hvars => [TWAP!Next]_(TWAP!vars)
<1> SUFFICES ASSUME HTypeOK, CutsExact, [HNext]_hvars
             PROVE  TWAP!Next \/ UNCHANGED TWAP!vars
  OBVIOUS
<1> DEFINE spot == [p \in Pairs |-> Spot(pair[p].reserves)]
           average == [p \in Pairs |-> [k \in Periods |-> oracles[p][k].average]]
<1>1. CASE HTick
  <2>1. TWAP!Pass
    BY <1>1 DEF HTick, Tick, TWAP!Pass, TWAP!Side, Side
  <2> QED
    BY <2>1 DEF TWAP!Next
<1>2. ASSUME NEW p \in Pairs, NEW r \in Reserves, HTrade(p, r)
      PROVE  TWAP!Next
  <2>1. spot' = [spot EXCEPT ![p] = Spot(r)]
    BY <1>2 DEF HTrade, Trade, HTypeOK, TypeOK
  <2>2. average' = average
    BY <1>2 DEF HTrade, Trade
  <2>3. TWAP!Move(p, Spot(r))
    BY <1>2, <2>1, <2>2 DEF HTrade, Trade, TWAP!Move, TWAP!Instant, Instant
  <2> QED
    BY <2>3 DEF TWAP!Next
<1>3. ASSUME NEW p \in Pairs, NEW k \in Periods, HUpdateOrAdd(p, k)
      PROVE  TWAP!Next \/ UNCHANGED TWAP!vars
  <2> DEFINE o == Current(p, k)
             b == Base(p, k)
  <2>1. /\ now' = now /\ pair' = pair /\ area' = area /\ moved' = moved
        /\ HasOracle(p, k) \/ pair[p].reserves # Empty
        /\ spot' = spot
    BY <1>3 DEF HUpdateOrAdd, UpdateOrAdd, UpdateSucceeds
  <2>2. /\ b.at <= now
        /\ Elapsed(o.blockTimestampLast) = now - b.at
        /\ pair[p].reserves # Empty
    BY <2>1, BaseExact
  <2>3. now \in Int /\ b.at \in Int /\ k \in Int
    BY NowModType, BaseType, HorizonAssumption, PeriodsAssumption DEF InstantState
  <2>4. CASE now - b.at < k
    <3>1. /\ oracles' = [oracles EXCEPT ![p][k] = o]
          /\ mark' = [mark EXCEPT ![p][k] = b]
      <4>1. mark' = [mark EXCEPT ![p][k] = b]
        <5>1. ~(now - b.at >= k)
          BY <2>3, <2>4
        <5> QED
          BY <1>3, <5>1 DEF HUpdateOrAdd
      <4>2. oracles' = [oracles EXCEPT ![p][k] = o]
        <5>1. Elapsed(o.blockTimestampLast) < k
          BY <2>2, <2>4
        <5> QED
          BY <1>3, <5>1 DEF HUpdateOrAdd, UpdateOrAdd, Refreshed, Current
      <4> QED
        BY <4>1, <4>2
    <3>2. CASE HasOracle(p, k)
      <4>1. oracles' = oracles /\ mark' = mark
        BY <3>1, <3>2 DEF Current, Base, HTypeOK, TypeOK
      <4> QED
        BY <2>1, <4>1 DEF TWAP!vars
    <3>3. CASE ~HasOracle(p, k)
      <4>1. b = moved[p] /\ o.average = Zero
        BY <3>3 DEF Base, Current, NewOracle
      <4>2. average' = [average EXCEPT ![p][k] = Zero]
        BY <3>1, <4>1 DEF HTypeOK, TypeOK
      <4>3. moved[p] # TWAP!Never
        BY <2>2, <2>3, <4>1, HorizonAssumption DEF TWAP!Never, HTypeOK, TypeOK
      <4>4. TWAP!Open(p, k)
        BY <2>1, <2>4, <3>1, <4>1, <4>2, <4>3
        DEF TWAP!Open, TWAP!NoPrice, Zero, TWAP!Side, Side
      <4> QED
        BY <4>4 DEF TWAP!Next
    <3> QED
      BY <3>2, <3>3
  <2>5. CASE ~(now - b.at < k)
    <3>1. now - b.at >= k /\ now > b.at
      BY <1>3, <2>2, <2>3, <2>5 DEF HUpdateOrAdd, UpdateOrAdd, UpdateSucceeds, Refreshed, Current
    <3>2. /\ oracles' = [oracles EXCEPT ![p][k] = Updated(p, o)]
          /\ mark' = [mark EXCEPT ![p][k] = Instant(p)]
      BY <1>3, <2>2, <2>3, <2>5, <3>1 DEF HUpdateOrAdd, UpdateOrAdd, UpdateSucceeds, Refreshed, Current
    <3>3. Updated(p, o).average = TWAP!MeanSince(p, b)
      BY <2>1, <3>1, MeanExact
    <3>4. average' = [average EXCEPT ![p][k] = TWAP!MeanSince(p, b)]
      BY <3>2, <3>3 DEF HTypeOK, TypeOK
    <3>5. b \in {mark[p][k], moved[p]}
      BY DEF Base
    <3>6. TWAP!Publish(p, k)
      BY <2>1, <3>1, <3>2, <3>4, <3>5 DEF TWAP!Publish, TWAP!Instant, Instant
    <3> QED
      BY <3>6 DEF TWAP!Next
  <2> QED
    BY <2>4, <2>5
<1>4. ASSUME NEW k \in Periods, HUpdateDefaultTwapPeriod(k) PROVE UNCHANGED TWAP!vars
  BY <1>4 DEF HUpdateDefaultTwapPeriod, UpdateDefaultTwapPeriod, history, TWAP!vars
<1>5. CASE UNCHANGED hvars
  BY <1>5 DEF hvars, vars, history, TWAP!vars
<1> QED
  BY <1>1, <1>2, <1>3, <1>4, <1>5 DEF HNext

\* The provider implements the abstract TWAP oracle: whatever it publishes is
\* the exact mean of the spot price over one window that lasts at least the
\* period, although it works on wrapping accumulators and 32-bit times.
THEOREM PublishesTimeWeightedAverages == HSpec => ImplementsTwap
<1>1. HInit => HTypeOK /\ CutsExact
  BY InitType, InitCuts
<1>2. HTypeOK /\ CutsExact /\ [HNext]_hvars => (HTypeOK /\ CutsExact)'
  BY NextType, NextCuts
<1> QED
  BY <1>1, <1>2, InitRefines, NextRefines, PTL DEF HSpec, ImplementsTwap, TWAP!Spec

-----------------------------------------------------------------------------
\* What single steps may never do.

\* The invariant the action properties rest on.
HInv == HTypeOK /\ CutsExact

LEMMA Invariant == HSpec => []HInv
  BY TypeCorrect, CutsAlwaysExact, PTL DEF HInv

\* The accumulators that an update reads are the areas up to now.
ReadsAreas == \A p \in Pairs, s \in Side : CurrentCumulative(p)[s] = area[p][s] % CumMod

LEMMA AreasRead == HInv => ReadsAreas
  BY CurrentExact DEF HInv, CutsExact, ReadsAreas

LEMMA SameBlockStep ==
  ASSUME HInv, HInv', [HNext]_hvars, now' = now, oracles' = oracles,
         NEW p \in Pairs, NEW k \in Periods
  PROVE  Updated(p, oracles[p][k])' = Updated(p, oracles[p][k])
<1>1. area' = area
  <2>1. ~HTick
    BY NowModType DEF HTick, Tick, HInv
  <2> QED
    BY <2>1 DEF HNext, HTrade, HUpdateOrAdd, HUpdateDefaultTwapPeriod, hvars, history
<1>2. \A s \in Side : CurrentCumulative(p)[s] = area[p][s] % CumMod
  BY AreasRead DEF ReadsAreas
<1>3. ReadsAreas'
  BY AreasRead, PTL
<1>4. CurrentCumulative(p)' = CurrentCumulative(p)
  BY <1>1, <1>2, <1>3 DEF CurrentCumulative, ReadsAreas
<1> QED
  BY <1>4 DEF Updated, Mean, Elapsed

\* A trade never changes what an update of the same block would publish: the
\* accumulators only ever count a price for the time it has held.
THEOREM TradesHaveNoWeight == HSpec => SameBlockTradesHaveNoWeight
<1>1. HInv /\ HInv' /\ [HNext]_hvars =>
        \A p \in Pairs, k \in Periods :
          (/\ now' = now /\ oracles' = oracles
           /\ HasOracle(p, k) /\ Elapsed(oracles[p][k].blockTimestampLast) > 0)
            => Updated(p, oracles[p][k])' = Updated(p, oracles[p][k])
  BY SameBlockStep
<1> QED
  BY <1>1, Invariant, PTL DEF HSpec, SameBlockTradesHaveNoWeight

\* An update keeps the window it works on, or closes it at this instant.
LEMMA UpdateStep ==
  ASSUME HInv, NEW p \in Pairs, NEW k \in Periods, HUpdateOrAdd(p, k)
  PROVE  /\ pair[p].reserves # Empty
         /\ \A q \in Pairs, j \in Periods : q # p \/ j # k =>
              oracles'[q][j] = oracles[q][j] /\ mark'[q][j] = mark[q][j]
         /\ \/ oracles'[p][k] = Current(p, k) /\ mark'[p][k] = Base(p, k)
            \/ /\ now > Base(p, k).at
               /\ oracles'[p][k] = Updated(p, Current(p, k))
               /\ mark'[p][k] = Instant(p)
<1> DEFINE o == Current(p, k)
           b == Base(p, k)
<1>1. /\ HasOracle(p, k) \/ pair[p].reserves # Empty
      /\ oracles' = [oracles EXCEPT ![p][k] = Refreshed(p, k)]
      /\ mark' = [mark EXCEPT ![p][k] = IF now - b.at >= k THEN Instant(p) ELSE b]
  BY DEF HUpdateOrAdd, UpdateOrAdd, UpdateSucceeds
<1>2. /\ pair[p].reserves # Empty /\ b.at <= now
      /\ Elapsed(o.blockTimestampLast) = now - b.at
  BY <1>1, BaseExact DEF HInv
<1>3. now \in Int /\ b.at \in Int /\ k \in Int
  BY NowModType, BaseType, HorizonAssumption, PeriodsAssumption DEF HInv, InstantState
<1>4. /\ oracles'[p][k] = Refreshed(p, k)
      /\ mark'[p][k] = IF now - b.at >= k THEN Instant(p) ELSE b
      /\ \A q \in Pairs, j \in Periods : q # p \/ j # k =>
           oracles'[q][j] = oracles[q][j] /\ mark'[q][j] = mark[q][j]
  BY <1>1 DEF HInv, HTypeOK, TypeOK
<1>5. CASE now - b.at < k
  BY <1>2, <1>3, <1>4, <1>5 DEF Refreshed
<1>6. CASE now - b.at >= k
  <2>1. now > b.at
    BY <1>2, <1>3, <1>6 DEF HUpdateOrAdd, UpdateOrAdd, UpdateSucceeds
  <2>2. Refreshed(p, k) = Updated(p, o)
    <3>1. ~(Elapsed(o.blockTimestampLast) < k)
      BY <1>2, <1>3, <1>6
    <3> QED
      BY <3>1, Zenon DEF Refreshed
  <2> QED
    BY <1>2, <1>4, <1>6, <2>1, <2>2
<1> QED
  BY <1>3, <1>5, <1>6

\* Steps other than updates leave the structs and the instants they were cut at.
LEMMA OtherSteps ==
  ASSUME [HNext]_hvars, ~(\E p \in Pairs, k \in Periods : HUpdateOrAdd(p, k))
  PROVE  oracles' = oracles /\ mark' = mark
  BY DEF HNext, HTick, Tick, HTrade, Trade, HUpdateDefaultTwapPeriod,
         UpdateDefaultTwapPeriod, hvars, vars, history

\* A window closed in this block looks like none only at clock zero.
LEMMA CutNow ==
  ASSUME HInv, NEW p \in Pairs, NEW k \in Periods, HUpdateOrAdd(p, k),
         oracles'[p][k] = Updated(p, Current(p, k)), mark'[p][k] = Instant(p)
  PROVE  HasOracle(p, k)' \/ CutAtClockZero(p, k)'
<1>1. p # NoPair
  BY PairsAssumption DEF NoPair
<1>2. oracles'[p][k].blockTimestampLast = now % TsMod
  BY DEF Updated
<1>3. now % TsMod \in Nat /\ mark'[p][k].at = now
  BY NowModType, WidthAssumption DEF Instant, HInv
<1>4. mark'[p][k] # Never
  BY <1>3, HorizonAssumption DEF Never, HInv, HTypeOK, TypeOK
<1>5. CASE now % TsMod = 0
  BY <1>3, <1>4, <1>5 DEF CutAtClockZero, Never
<1>6. CASE now % TsMod > 0
  BY <1>1, <1>2, <1>6 DEF HasOracle, NoPair
<1> QED
  BY <1>3, <1>5, <1>6

LEMMA OutliveStep ==
  ASSUME HInv, [HNext]_hvars, NEW p \in Pairs, NEW k \in Periods, HasOracle(p, k)
  PROVE  HasOracle(p, k)' \/ CutAtClockZero(p, k)'
<1>1. ASSUME oracles'[p][k] = oracles[p][k] PROVE HasOracle(p, k)'
  BY <1>1 DEF HasOracle, NoPair
<1>2. CASE ~(\E q \in Pairs, j \in Periods : HUpdateOrAdd(q, j))
  BY <1>1, <1>2, OtherSteps
<1>3. ASSUME NEW q \in Pairs, NEW j \in Periods, HUpdateOrAdd(q, j)
      PROVE  HasOracle(p, k)' \/ CutAtClockZero(p, k)'
  <2>1. CASE q # p \/ j # k
    BY <1>1, <1>3, <2>1, UpdateStep
  <2>2. CASE q = p /\ j = k
    <3>1. CASE oracles'[p][k] = Current(p, k)
      BY <1>1, <3>1 DEF Current
    <3>2. CASE oracles'[p][k] = Updated(p, Current(p, k)) /\ mark'[p][k] = Instant(p)
      BY <1>3, <2>2, <3>2, CutNow
    <3> QED
      BY <1>3, <2>2, <3>1, <3>2, UpdateStep
  <2> QED
    BY <2>1, <2>2
<1> QED
  BY <1>2, <1>3

\* A pair and period once tracked stay tracked: no update loses a struct, but
\* for one whose 32-bit time is 0.
THEOREM OraclesOutlive == HSpec => OraclesOutliveUpdates
<1>1. HInv /\ [HNext]_hvars =>
        \A p \in Pairs, k \in Periods :
          HasOracle(p, k) => HasOracle(p, k)' \/ CutAtClockZero(p, k)'
  BY OutliveStep
<1> QED
  BY <1>1, Invariant, PTL DEF HSpec, OraclesOutliveUpdates

-----------------------------------------------------------------------------
\* Quotes are lost only by opening a direct oracle.

\* A price of 112-bit reserves is never rounded to zero.
LEMMA SpotPositive ==
  ASSUME NEW r \in Reserves, NEW s \in Side
  PROVE  Spot(r)[s] \in Nat /\ Spot(r)[s] >= 1
<1>1. /\ r[1] \in Nat \ {0} /\ r[2] \in Nat \ {0} /\ r # Empty
      /\ r[1] < Q /\ r[2] < Q
  BY ReservesAssumption DEF Empty
<1>2. \A x, y \in Nat \ {0}, q \in Nat : y < q => (x * q) \div y \in Nat /\ (x * q) \div y >= 1
  <2> SUFFICES ASSUME NEW x \in Nat \ {0}, NEW y \in Nat \ {0}, NEW q \in Nat, y < q
               PROVE  (x * q) \div y \in Nat /\ (x * q) \div y >= 1
    OBVIOUS
  <2>1. x * q \in Nat /\ x * q >= y
    BY SMT
  <2> DEFINE z == x * q
  <2> HIDE DEF z
  <2>2. z \in Nat /\ z >= y => z \div y \in Nat /\ z \div y >= 1
    BY SMT
  <2> QED
    BY <2>1, <2>2 DEF z
<1>3. /\ (r[2] * Q) \div r[1] \in Nat /\ (r[2] * Q) \div r[1] >= 1
      /\ (r[1] * Q) \div r[2] \in Nat /\ (r[1] * Q) \div r[2] >= 1
  BY <1>1, <1>2, WidthAssumption
<1> QED
  BY <1>1, <1>3 DEF Spot, Side

\* Since an oracle's window began its pair had a price of at least one unit.
WindowsGain ==
  \A p \in Pairs, k \in Periods, s \in Side :
    HasOracle(p, k) => area[p][s] - mark[p][k].area[s] >= now - mark[p][k].at

\* A struct that looks missing holds no average.
MissingIsBlank ==
  \A p \in Pairs, k \in Periods :
    HasOracle(p, k) \/ oracles[p][k].average = Zero \/ CutAtClockZero(p, k)

LEMMA BaseGain ==
  ASSUME HInv, WindowsGain, NEW p \in Pairs, NEW k \in Periods, NEW s \in Side,
         HasOracle(p, k) \/ pair[p].reserves # Empty
  PROVE  area[p][s] - Base(p, k).area[s] >= now - Base(p, k).at
<1>1. CASE HasOracle(p, k)
  BY <1>1 DEF WindowsGain, Base
<1>2. CASE ~HasOracle(p, k)
  <2> DEFINE x == Spot(pair[p].reserves)[s]
             e == now - moved[p].at
  <2>1. /\ Base(p, k) = moved[p] /\ moved[p].at <= now
        /\ area[p][s] = moved[p].area[s] + x * e
    BY <1>2 DEF Base, HInv, CutsExact, PairCut
  <2>2. x \in Nat /\ x >= 1
    BY <1>2, SpotType, SpotPositive DEF HInv, HTypeOK, TypeOK, PairState
  <2>3. e \in Nat /\ moved[p].area[s] \in Nat
    BY <2>1, NowModType, HorizonAssumption DEF HInv, HTypeOK, InstantState
  <2> HIDE DEF x, e
  <2>4. x * e >= e /\ x * e \in Nat
    BY <2>2, <2>3
  <2>5. area[p][s] - moved[p].area[s] >= e
    BY <2>1, <2>3, <2>4
  <2> QED
    BY <2>1, <2>5 DEF e
<1> QED
  BY <1>1, <1>2

LEMMA GainInit == HInit => WindowsGain /\ MissingIsBlank
  BY DEF HInit, Init, WindowsGain, MissingIsBlank, HasOracle, NoOracle

LEMMA GainStep ==
  ASSUME HInv, WindowsGain, [HNext]_hvars
  PROVE  WindowsGain'
<1>1. CASE HTick
  <2>1. /\ pair' = pair /\ oracles' = oracles /\ mark' = mark
        /\ now \in Nat /\ now' = now + 1
    BY <1>1, NowModType DEF HTick, Tick, HInv
  <2> SUFFICES ASSUME NEW p \in Pairs, NEW k \in Periods, NEW s \in Side, HasOracle(p, k)
               PROVE  area'[p][s] - mark[p][k].area[s] >= now' - mark[p][k].at
    BY <2>1 DEF WindowsGain, HasOracle
  <2>2. pair[p].reserves \in Reserves
    BY SpotType DEF HInv, CutsExact, OracleCut, HTypeOK, TypeOK, PairState
  <2>3. /\ area'[p][s] = area[p][s] + Spot(pair[p].reserves)[s]
        /\ area[p][s] \in Nat /\ mark[p][k].area[s] \in Nat /\ mark[p][k].at \in Int
    BY <1>1, HorizonAssumption DEF HTick, HInv, HTypeOK, InstantState
  <2>4. area[p][s] - mark[p][k].area[s] >= now - mark[p][k].at
    BY DEF WindowsGain
  <2> QED
    BY <2>1, <2>2, <2>3, <2>4, SpotPositive
<1>2. ASSUME NEW p \in Pairs, NEW k \in Periods, HUpdateOrAdd(p, k) PROVE WindowsGain'
  <2>1. now' = now /\ area' = area
    BY <1>2 DEF HUpdateOrAdd, UpdateOrAdd
  <2> SUFFICES ASSUME NEW q \in Pairs, NEW j \in Periods, NEW s \in Side, HasOracle(q, j)'
               PROVE  area[q][s] - mark'[q][j].area[s] >= now - mark'[q][j].at
    BY <2>1 DEF WindowsGain
  <2>2. CASE q # p \/ j # k
    BY <1>2, <2>2, UpdateStep DEF HasOracle, WindowsGain
  <2>3. CASE q = p /\ j = k
    <3>1. CASE mark'[p][k] = Base(p, k)
      BY <1>2, <2>3, <3>1, BaseGain, UpdateStep
    <3>2. CASE mark'[p][k] = Instant(p)
      <4>1. area[p][s] \in Nat /\ now \in Nat
        BY NowModType DEF HInv, HTypeOK
      <4> QED
        BY <2>3, <3>2, <4>1 DEF Instant
    <3> QED
      BY <1>2, <3>1, <3>2, UpdateStep
  <2> QED
    BY <2>2, <2>3
<1>3. ASSUME UNCHANGED <<now, oracles, area, mark>> PROVE WindowsGain'
  BY <1>3 DEF WindowsGain, HasOracle
<1> QED
  BY <1>1, <1>2, <1>3 DEF HNext, HTrade, Trade, HUpdateDefaultTwapPeriod,
                          UpdateDefaultTwapPeriod, hvars, vars, history

LEMMA BlankStep ==
  ASSUME HInv, MissingIsBlank, [HNext]_hvars
  PROVE  MissingIsBlank'
<1> SUFFICES ASSUME NEW p \in Pairs, NEW k \in Periods
             PROVE  \/ HasOracle(p, k)' \/ oracles'[p][k].average = Zero
                    \/ CutAtClockZero(p, k)'
  BY DEF MissingIsBlank, Zero
<1>1. ASSUME oracles'[p][k] = oracles[p][k], mark'[p][k] = mark[p][k]
      PROVE  \/ HasOracle(p, k)' \/ oracles'[p][k].average = Zero
             \/ CutAtClockZero(p, k)'
  BY <1>1 DEF MissingIsBlank, HasOracle, NoPair, CutAtClockZero, Never, Zero
<1>2. CASE ~(\E q \in Pairs, j \in Periods : HUpdateOrAdd(q, j))
  BY <1>1, <1>2, OtherSteps
<1>3. ASSUME NEW q \in Pairs, NEW j \in Periods, HUpdateOrAdd(q, j), q # p \/ j # k
      PROVE  \/ HasOracle(p, k)' \/ oracles'[p][k].average = Zero
             \/ CutAtClockZero(p, k)'
  BY <1>1, <1>3, UpdateStep
<1>4. CASE HUpdateOrAdd(p, k)
  <2>1. CASE /\ oracles'[p][k] = Current(p, k) /\ mark'[p][k] = Base(p, k)
             /\ HasOracle(p, k)
    BY <1>1, <2>1 DEF Current, Base
  <2>2. CASE oracles'[p][k] = Current(p, k) /\ ~HasOracle(p, k)
    BY <2>2 DEF Current, NewOracle
  <2>3. CASE oracles'[p][k] = Updated(p, Current(p, k)) /\ mark'[p][k] = Instant(p)
    BY <1>4, <2>3, CutNow
  <2> QED
    BY <1>4, <2>1, <2>2, <2>3, UpdateStep
<1> QED
  BY <1>2, <1>3, <1>4

PricedInv == HInv /\ WindowsGain /\ MissingIsBlank

LEMMA Priced == HSpec => []PricedInv
<1>1. HInit => WindowsGain /\ MissingIsBlank
  BY GainInit
<1>2. HInv /\ WindowsGain /\ MissingIsBlank /\ [HNext]_hvars
        => WindowsGain' /\ MissingIsBlank'
  BY GainStep, BlankStep
<1> QED
  BY <1>1, <1>2, Invariant, PTL DEF HSpec, PricedInv

\* A published average outlives every step: an update replaces it by the mean of
\* a window in which the pair had a price throughout.
LEMMA AveragesStay ==
  ASSUME PricedInv, [HNext]_hvars, NEW p \in Pairs, NEW k \in Periods, NEW s \in Side,
         oracles[p][k].average[s] > 0
  PROVE  oracles'[p][k].average[s] > 0 \/ CutAtClockZero(p, k)
<1>1. ASSUME oracles'[p][k] = oracles[p][k] PROVE oracles'[p][k].average[s] > 0
  BY <1>1
<1>2. CASE ~(\E q \in Pairs, j \in Periods : HUpdateOrAdd(q, j))
  BY <1>1, <1>2, OtherSteps
<1>3. ASSUME NEW q \in Pairs, NEW j \in Periods, HUpdateOrAdd(q, j), q # p \/ j # k
      PROVE  oracles'[p][k].average[s] > 0
  BY <1>1, <1>3, UpdateStep DEF PricedInv
<1>4. CASE HUpdateOrAdd(p, k) /\ HasOracle(p, k)
  <2>1. CASE oracles'[p][k] = Current(p, k)
    BY <1>1, <1>4, <2>1 DEF Current
  <2>2. CASE oracles'[p][k] = Updated(p, Current(p, k)) /\ now > Base(p, k).at
    <3> DEFINE d == area[p][s] - Base(p, k).area[s]
               e == now - Base(p, k).at
    <3>1. oracles'[p][k].average[s] = d \div e
      <4>1. Updated(p, Current(p, k)).average = TWAP!MeanSince(p, Base(p, k))
        BY <1>4, <2>2, MeanExact DEF PricedInv, HInv
      <4> QED
        BY <2>2, <4>1 DEF TWAP!MeanSince, TWAP!Side, Side
    <3>2. d >= e
      BY <1>4, BaseGain DEF PricedInv
    <3>3. e \in Nat \ {0} /\ d \in Int
      BY <2>2, NowModType, BaseType, HorizonAssumption
      DEF PricedInv, HInv, HTypeOK, InstantState
    <3> HIDE DEF d, e
    <3>4. d \div e > 0
      BY <3>2, <3>3
    <3> QED
      BY <3>1, <3>4
  <2> QED
    BY <1>4, <2>1, <2>2, UpdateStep DEF PricedInv
<1>5. CASE ~HasOracle(p, k)
  BY <1>5 DEF PricedInv, MissingIsBlank, Zero
<1> QED
  BY <1>2, <1>3, <1>4, <1>5

\* The average that converts one token of a pair into the other, if any.
Rate(a, b, k) ==
  IF PairFor(a, b) = NoPair THEN 0
  ELSE oracles[PairFor(a, b)][k].average[IF a = PairFor(a, b)[1] THEN 0 ELSE 1]

LEMMA PairForType ==
  ASSUME NEW a, NEW b
  PROVE  PairFor(a, b) = NoPair \/ PairFor(a, b) \in Pairs
  BY DEF PairFor

LEMMA RateType ==
  ASSUME HTypeOK, NEW a, NEW b, NEW k \in Periods
  PROVE  Rate(a, b, k) \in Nat
<1>1. CASE PairFor(a, b) = NoPair
  BY <1>1 DEF Rate
<1>2. CASE PairFor(a, b) # NoPair
  <2>1. PairFor(a, b) \in Pairs
    BY <1>2, PairForType
  <2>2. oracles[PairFor(a, b)][k].average \in [Side -> 0..(AvgMod - 1)]
    BY <2>1 DEF HTypeOK, TypeOK, OracleState
  <2> QED
    BY <1>2, <2>2, WidthAssumption DEF Rate, Side
<1> QED
  BY <1>1, <1>2

LEMMA AmountOut ==
  ASSUME HTypeOK, NEW a, NEW b, NEW k \in Periods, NEW amountIn \in Nat
  PROVE  GetAmountOut(a, b, k, amountIn).amount = (Rate(a, b, k) * amountIn) \div Q
<1>1. CASE PairFor(a, b) = NoPair
  BY <1>1 DEF GetAmountOut, Rate, NoOracle, Zero, Side
<1>2. CASE PairFor(a, b) # NoPair
  BY <1>2 DEF GetAmountOut, Rate
<1> QED
  BY <1>1, <1>2

\* A quote of the probing amount is positive as soon as its rates are.
LEMMA Probe ==
  ASSUME NEW r \in Nat, NEW r1 \in Nat, NEW r2 \in Nat
  PROVE  /\ (r * One) \div Q = r * Q
         /\ r * Q > 0 <=> r > 0
         /\ (r2 * (r1 * Q)) \div Q = r2 * r1
         /\ r2 * r1 > 0 <=> r1 > 0 /\ r2 > 0
<1>1. \A x \in Nat, q \in Nat \ {0} : (x * q) \div q = x
  BY SMT
<1>2. r * One = (r * Q) * Q /\ r2 * (r1 * Q) = (r2 * r1) * Q
  BY WidthAssumption DEF One
<1>3. r * Q \in Nat /\ r2 * r1 \in Nat
  BY WidthAssumption
<1>4. \A x, y \in Nat : x * y > 0 <=> x > 0 /\ y > 0
  BY SMT
<1> QED
  BY <1>1, <1>2, <1>3, <1>4, WidthAssumption
\* Quotes of the probing amount are positive when the rates they use are.
Quotable(a, b, k) ==
  \/ a = b
  \/ HasOracle(PairFor(a, b), k) /\ Rate(a, b, k) > 0
  \/ /\ ~HasOracle(PairFor(a, b), k)
     /\ Rate(a, NativeToken, k) > 0 /\ Rate(NativeToken, b, k) > 0

QuotesByRates ==
  \A a, b \in Token, k \in Periods : Quote(a, b, k, One).amount > 0 <=> Quotable(a, b, k)

LEMMA QuotePositive == HTypeOK => QuotesByRates
<1> SUFFICES ASSUME HTypeOK, NEW a \in Token, NEW b \in Token, NEW k \in Periods
             PROVE  Quote(a, b, k, One).amount > 0 <=> Quotable(a, b, k)
  BY DEF QuotesByRates
<1> DEFINE r == Rate(a, b, k)
           r1 == Rate(a, NativeToken, k)
           r2 == Rate(NativeToken, b, k)
           amount == Quote(a, b, k, One).amount
<1>1. r \in Nat /\ r1 \in Nat /\ r2 \in Nat
  BY RateType
<1>2. One \in Nat /\ One > 0
  BY WidthAssumption DEF One
<1>3. a = b => amount = One
  BY DEF Quote
<1>4. a # b /\ HasOracle(PairFor(a, b), k) => amount = r * Q
  <2> SUFFICES ASSUME a # b, HasOracle(PairFor(a, b), k) PROVE amount = r * Q
    OBVIOUS
  <2>1. amount = GetAmountOut(a, b, k, One).amount
    BY DEF Quote
  <2>2. GetAmountOut(a, b, k, One).amount = (r * One) \div Q
    BY <1>2, AmountOut
  <2> QED
    BY <1>1, <2>1, <2>2, Probe
<1>5. a # b /\ ~HasOracle(PairFor(a, b), k) => amount = r2 * r1
  <2> SUFFICES ASSUME a # b, ~HasOracle(PairFor(a, b), k) PROVE amount = r2 * r1
    OBVIOUS
  <2>1. GetAmountOut(a, NativeToken, k, One).amount = r1 * Q
    <3>1. GetAmountOut(a, NativeToken, k, One).amount = (r1 * One) \div Q
      BY <1>2, AmountOut
    <3> QED
      BY <1>1, <3>1, Probe
  <2>2. amount = GetAmountOut(NativeToken, b, k, r1 * Q).amount
    BY <2>1 DEF Quote
  <2>3. r1 * Q \in Nat
    BY <1>1, WidthAssumption
  <2>4. GetAmountOut(NativeToken, b, k, r1 * Q).amount = (r2 * (r1 * Q)) \div Q
    BY <2>3, AmountOut
  <2> QED
    BY <1>1, <2>2, <2>4, Probe
<1>6. (r * Q > 0 <=> r > 0) /\ (r2 * r1 > 0 <=> r1 > 0 /\ r2 > 0)
  BY <1>1, Probe
<1> HIDE DEF r, r1, r2, amount
<1>7. amount > 0 <=> \/ a = b
                     \/ HasOracle(PairFor(a, b), k) /\ r > 0
                     \/ ~HasOracle(PairFor(a, b), k) /\ r1 > 0 /\ r2 > 0
  BY <1>2, <1>3, <1>4, <1>5, <1>6
<1> QED
  BY <1>7 DEF r, r1, r2, amount, Quotable

LEMMA RatesStay ==
  ASSUME PricedInv, HTypeOK', [HNext]_hvars, NEW a, NEW b, NEW k \in Periods,
         Rate(a, b, k) > 0
  PROVE  Rate(a, b, k)' > 0 \/ \E q \in Pairs : CutAtClockZero(q, k)
<1>1. PairFor(a, b) \in Pairs
  BY PairForType DEF Rate
<1>2. PairFor(a, b) # NoPair
  BY <1>1, PairsAssumption DEF NoPair
<1> QED
  BY <1>1, <1>2, AveragesStay DEF Rate, Side

LEMMA QuoteStep ==
  ASSUME PricedInv, HTypeOK', [HNext]_hvars, NEW a \in Token, NEW b \in Token,
         NEW k \in Periods,
         Quote(a, b, k, One).amount > 0, Quote(a, b, k, One).amount' = 0
  PROVE  \/ /\ PairFor(a, b) # NoPair
            /\ ~HasOracle(PairFor(a, b), k) /\ HasOracle(PairFor(a, b), k)'
         \/ \E q \in Pairs : CutAtClockZero(q, k) \/ CutAtClockZero(q, k)'
<1> DEFINE p == PairFor(a, b)
<1>1. Quotable(a, b, k)
  BY QuotePositive DEF PricedInv, HInv, QuotesByRates
<1>2. ~Quotable(a, b, k)'
  <2>1. QuotesByRates'
    BY QuotePositive, PTL
  <2> QED
    BY <2>1 DEF QuotesByRates
<1>3. CASE HasOracle(p, k) /\ HasOracle(p, k)'
  BY <1>1, <1>2, <1>3, RatesStay DEF Quotable
<1>4. CASE HasOracle(p, k) /\ ~HasOracle(p, k)'
  <2>1. p \in Pairs
    BY <1>4, PairForType DEF HasOracle
  <2> QED
    BY <1>4, <2>1, OutliveStep DEF PricedInv
<1>5. CASE ~HasOracle(p, k) /\ HasOracle(p, k)'
  BY <1>5 DEF HasOracle, NoPair, PairFor
<1>6. CASE ~HasOracle(p, k) /\ ~HasOracle(p, k)'
  <2>1. Rate(a, NativeToken, k) > 0 /\ Rate(NativeToken, b, k) > 0
    BY <1>1, <1>2, <1>6 DEF Quotable
  <2>2. ~(Rate(a, NativeToken, k)' > 0) \/ ~(Rate(NativeToken, b, k)' > 0)
    BY <1>2, <1>6 DEF Quotable
  <2> QED
    BY <2>1, <2>2, RatesStay
<1> QED
  BY <1>3, <1>4, <1>5, <1>6

\* A pair of tokens that is quoted stops being quoted only when someone opens its
\* direct oracle, whose first window hides the two legs that still have prices
\* (or when an oracle cut at clock zero looks missing).
THEOREM QuotesOnlyLostByOpening == HSpec => QuoteLostOnlyByOpening
<1> DEFINE step ==
      \A a, b \in Token, k \in Periods :
        LET p == PairFor(a, b)
        IN Quote(a, b, k, One).amount > 0 /\ Quote(a, b, k, One).amount' = 0
             => \/ p # NoPair /\ ~HasOracle(p, k) /\ HasOracle(p, k)'
                \/ \E q \in Pairs : CutAtClockZero(q, k) \/ CutAtClockZero(q, k)'
<1>1. PricedInv /\ HInv' /\ [HNext]_hvars => step
  BY QuoteStep DEF HInv
<1> QED
  BY <1>1, Invariant, Priced, PTL DEF HSpec, QuoteLostOnlyByOpening
=============================================================================
