---------------------------- MODULE TwapHistory ----------------------------
(***************************************************************************)
(* The TWAP provider with history variables, and what its published         *)
(* averages mean.  The history records, with unbounded integers, the area   *)
(* under every pair's spot price and the instants where pairs traded and    *)
(* windows start.  It only observes: every action of the provider is taken  *)
(* exactly when it was before.                                              *)
(***************************************************************************)
EXTENDS UniswapV2LikePriceProvider

VARIABLES
  area,      \* area[p][s]: area under the spot price, unbounded
  moved,     \* moved[p]: the instant of the pair's last trade
  mark       \* mark[p][k]: the instant the struct oracles[p][k] was cut at

history == <<area, moved, mark>>

hvars == <<vars, history>>

Instant(p) == [at |-> now, area |-> area[p]]

Never == [at |-> MaxTime + 1, area |-> Zero]

HInit ==
  /\ Init
  /\ area = [p \in Pairs |-> pair[p].cumulativeLast]
  /\ moved = [p \in Pairs |-> IF pair[p].reserves = Empty THEN Never ELSE Instant(p)]
  /\ mark = [p \in Pairs |-> [k \in Periods |-> Never]]

HTick ==
  /\ Tick
  /\ area' = [p \in Pairs |-> [s \in Side |-> area[p][s] + Spot(pair[p].reserves)[s]]]
  /\ UNCHANGED <<moved, mark>>

HTrade(p, r) ==
  /\ Trade(p, r)
  /\ moved' = [moved EXCEPT ![p] = Instant(p)]
  /\ UNCHANGED <<area, mark>>

\* The instant the struct an update works on was cut at.
Base(p, k) == IF HasOracle(p, k) THEN mark[p][k] ELSE moved[p]

HUpdateOrAdd(p, k) ==
  /\ UpdateOrAdd(p, k)
  /\ mark' = [mark EXCEPT ![p][k] =
                IF now - Base(p, k).at >= k THEN Instant(p) ELSE Base(p, k)]
  /\ UNCHANGED <<area, moved>>

HUpdateDefaultTwapPeriod(k) ==
  /\ UpdateDefaultTwapPeriod(k)
  /\ UNCHANGED history

HNext ==
  \/ HTick
  \/ \E p \in Pairs : \E r \in Reserves : HTrade(p, r)
  \/ \E p \in Pairs, k \in Periods : HUpdateOrAdd(p, k)
  \/ \E k \in Periods : HUpdateDefaultTwapPeriod(k)

HSpec == HInit /\ [][HNext]_hvars

-----------------------------------------------------------------------------
\* The instants of the history.
InstantState == [at : StartTime..(MaxTime + 1), area : [Side -> Nat]]

\* Type correctness of the provider and of its history.
HTypeOK ==
  /\ TypeOK
  /\ area \in [Pairs -> [Side -> Nat]]
  /\ moved \in [Pairs -> InstantState]
  /\ mark \in [Pairs -> [Periods -> InstantState]]

\* A pair's accumulators are the area at its last trade, up to the wrap.
PairCut(p) ==
  IF pair[p].reserves = Empty
  THEN \A s \in Side : pair[p].cumulativeLast[s] = area[p][s] % CumMod
  ELSE /\ moved[p].at <= now
       /\ pair[p].blockTimestampLast = moved[p].at % TsMod
       /\ \A s \in Side :
            /\ pair[p].cumulativeLast[s] = moved[p].area[s] % CumMod
            /\ area[p][s] = moved[p].area[s]
                              + Spot(pair[p].reserves)[s] * (now - moved[p].at)

\* An oracle struct was cut at one instant of its pair's history.
OracleCut(p, k) ==
  HasOracle(p, k) =>
    /\ pair[p].reserves # Empty
    /\ mark[p][k].at <= now
    /\ oracles[p][k].blockTimestampLast = mark[p][k].at % TsMod
    /\ \A s \in Side :
         oracles[p][k].cumulativeLast[s] = mark[p][k].area[s] % CumMod

\* The area since that instant is one that a price below AvgMod can cover.
AreaBound(p, k) ==
  HasOracle(p, k) =>
    \A s \in Side :
      /\ mark[p][k].area[s] <= area[p][s]
      /\ area[p][s] - mark[p][k].area[s] <= (AvgMod - 1) * (now - mark[p][k].at)

\* The time and the two accumulators of every struct belong to one instant,
\* whatever wrapped since, and the area gained after it is small enough for the
\* wrapping subtraction of _updateIfNeeded to lose nothing.
CutsExact ==
  /\ \A p \in Pairs : PairCut(p)
  /\ \A p \in Pairs : \A k \in Periods : OracleCut(p, k) /\ AreaBound(p, k)

\* "Casting never truncates": every mean that an update in this state would cast to
\* 224 bits fits in them, whatever has wrapped since its window began.
CastNeverTruncates ==
  \A p \in Pairs : \A k \in Periods : \A s \in Side :
    UpdateSucceeds(p, k) /\ Elapsed(Current(p, k).blockTimestampLast) > 0
      => Mean(p, Current(p, k))[s] < AvgMod

-----------------------------------------------------------------------------
\* The provider publishes true time-weighted averages: it implements the
\* abstract TWAP oracle, although it only reads lazily updated accumulators
\* that wrap at 256 bits and 32-bit times ("overflow is desired").
TWAP ==
  INSTANCE TimeWeightedAverage WITH
    Spots <- {Spot(r) : r \in Reserves},
    spot <- [p \in Pairs |-> Spot(pair[p].reserves)],
    average <- [p \in Pairs |-> [k \in Periods |-> oracles[p][k].average]]

ImplementsTwap == TWAP!Spec

\* A trade never changes what an update of the same block would publish: the
\* price it leaves has held for no time yet.  This is what protects the quotes
\* from a price moved and moved back within one transaction.
SameBlockTradesHaveNoWeight ==
  [][\A p \in Pairs, k \in Periods :
       (/\ now' = now /\ oracles' = oracles
        /\ HasOracle(p, k) /\ Elapsed(oracles[p][k].blockTimestampLast) > 0)
         => Updated(p, oracles[p][k])' = Updated(p, oracles[p][k])]_hvars

\* An oracle cut in a second whose 32-bit time is 0, the value that also means
\* "no oracle".
CutAtClockZero(p, k) == mark[p][k] # Never /\ mark[p][k].at % TsMod = 0

\* hasOracle, once true, stays true, except through an update at clock zero.
OraclesOutliveUpdates ==
  [][\A p \in Pairs, k \in Periods :
       HasOracle(p, k) => HasOracle(p, k)' \/ CutAtClockZero(p, k)']_hvars

\* The price of a token pair can go from quoted to zero only when someone opens
\* the direct oracle of a pair that was quoted through the native token: until
\* its first window closes, the two legs that still have prices are not asked.
\* (Or when an oracle cut at clock zero looks missing.)
One == Q * Q
QuoteLostOnlyByOpening ==
  [][\A a, b \in Token, k \in Periods :
       LET p == PairFor(a, b)
       IN Quote(a, b, k, One).amount > 0 /\ Quote(a, b, k, One).amount' = 0
            => \/ p # NoPair /\ ~HasOracle(p, k) /\ HasOracle(p, k)'
               \/ \E q \in Pairs : CutAtClockZero(q, k) \/ CutAtClockZero(q, k)']_hvars
=============================================================================
