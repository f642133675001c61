------------------------ MODULE TimeWeightedAverage ------------------------
(***************************************************************************)
(* What a time-weighted average price (TWAP) oracle promises, without       *)
(* accumulators, wrap-around or lazy checkpoints.                           *)
(*                                                                          *)
(* A pair has a spot price on each of its two sides.  The area under that   *)
(* price grows second by second.  A published average is the exact mean of  *)
(* the price over one window of time: the area gained between two instants, *)
(* divided by the time between them.  A window ends when it is published,   *)
(* lasts at least the period it is published for, and starts either where   *)
(* the previous one ended or at the last move of the spot price.            *)
(***************************************************************************)
EXTENDS Integers

CONSTANTS Pairs,      \* the pools that are observed
          Periods,    \* the averaging periods in use
          Spots,      \* the values the two spot prices of a pair may take
          StartTime, MaxTime

Side == {0, 1}                        \* price of token0 and price of token1
NoPrice == [s \in Side |-> 0]

VARIABLES now,        \* the current second
          spot,       \* spot[p][s]: price of the pair since its last move
          area,       \* area[p][s]: area under the price, up to now
          moved,      \* moved[p]: the instant of the last move
          mark,       \* mark[p][k]: the instant where the open window starts
          average     \* average[p][k][s]: the published mean, 0 before it

vars == <<now, spot, area, moved, mark, average>>

\* An instant of a pair's history: a time and the area under the price then.
Instant(p) == [at |-> now, area |-> area[p]]

\* An instant no later second comes after, so that no window starts there.
Never == [at |-> MaxTime + 1, area |-> NoPrice]

Init ==
  /\ now = StartTime
  /\ spot \in [Pairs -> Spots \cup {NoPrice}]
  /\ area \in [Pairs -> [Side -> Nat]]
  /\ moved = [p \in Pairs |-> IF spot[p] = NoPrice THEN Never ELSE Instant(p)]
  /\ mark = [p \in Pairs |-> [k \in Periods |-> Never]]
  /\ average = [p \in Pairs |-> [k \in Periods |-> NoPrice]]

\* A second passes.
Pass ==
  /\ now < MaxTime
  /\ now' = now + 1
  /\ area' = [p \in Pairs |-> [s \in Side |-> area[p][s] + spot[p][s]]]
  /\ UNCHANGED <<spot, moved, mark, average>>

\* The spot price of a pair moves.
Move(p, price) ==
  /\ spot' = [spot EXCEPT ![p] = price]
  /\ moved' = [moved EXCEPT ![p] = Instant(p)]
  /\ UNCHANGED <<now, area, mark, average>>

\* The mean price between an instant and now.
MeanSince(p, base) ==
  [s \in Side |-> (area[p][s] - base.area[s]) \div (now - base.at)]

\* A window closes: its mean is published and the next window starts here.
Publish(p, k) ==
  /\ \E base \in {mark[p][k], moved[p]} :
       /\ now > base.at
       /\ now - base.at >= k
       /\ average' = [average EXCEPT ![p][k] = MeanSince(p, base)]
  /\ mark' = [mark EXCEPT ![p][k] = Instant(p)]
  /\ UNCHANGED <<now, spot, area, moved>>

\* The first window opens; nothing is published until it closes.
Open(p, k) ==
  /\ moved[p] # Never
  /\ now - moved[p].at < k
  /\ mark' = [mark EXCEPT ![p][k] = moved[p]]
  /\ average' = [average EXCEPT ![p][k] = NoPrice]
  /\ UNCHANGED <<now, spot, area, moved>>

Next ==
  \/ Pass
  \/ \E p \in Pairs : \E price \in Spots : Move(p, price)
  \/ \E p \in Pairs, k \in Periods : Publish(p, k) \/ Open(p, k)

Spec == Init /\ [][Next]_vars
=============================================================================
