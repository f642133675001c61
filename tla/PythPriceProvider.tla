------------------------- MODULE PythPriceProvider -------------------------
(***************************************************************************)
(* src/contracts/core/PythPriceProvider.sol: prices read from the storage   *)
(* of Pyth's contract, which anyone updates with signed prices.             *)
(*                                                                          *)
(* Pyth is external.  Published(f) is the set of prices that are signed for *)
(* feed f, each a number with a decimal exponent; a price is available from *)
(* Skew seconds before the second it is dated and for ever after, and Pyth  *)
(* keeps a price unless it gets a later one.                                *)
(***************************************************************************)
EXTENDS PriceProvider, BlockTime

CONSTANTS
  FeedId, NoFeedId,
  Published(_),
  InitFeedIds,           \* the feeds set by the constructor
  Fed,                   \* bound: the tokens whose feed the governor changes
  UpdateFee, Payments,   \* Pyth's fee, and the payments that callers attach
  UsdDecimals,           \* 18; MIN_EXPONENT is its negation
  MaxTimeTolerance,      \* 60 seconds in the contract
  Skew

ASSUME FeedIdsAssumption ==
  NoFeedId \notin FeedId /\ InitFeedIds \in [Token -> FeedId \cup {NoFeedId}]

ASSUME PythAssumption ==
  /\ UpdateFee \in Nat /\ Payments \subseteq Nat
  /\ UsdDecimals \in Nat /\ MaxTimeTolerance \in Nat /\ Skew \in Nat
  /\ \A f \in FeedId : Published(f) \subseteq [price : Int, expo : Int]

\* An arithmetic fact: the powers that exponents scale prices with are positive.
ASSUME PowersAssumption == \A n \in 0..UsdDecimals : 10 ^ n \in Nat \ {0}

VARIABLES
  feedIds,
  priceInfo,             \* priceInfo[f]: Pyth's storage
  ether                  \* the provider's balance

pythVars == <<feedIds, priceInfo, ether>>

vars == <<now, pythVars>>

NeverPublished == [price |-> 0, expo |-> 0, publishTime |-> 0]

PriceInfo == [price : Int, expo : Int, publishTime : Nat]

\* Of what a caller pays, nothing stays with the provider.
TypeOK ==
  /\ now \in StartTime..MaxTime
  /\ feedIds \in [Token -> FeedId \cup {NoFeedId}]
  /\ priceInfo \in [FeedId -> PriceInfo]
  /\ ether = 0

Init ==
  /\ now = StartTime
  /\ feedIds = InitFeedIds
  /\ priceInfo = [f \in FeedId |-> NeverPublished]
  /\ ether = 0

Tick == Pass /\ UNCHANGED pythVars

Updates(f) ==
  {[price |-> p.price, expo |-> p.expo, publishTime |-> t] :
     p \in Published(f), t \in 1..(now + Skew)}

\* Pyth ignores a price that is not later than the one it has.
Stored(f, update) ==
  IF update.publishTime > priceInfo[f].publishTime
  THEN [priceInfo EXCEPT ![f] = update] ELSE priceInfo

\* Mutant: what was paid beyond the fee is kept.
UpdatePrice_KeepsChange(f, update, value) ==
  /\ value >= UpdateFee
  /\ priceInfo' = Stored(f, update)
  /\ ether' = ether + value - UpdateFee
  /\ UNCHANGED <<now, feedIds>>

\* The caller's value comes in, the fee goes to Pyth and the change goes back.  Pyth
\* stores the same price for a caller of its own.
UpdatePrice(f, update, value) ==
  /\ value >= UpdateFee
  /\ priceInfo' = Stored(f, update)
  /\ ether' = ether + value - UpdateFee
                - (IF value > UpdateFee THEN value - UpdateFee ELSE 0)
  /\ UNCHANGED <<now, feedIds>>

UpdateFeedId(x, f) ==
  /\ feedIds' = [feedIds EXCEPT ![x] = f]
  /\ UNCHANGED <<now, priceInfo, ether>>

PythNext ==
  \/ \E f \in FeedId : \E update \in Updates(f) :
       \E value \in Payments : UpdatePrice(f, update, value)
  \/ \E x \in Fed : \E f \in FeedId \cup {NoFeedId} : UpdateFeedId(x, f)

Spec == Init /\ [][Tick \/ PythNext]_vars

-----------------------------------------------------------------------------
\* Mutant: a price may be dated any time ahead.
Timely_AnyAhead(at) == now - at <= MaxTimeTolerance

\* Mutant: a price may be of any age.
Timely_AnyAge(at) == at - now <= MaxTimeTolerance

Timely(at) == now - at <= MaxTimeTolerance /\ at - now <= MaxTimeTolerance

\* getPriceUnsafe reverts for a feed without a price, and the cast of a negative
\* price to an unsigned one reverts too.
GetPriceInUsd(x) ==
  LET info == priceInfo[feedIds[x]]
  IN IF feedIds[x] = NoFeedId THEN NoPrice
     ELSE IF info = NeverPublished THEN Reverted
     ELSE IF \/ ~Timely(info.publishTime)
             \/ info.price = 0
             \/ info.expo < -UsdDecimals \/ info.expo > 0
     THEN NoPrice
     ELSE IF info.price < 0 THEN Reverted
     ELSE Answer(info.price * 10 ^ (UsdDecimals + info.expo), info.publishTime)

Priced(x) == GetPriceInUsd(x).ok /\ GetPriceInUsd(x).amount > 0

\* Two prices that are served at the same time were published within twice the
\* tolerance of each other, the one late and the other early: no quote mixes prices
\* that are further apart.
LegsAreClose ==
  \A x, y \in Token :
    Priced(x) /\ Priced(y) =>
      GetPriceInUsd(x).at - GetPriceInUsd(y).at <= 2 * MaxTimeTolerance
=============================================================================
