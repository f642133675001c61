-------------------------- MODULE RedstoneHistory --------------------------
(***************************************************************************)
(* The Redstone cache with history variables that remember which feed a     *)
(* cached price came from and what the governor changed, and the properties *)
(* of what the cache serves.                                                *)
(***************************************************************************)
EXTENDS RedstonePriceProvider

VARIABLES
  source,       \* source[x]: the feed of x's cached price, Null before one
  lastListed,   \* lastListed[x]: the last second x's source listed x
  relisted      \* the tokens that any updateFeed added, kept or removed

history == <<source, lastListed, relisted>>

hvars == <<vars, history>>

HInit ==
  /\ Init
  /\ source = [x \in Token |-> Null]
  /\ lastListed = [x \in Token |-> StartTime]
  /\ relisted = {}

\* lastListed follows the clock for as long as the source lists the token.
ObserveListing ==
  lastListed' = [x \in Token |->
    IF source'[x] \in Feed /\ x \in Range(feeds'[source'[x]]) THEN now' ELSE lastListed[x]]

HTick == Tick /\ UNCHANGED <<source, relisted>> /\ ObserveListing

HUpdatePrice(ids, t, values) ==
  /\ Distinct(ids)
  /\ UpdatePrice(ids, t, values)
  /\ source' = [x \in Token |->
       IF Lists(ids, x) # {} /\ t # cache[x].priceTimestamp
       THEN ids[FirstListing(ids, x)] ELSE source[x]]
  /\ UNCHANGED relisted
  /\ ObserveListing

HUpdateFeed(f, tokens) ==
  /\ UpdateFeed(f, tokens)
  /\ relisted' = relisted \cup Listed(f) \cup Range(tokens)
  /\ UNCHANGED source
  /\ ObserveListing

HNext ==
  \/ HTick
  \/ \E ids \in Requests : \E t \in PackageTimes : \E values \in Values(ids, t) :
       HUpdatePrice(ids, t, values)
  \/ \E f \in Feed : \E tokens \in Listings : HUpdateFeed(f, tokens)

HSpec == HInit /\ [][HNext]_hvars

-----------------------------------------------------------------------------
\* Type correctness of the provider and its history.
HTypeOK ==
  /\ TypeOK
  /\ source \in [Token -> Feed \cup {Null}]
  /\ lastListed \in [Token -> StartTime..MaxTime]
  /\ relisted \subseteq Token \cup {Null}

Served(x) == GetPriceInUsd(x) # NoPrice

\* Whatever packages arrive, late, repeated or in any order, a served price is
\* one its feed was signed at, at a time within the tolerance of the block's.
ServedPriceIsSigned ==
  \A x \in Token : Served(x) =>
    LET answer == GetPriceInUsd(x)
    IN /\ source[x] \in Feed
       /\ \E v \in Signed(source[x], answer.at) : answer.amount = v * ToScale
       /\ answer.at - now \in -MaxTimeTolerance..MaxTimeTolerance

\* An older package may overwrite a newer one, but between two consecutive
\* blocks or transactions a reader never goes back by more than twice the
\* tolerance.
ReadsGoBackAtMostTwiceTheTolerance ==
  [][\A x \in Token :
       Served(x) /\ Served(x)' =>
         GetPriceInUsd(x).at' >= GetPriceInUsd(x).at - 2 * MaxTimeTolerance]_hvars

\* The price of a feed that the governor took a token away from is not served
\* for longer than the signers' skew plus the tolerance, even though updateFeed
\* leaves the cache and a package of the same second does not replace it.
DelistedPriceExpires ==
  \A x \in Token : Served(x) => now <= lastListed[x] + Skew + MaxTimeTolerance

\* Tokens that the constructor listed under one feed, and no updateFeed touched,
\* always have the same price and time: no order of packages splits them.
SiblingsAgree ==
  \A f \in Feed : \A x, y \in Listed(f) \ relisted :
    x \in Token /\ y \in Token => cache[x] = cache[y]
=============================================================================
