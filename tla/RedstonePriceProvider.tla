----------------------- MODULE RedstonePriceProvider -----------------------
(***************************************************************************)
(* src/contracts/core/RedstonePriceProvider.sol: a cache of prices that     *)
(* anyone fills with signed data packages carried by the transaction.       *)
(*                                                                          *)
(* The Redstone signers are external.  Signed(f, t) is the set of values    *)
(* that feed f can be shown to have at second t: the median of three        *)
(* signers, and whoever sends the transaction picks the three.  A package   *)
(* exists from Skew seconds before its own time, since the signers' clocks  *)
(* are not the chain's, and for ever after: the provider calls the          *)
(* extraction that does not validate the time, so a package may arrive      *)
(* late, twice, or after a newer one.                                       *)
(***************************************************************************)
EXTENDS PriceProvider, BlockTime, Sequences, Functions

CONSTANTS
  Feed,
  Null,                  \* address(0), which a feed may list
  Signed(_, _),
  InitFeeds,             \* the lists set by the constructor
  Listings,              \* the token lists the governor may set
  ToScale,               \* 10^(USD_DECIMALS - REDSTONE_DECIMALS)
  MaxTimeTolerance,      \* 60 seconds in the contract
  Skew                   \* seconds the signers may be ahead of the chain

ASSUME ListingsAssumption ==
  /\ Null \notin Token
  /\ Listings \subseteq Seq(Token \cup {Null})
  /\ InitFeeds \in [Feed -> Seq(Token \cup {Null})]

ASSUME ToleranceAssumption ==
  /\ Skew \in Nat /\ MaxTimeTolerance \in Nat /\ ToScale \in Nat \ {0}

ASSUME SignedAssumption ==
  \A f \in Feed : \A t \in 1..(MaxTime + Skew) : Signed(f, t) \subseteq Nat

VARIABLES
  feeds,                 \* feeds[f]: the tokens priced by feed f, in order
  cache                  \* cache[x]: price and time of the last package used

vars == <<now, feeds, cache>>

Listed(f) == Range(feeds[f])

CacheEntry == [price : Nat, priceTimestamp : Nat]

TypeOK ==
  /\ now \in StartTime..MaxTime
  /\ feeds \in [Feed -> Seq(Token \cup {Null})]
  /\ cache \in [Token -> CacheEntry]

Init ==
  /\ now = StartTime
  /\ feeds = InitFeeds
  /\ cache = [x \in Token |-> [price |-> 0, priceTimestamp |-> 0]]

Tick ==
  /\ Pass
  /\ UNCHANGED <<feeds, cache>>

\* The seconds for which packages exist now.
PackageTimes == 1..(now + Skew)

\* The arrays a transaction may ask for: feeds without repetition.
Requests == {<<f>> : f \in Feed} \cup {<<f, g>> : f \in Feed, g \in Feed}
Distinct(ids) == \A i, j \in DOMAIN ids : i # j => ids[i] # ids[j]

\* The first of the requested feeds that lists a token.  When several do, the
\* others find the cache already at this timestamp and leave it.
Lists(ids, x) == {i \in DOMAIN ids : x \in Listed(ids[i])}
FirstListing(ids, x) ==
  CHOOSE i \in Lists(ids, x) : \A j \in Lists(ids, x) : i <= j

\* Mutant: the price of the first requested feed goes to every token.
UpdatePrice_FirstValue(ids, t, values) ==
  /\ \A i \in DOMAIN ids : values[i] \in Signed(ids[i], t) /\ Null \notin Listed(ids[i])
  /\ cache' = [x \in Token |->
       IF Lists(ids, x) # {} /\ t # cache[x].priceTimestamp
       THEN [price |-> values[1] * ToScale, priceTimestamp |-> t]
       ELSE cache[x]]
  /\ UNCHANGED <<now, feeds>>

\* Mutant: only the first token of a feed is updated.
UpdatePrice_FirstToken(ids, t, values) ==
  /\ \A i \in DOMAIN ids : values[i] \in Signed(ids[i], t) /\ Null \notin Listed(ids[i])
  /\ cache' = [x \in Token |->
       IF /\ Lists(ids, x) # {} /\ t # cache[x].priceTimestamp
          /\ feeds[ids[FirstListing(ids, x)]][1] = x
       THEN [price |-> values[FirstListing(ids, x)] * ToScale, priceTimestamp |-> t]
       ELSE cache[x]]
  /\ UNCHANGED <<now, feeds>>

\* Mutant: without the check, the null token of an unset feed gets a price.
UpdatePrice_NullPriced(ids, t, values) ==
  /\ \A i \in DOMAIN ids : values[i] \in Signed(ids[i], t)
  /\ cache' = [x \in DOMAIN cache \cup UNION {Listed(ids[i]) : i \in DOMAIN ids} |->
       IF Lists(ids, x) # {} /\ (x \in Token => t # cache[x].priceTimestamp)
       THEN [price |-> values[FirstListing(ids, x)] * ToScale, priceTimestamp |-> t]
       ELSE cache[x]]
  /\ UNCHANGED <<now, feeds>>

\* updatePrice: all packages of a transaction carry one time t.  A null token in
\* any of the lists reverts the whole transaction; a feed that lists nothing
\* passes silently.
UpdatePrice(ids, t, values) ==
  /\ \A i \in DOMAIN ids : values[i] \in Signed(ids[i], t) /\ Null \notin Listed(ids[i])
  /\ cache' = [x \in Token |->
       IF Lists(ids, x) # {} /\ t # cache[x].priceTimestamp
       THEN [price |-> values[FirstListing(ids, x)] * ToScale, priceTimestamp |-> t]
       ELSE cache[x]]
  /\ UNCHANGED <<now, feeds>>

\* The values a transaction may prove for the feeds it asks for.
Values(ids, t) == {v \in [DOMAIN ids -> UNION {Signed(ids[i], t) : i \in DOMAIN ids}] :
                     \A i \in DOMAIN ids : v[i] \in Signed(ids[i], t)}

UpdatePrices ==
  \E ids \in Requests : \E t \in PackageTimes : \E values \in Values(ids, t) :
    Distinct(ids) /\ UpdatePrice(ids, t, values)

\* updateFeed replaces the list.  What was cached for the tokens stays.
UpdateFeed(f, tokens) ==
  /\ feeds' = [feeds EXCEPT ![f] = tokens]
  /\ UNCHANGED <<now, cache>>

Next ==
  \/ Tick
  \/ UpdatePrices
  \/ \E f \in Feed : \E tokens \in Listings : UpdateFeed(f, tokens)

Spec == Init /\ [][Next]_vars

\* Mutant: any time ahead of the block is accepted.
GetPriceInUsd_AnyAhead(x) ==
  LET at == cache[x].priceTimestamp
  IN IF at = 0 \/ (at < now /\ now - at > MaxTimeTolerance)
     THEN NoPrice ELSE Answer(cache[x].price, at)

\* Mutant: any time behind the block is accepted.
GetPriceInUsd_AnyBehind(x) ==
  LET at == cache[x].priceTimestamp
  IN IF at = 0 \/ (at > now /\ at - now > MaxTimeTolerance)
     THEN NoPrice ELSE Answer(cache[x].price, at)

\* getPriceInUsd: the cached price while its time is within the tolerance of
\* the block's, on either side, and (0, 0) otherwise.
GetPriceInUsd(x) ==
  LET at == cache[x].priceTimestamp
  IN IF \/ at = 0
        \/ at < now /\ now - at > MaxTimeTolerance
        \/ at > now /\ at - now > MaxTimeTolerance
     THEN NoPrice
     ELSE Answer(cache[x].price, at)
=============================================================================
