--------------------------- MODULE RedstoneProofs ---------------------------
(***************************************************************************)
(* Proofs about the Redstone cache, for every set of feeds and tokens,      *)
(* every signed value, tolerance and skew, and every list the governor may  *)
(* set.                                                                     *)
(***************************************************************************)
EXTENDS RedstoneHistory, TLAPS

-----------------------------------------------------------------------------
\* What one update writes.

\* A requested array holds one or two feeds.
LEMMA RequestType ==
  ASSUME NEW ids \in Requests
  PROVE  /\ ids \in Seq(Feed)
         /\ DOMAIN ids = {1} \/ DOMAIN ids = {1, 2}
<1>1. CASE ids \in {<<f>> : f \in Feed}
  <2>1. PICK f \in Feed : ids = <<f>>
    BY <1>1
  <2>2. DOMAIN ids = 1..1
    BY <2>1
  <2> QED
    BY <2>1, <2>2
<1>2. CASE ids \in {<<f, g>> : f \in Feed, g \in Feed}
  <2>1. PICK f \in Feed, g \in Feed : ids = <<f, g>>
    BY <1>2
  <2>2. DOMAIN ids = 1..2
    BY <2>1
  <2> QED
    BY <2>1, <2>2
<1> QED
  BY <1>1, <1>2 DEF Requests

\* A token that some requested feed lists has a first one that does.
LEMMA FirstListingLists ==
  ASSUME NEW ids \in Requests, NEW x, Lists(ids, x) # {}
  PROVE  FirstListing(ids, x) \in Lists(ids, x)
<1>1. DOMAIN ids = {1} \/ DOMAIN ids = {1, 2}
  BY RequestType
<1>2. \E i \in Lists(ids, x) : \A j \in Lists(ids, x) : i <= j
  BY <1>1 DEF Lists
<1> QED
  BY <1>2 DEF FirstListing

\* The value shown for a requested feed is one its signers signed for that time.
LEMMA ValueSigned ==
  ASSUME NEW ids \in Requests, NEW t, NEW values \in Values(ids, t), NEW i \in DOMAIN ids
  PROVE  values[i] \in Signed(ids[i], t)
  BY DEF Values

\* The entry a token has after an update.
LEMMA EntryAfter ==
  ASSUME NEW ids \in Requests, NEW t, NEW values \in Values(ids, t),
         HUpdatePrice(ids, t, values), NEW x \in Token
  PROVE  \/ /\ cache'[x] = cache[x] /\ source'[x] = source[x]
            /\ Lists(ids, x) = {} \/ t = cache[x].priceTimestamp
         \/ \E i \in DOMAIN ids :
              /\ i = FirstListing(ids, x)
              /\ x \in Listed(ids[i])
              /\ ids[i] \in Feed
              /\ source'[x] = ids[i]
              /\ cache'[x] = [price |-> values[i] * ToScale, priceTimestamp |-> t]
<1>1. CASE Lists(ids, x) # {} /\ t # cache[x].priceTimestamp
  <2> DEFINE i == FirstListing(ids, x)
  <2>1. i \in Lists(ids, x)
    BY <1>1, FirstListingLists
  <2>2. i \in DOMAIN ids /\ x \in Listed(ids[i]) /\ ids[i] \in Feed
    BY <2>1, RequestType DEF Lists
  <2>3. source'[x] = ids[i] /\ cache'[x] = [price |-> values[i] * ToScale, priceTimestamp |-> t]
    BY <1>1 DEF HUpdatePrice, UpdatePrice
  <2> QED
    BY <2>2, <2>3
<1>2. CASE ~(Lists(ids, x) # {} /\ t # cache[x].priceTimestamp)
  BY <1>2 DEF HUpdatePrice, UpdatePrice
<1> QED
  BY <1>1, <1>2

-----------------------------------------------------------------------------
\* Type correctness.

LEMMA InitType == HInit => HTypeOK
  BY TimeAssumption, ListingsAssumption
  DEF HInit, Init, HTypeOK, TypeOK, CacheEntry

\* lastListed stays a time of the model.
LEMMA ObserveType ==
  ASSUME HTypeOK, now' \in StartTime..MaxTime, ObserveListing
  PROVE  lastListed' \in [Token -> StartTime..MaxTime]
  BY DEF HTypeOK, ObserveListing

LEMMA UpdatePriceType ==
  ASSUME HTypeOK, NEW ids \in Requests, NEW t \in PackageTimes,
         NEW values \in Values(ids, t), HUpdatePrice(ids, t, values)
  PROVE  HTypeOK'
<1>1. t \in Nat /\ t \in 1..(MaxTime + Skew)
  BY TimeAssumption, ToleranceAssumption DEF HTypeOK, TypeOK, PackageTimes
<1>2. now' = now /\ feeds' = feeds /\ relisted' = relisted
  BY DEF HUpdatePrice, UpdatePrice
<1>3. cache' \in [Token -> CacheEntry]
  <2>1. ASSUME NEW x \in Token PROVE cache'[x] \in CacheEntry
    <3>1. CASE cache'[x] = cache[x]
      BY <3>1 DEF HTypeOK, TypeOK
    <3>2. ASSUME NEW i \in DOMAIN ids, ids[i] \in Feed,
                 cache'[x] = [price |-> values[i] * ToScale, priceTimestamp |-> t]
          PROVE  cache'[x] \in CacheEntry
      <4>1. values[i] \in Nat
        BY <1>1, <3>2, ValueSigned, SignedAssumption
      <4>2. values[i] * ToScale \in Nat
        BY <4>1, ToleranceAssumption
      <4> QED
        BY <4>2, <3>2, <1>1 DEF CacheEntry
    <3>3. \/ cache'[x] = cache[x]
          \/ \E i \in DOMAIN ids :
               /\ ids[i] \in Feed
               /\ cache'[x] = [price |-> values[i] * ToScale, priceTimestamp |-> t]
      BY EntryAfter, Zenon
    <3> QED
      BY <3>1, <3>2, <3>3, Zenon
  <2>2. cache' = [x \in Token |-> cache'[x]]
    BY DEF HUpdatePrice, UpdatePrice
  <2> QED
    BY <2>1, <2>2
<1>4. source' \in [Token -> Feed \cup {Null}]
  <2>1. ASSUME NEW x \in Token PROVE source'[x] \in Feed \cup {Null}
    BY EntryAfter DEF HTypeOK
  <2>2. source' = [x \in Token |-> source'[x]]
    BY DEF HUpdatePrice
  <2> QED
    BY <2>1, <2>2
<1>5. lastListed' \in [Token -> StartTime..MaxTime]
  BY <1>2, ObserveType DEF HUpdatePrice, HTypeOK, TypeOK
<1> QED
  BY <1>2, <1>3, <1>4, <1>5 DEF HTypeOK, TypeOK

LEMMA NextType == HTypeOK /\ [HNext]_hvars => HTypeOK'
<1> SUFFICES ASSUME HTypeOK, [HNext]_hvars PROVE HTypeOK'
  OBVIOUS
<1>1. CASE HTick
  <2>1. now' \in StartTime..MaxTime
    BY <1>1, TimeAssumption DEF HTick, Tick, Pass, HTypeOK, TypeOK
  <2>2. lastListed' \in [Token -> StartTime..MaxTime]
    BY <1>1, <2>1, ObserveType DEF HTick
  <2> QED
    BY <1>1, <2>1, <2>2 DEF HTick, Tick, HTypeOK, TypeOK
<1>2. ASSUME NEW ids \in Requests, NEW t \in PackageTimes, NEW values \in Values(ids, t),
             HUpdatePrice(ids, t, values)
      PROVE  HTypeOK'
  BY <1>2, UpdatePriceType
<1>3. ASSUME NEW f \in Feed, NEW tokens \in Listings, HUpdateFeed(f, tokens)
      PROVE  HTypeOK'
  <2>1. tokens \in Seq(Token \cup {Null})
    BY ListingsAssumption
  <2>2. feeds' \in [Feed -> Seq(Token \cup {Null})]
    BY <1>3, <2>1 DEF HUpdateFeed, UpdateFeed, HTypeOK, TypeOK
  <2>3. Listed(f) \subseteq Token \cup {Null} /\ Range(tokens) \subseteq Token \cup {Null}
    BY <2>1 DEF HTypeOK, TypeOK, Listed, Range
  <2>4. lastListed' \in [Token -> StartTime..MaxTime]
    BY <1>3, ObserveType DEF HUpdateFeed, UpdateFeed, HTypeOK, TypeOK
  <2> QED
    BY <1>3, <2>2, <2>3, <2>4 DEF HUpdateFeed, UpdateFeed, HTypeOK, TypeOK
<1>4. CASE UNCHANGED hvars
  BY <1>4 DEF hvars, vars, history, HTypeOK, TypeOK
<1> QED
  BY <1>1, <1>2, <1>3, <1>4 DEF HNext

\* The provider's state and its history keep their types: in particular no
\* update ever writes a negative price or prices the null token.
THEOREM CacheTypeCorrect == HSpec => []HTypeOK
  BY InitType, NextType, PTL DEF HSpec

-----------------------------------------------------------------------------
\* What is served was signed.

\* Every entry that was ever written holds a value its feed was signed at.
EntriesSigned ==
  \A x \in Token : cache[x].priceTimestamp # 0 =>
    /\ source[x] \in Feed
    /\ \E v \in Signed(source[x], cache[x].priceTimestamp) : cache[x].price = v * ToScale

LEMMA UpdateSigned ==
  ASSUME EntriesSigned, NEW ids \in Requests, NEW t \in PackageTimes,
         NEW values \in Values(ids, t), HUpdatePrice(ids, t, values)
  PROVE  EntriesSigned'
<1> SUFFICES ASSUME NEW x \in Token, (cache[x].priceTimestamp # 0)'
             PROVE  (/\ source[x] \in Feed
                     /\ \E v \in Signed(source[x], cache[x].priceTimestamp) :
                          cache[x].price = v * ToScale)'
  BY DEF EntriesSigned
<1>1. CASE cache'[x] = cache[x] /\ source'[x] = source[x]
  BY <1>1 DEF EntriesSigned
<1>2. ASSUME NEW i \in DOMAIN ids, ids[i] \in Feed, source'[x] = ids[i],
             cache'[x] = [price |-> values[i] * ToScale, priceTimestamp |-> t]
      PROVE  (/\ source[x] \in Feed
              /\ \E v \in Signed(source[x], cache[x].priceTimestamp) :
                   cache[x].price = v * ToScale)'
  BY <1>2, ValueSigned
<1>3. \/ cache'[x] = cache[x] /\ source'[x] = source[x]
      \/ \E i \in DOMAIN ids :
           /\ ids[i] \in Feed
           /\ source'[x] = ids[i]
           /\ cache'[x] = [price |-> values[i] * ToScale, priceTimestamp |-> t]
  BY EntryAfter, Zenon
<1> QED
  BY <1>1, <1>2, <1>3

LEMMA NextSigned == EntriesSigned /\ [HNext]_hvars => EntriesSigned'
<1> SUFFICES ASSUME EntriesSigned, [HNext]_hvars PROVE EntriesSigned'
  OBVIOUS
<1>1. CASE HTick
  BY <1>1 DEF HTick, Tick, EntriesSigned
<1>2. ASSUME NEW ids \in Requests, NEW t \in PackageTimes, NEW values \in Values(ids, t),
             HUpdatePrice(ids, t, values)
      PROVE  EntriesSigned'
  BY <1>2, UpdateSigned
<1>3. ASSUME NEW f \in Feed, NEW tokens \in Listings, HUpdateFeed(f, tokens)
      PROVE  EntriesSigned'
  BY <1>3 DEF HUpdateFeed, UpdateFeed, EntriesSigned
<1>4. CASE UNCHANGED hvars
  BY <1>4 DEF hvars, vars, history, EntriesSigned
<1> QED
  BY <1>1, <1>2, <1>3, <1>4 DEF HNext

\* A served time is within the tolerance of the block's.
LEMMA ServedInTime ==
  ASSUME HTypeOK, NEW x \in Token, Served(x)
  PROVE  /\ GetPriceInUsd(x) = Answer(cache[x].price, cache[x].priceTimestamp)
         /\ cache[x].priceTimestamp # 0
         /\ cache[x].priceTimestamp \in Nat
         /\ cache[x].priceTimestamp - now \in -MaxTimeTolerance..MaxTimeTolerance
<1>1. cache[x].priceTimestamp \in Nat /\ now \in Nat
  BY TimeAssumption DEF HTypeOK, TypeOK, CacheEntry
<1> QED
  BY <1>1, ToleranceAssumption DEF Served, GetPriceInUsd

LEMMA ServedSigned == HTypeOK /\ EntriesSigned => ServedPriceIsSigned
<1> SUFFICES ASSUME HTypeOK, EntriesSigned, NEW x \in Token, Served(x)
             PROVE  LET answer == GetPriceInUsd(x)
                    IN /\ source[x] \in Feed
                       /\ \E v \in Signed(source[x], answer.at) : answer.amount = v * ToScale
                       /\ answer.at - now \in -MaxTimeTolerance..MaxTimeTolerance
  BY DEF ServedPriceIsSigned
<1> QED
  BY ServedInTime DEF EntriesSigned, Answer

\* A price that getPriceInUsd serves was signed for a feed that listed the token,
\* at a time within the tolerance, whatever packages came in whatever order.
THEOREM ServesOnlySignedPrices == HSpec => []ServedPriceIsSigned
<1>1. HInit => EntriesSigned
  BY DEF HInit, Init, EntriesSigned
<1> QED
  BY <1>1, NextSigned, ServedSigned, CacheTypeCorrect, PTL DEF HSpec

-----------------------------------------------------------------------------
\* How far a reader goes back, and how long a dropped token is served.

LEMMA StepForward ==
  HTypeOK /\ HTypeOK' /\ [HNext]_hvars =>
    [\A x \in Token :
       Served(x) /\ Served(x)' =>
         GetPriceInUsd(x).at' >= GetPriceInUsd(x).at - 2 * MaxTimeTolerance]_hvars
<1> SUFFICES ASSUME HTypeOK, HTypeOK', [HNext]_hvars,
                    NEW x \in Token, Served(x), Served(x)'
             PROVE  GetPriceInUsd(x).at' >= GetPriceInUsd(x).at - 2 * MaxTimeTolerance
  OBVIOUS
<1>1. now \in Nat /\ now' \in Nat /\ now' >= now
  BY TimeAssumption
  DEF HTypeOK, TypeOK, HNext, HTick, Tick, Pass, HUpdatePrice, UpdatePrice,
      HUpdateFeed, UpdateFeed, hvars, vars
<1>2. GetPriceInUsd(x).at = cache[x].priceTimestamp
  BY ServedInTime DEF Answer
<1>3. cache'[x].priceTimestamp \in Nat
  BY DEF HTypeOK, TypeOK, CacheEntry
<1>4. /\ GetPriceInUsd(x).at' = cache'[x].priceTimestamp
      /\ cache'[x].priceTimestamp - now' \in -MaxTimeTolerance..MaxTimeTolerance
  BY <1>1, <1>3, ToleranceAssumption DEF Served, GetPriceInUsd, Answer
<1>5. cache[x].priceTimestamp \in Nat
      /\ cache[x].priceTimestamp - now \in -MaxTimeTolerance..MaxTimeTolerance
  BY ServedInTime
<1> QED
  BY <1>1, <1>2, <1>3, <1>4, <1>5, ToleranceAssumption

\* A reader never goes back by more than twice the tolerance, although an older
\* package overwrites a newer one.
THEOREM ReadsGoBackLittle == HSpec => ReadsGoBackAtMostTwiceTheTolerance
  BY StepForward, CacheTypeCorrect, PTL DEF HSpec, ReadsGoBackAtMostTwiceTheTolerance

\* A cached price is not newer than the skew allows for the last second in which
\* its feed listed the token.
EntriesListed ==
  \A x \in Token :
    /\ lastListed[x] <= now
    /\ cache[x].priceTimestamp <= lastListed[x] + Skew

LEMMA InitListed == HInit => EntriesListed
  BY TimeAssumption, ToleranceAssumption DEF HInit, Init, EntriesListed

\* lastListed only moves to the present.
LEMMA ObserveForward ==
  ASSUME HTypeOK, HTypeOK', ObserveListing, now' >= now, NEW x \in Token, lastListed[x] <= now
  PROVE  lastListed'[x] <= now' /\ lastListed'[x] >= lastListed[x]
  BY TimeAssumption DEF HTypeOK, TypeOK, ObserveListing

LEMMA UpdateListed ==
  ASSUME HTypeOK, HTypeOK', EntriesListed, NEW ids \in Requests, NEW t \in PackageTimes,
         NEW values \in Values(ids, t), HUpdatePrice(ids, t, values)
  PROVE  EntriesListed'
<1> SUFFICES ASSUME NEW x \in Token
             PROVE  /\ lastListed'[x] <= now'
                    /\ cache'[x].priceTimestamp <= lastListed'[x] + Skew
  BY DEF EntriesListed
<1>1. now \in Nat /\ now' = now /\ feeds' = feeds
  BY TimeAssumption DEF HUpdatePrice, UpdatePrice, HTypeOK, TypeOK
<1>2. lastListed'[x] <= now' /\ lastListed'[x] >= lastListed[x]
  BY <1>1, ObserveForward DEF EntriesListed, HUpdatePrice
<1>3. lastListed[x] \in Nat /\ lastListed'[x] \in Nat /\ cache[x].priceTimestamp \in Nat
  BY TimeAssumption DEF HTypeOK, TypeOK, CacheEntry
<1>4. CASE cache'[x] = cache[x]
  BY <1>2, <1>3, <1>4, ToleranceAssumption DEF EntriesListed
<1>5. ASSUME NEW i \in DOMAIN ids, x \in Listed(ids[i]), ids[i] \in Feed, source'[x] = ids[i],
             cache'[x] = [price |-> values[i] * ToScale, priceTimestamp |-> t]
      PROVE  cache'[x].priceTimestamp <= lastListed'[x] + Skew
  <2>1. x \in Range(feeds'[source'[x]])
    BY <1>1, <1>5 DEF Listed
  <2>2. lastListed'[x] = now'
    BY <1>5, <2>1 DEF HUpdatePrice, ObserveListing
  <2>3. t <= now + Skew
    BY <1>1, ToleranceAssumption DEF PackageTimes
  <2> QED
    BY <1>1, <1>5, <2>2, <2>3
<1>6. \/ cache'[x] = cache[x]
      \/ \E i \in DOMAIN ids :
           /\ x \in Listed(ids[i])
           /\ ids[i] \in Feed
           /\ source'[x] = ids[i]
           /\ cache'[x] = [price |-> values[i] * ToScale, priceTimestamp |-> t]
  BY EntryAfter, Zenon
<1>7. cache'[x].priceTimestamp <= lastListed'[x] + Skew
  BY <1>4, <1>5, <1>6, Zenon
<1> QED
  BY <1>2, <1>7

LEMMA NextListed == HTypeOK /\ HTypeOK' /\ EntriesListed /\ [HNext]_hvars => EntriesListed'
<1> SUFFICES ASSUME HTypeOK, HTypeOK', EntriesListed, [HNext]_hvars PROVE EntriesListed'
  OBVIOUS
<1>1. ASSUME cache' = cache, now' \in Nat, now' >= now, ObserveListing PROVE EntriesListed'
  <2> SUFFICES ASSUME NEW x \in Token
               PROVE  /\ lastListed'[x] <= now'
                      /\ cache'[x].priceTimestamp <= lastListed'[x] + Skew
    BY DEF EntriesListed
  <2>1. lastListed'[x] <= now' /\ lastListed'[x] >= lastListed[x]
    BY <1>1, ObserveForward DEF EntriesListed
  <2>2. lastListed[x] \in Nat /\ lastListed'[x] \in Nat /\ cache[x].priceTimestamp \in Nat
    BY TimeAssumption DEF HTypeOK, TypeOK, CacheEntry
  <2> QED
    BY <1>1, <2>1, <2>2, ToleranceAssumption DEF EntriesListed
<1>2. now \in Nat /\ now' \in Nat
  BY TimeAssumption DEF HTypeOK, TypeOK
<1>3. CASE HTick
  BY <1>1, <1>2, <1>3 DEF HTick, Tick, Pass
<1>4. ASSUME NEW ids \in Requests, NEW t \in PackageTimes, NEW values \in Values(ids, t),
             HUpdatePrice(ids, t, values)
      PROVE  EntriesListed'
  BY <1>4, UpdateListed
<1>5. ASSUME NEW f \in Feed, NEW tokens \in Listings, HUpdateFeed(f, tokens)
      PROVE  EntriesListed'
  BY <1>1, <1>2, <1>5 DEF HUpdateFeed, UpdateFeed
<1>6. CASE UNCHANGED hvars
  BY <1>6 DEF hvars, vars, history, EntriesListed
<1> QED
  BY <1>3, <1>4, <1>5, <1>6 DEF HNext

LEMMA ListedExpires == HTypeOK /\ EntriesListed => DelistedPriceExpires
<1> SUFFICES ASSUME HTypeOK, EntriesListed, NEW x \in Token, Served(x)
             PROVE  now <= lastListed[x] + Skew + MaxTimeTolerance
  BY DEF DelistedPriceExpires
<1>1. now \in Nat /\ lastListed[x] \in Nat
  BY TimeAssumption DEF HTypeOK, TypeOK
<1> QED
  BY <1>1, ServedInTime, ToleranceAssumption DEF EntriesListed

\* A token that the governor takes off a feed loses that feed's price within the
\* signers' skew plus the tolerance, although updateFeed leaves the cache alone.
THEOREM DelistedPricesExpire == HSpec => []DelistedPriceExpires
  BY InitListed, NextListed, ListedExpires, CacheTypeCorrect, PTL DEF HSpec

-----------------------------------------------------------------------------
\* Tokens of one feed.

\* The constructor lists every token under one feed, as the deployed one does.
DisjointFeeds ==
  \A f, g \in Feed : f # g => Range(InitFeeds[f]) \cap Range(InitFeeds[g]) = {}

\* What no updateFeed touched is listed where the constructor put it, and tokens
\* it put under one feed have one entry.
SiblingsInv ==
  /\ \A f \in Feed : \A x \in Token \ relisted : x \in Listed(f) <=> x \in Range(InitFeeds[f])
  /\ SiblingsAgree

LEMMA InitSiblings == HInit => SiblingsInv
  BY DEF HInit, Init, SiblingsInv, SiblingsAgree, Listed

LEMMA NextSiblings ==
  ASSUME DisjointFeeds
  PROVE  HTypeOK /\ SiblingsInv /\ [HNext]_hvars => SiblingsInv'
<1> SUFFICES ASSUME HTypeOK, SiblingsInv, [HNext]_hvars PROVE SiblingsInv'
  OBVIOUS
<1>1. CASE HTick
  BY <1>1 DEF HTick, Tick, SiblingsInv, SiblingsAgree, Listed
<1>2. ASSUME NEW ids \in Requests, NEW t \in PackageTimes, NEW values \in Values(ids, t),
             HUpdatePrice(ids, t, values)
      PROVE  SiblingsInv'
  <2>1. feeds' = feeds /\ relisted' = relisted
    BY <1>2 DEF HUpdatePrice, UpdatePrice
  <2>2. ASSUME NEW f \in Feed, NEW x \in Listed(f) \ relisted, NEW y \in Listed(f) \ relisted,
               x \in Token, y \in Token
        PROVE  cache'[x] = cache'[y]
    <3>1. cache[x] = cache[y]
      BY <2>2 DEF SiblingsInv, SiblingsAgree
    <3>2. \A g \in Feed : x \in Listed(g) <=> y \in Listed(g)
      BY <2>2 DEF SiblingsInv, DisjointFeeds
    <3>3. \A i \in DOMAIN ids : ids[i] \in Feed
      BY RequestType
    <3>4. Lists(ids, x) = Lists(ids, y)
      BY <3>2, <3>3 DEF Lists
    <3>5. FirstListing(ids, x) = FirstListing(ids, y)
      BY <3>4 DEF FirstListing
    <3> QED
      BY <1>2, <2>2, <3>1, <3>4, <3>5 DEF HUpdatePrice, UpdatePrice
  <2> QED
    BY <2>1, <2>2 DEF SiblingsInv, SiblingsAgree, Listed
<1>3. ASSUME NEW f \in Feed, NEW tokens \in Listings, HUpdateFeed(f, tokens)
      PROVE  SiblingsInv'
  <2>1. /\ relisted' = relisted \cup Listed(f) \cup Range(tokens)
        /\ cache' = cache
        /\ feeds' = [feeds EXCEPT ![f] = tokens]
    BY <1>3 DEF HUpdateFeed, UpdateFeed
  <2>2. \A x : x \in Listed(f)' <=> x \in Range(tokens)
    BY <2>1 DEF Listed, HTypeOK, TypeOK
  <2>3. \A g \in Feed \ {f} : Listed(g)' = Listed(g)
    BY <2>1 DEF Listed, HTypeOK, TypeOK
  <2>4. ASSUME NEW g \in Feed, NEW x \in Token \ relisted'
        PROVE  x \in Listed(g)' <=> x \in Range(InitFeeds[g])
    BY <2>1, <2>2, <2>3 DEF SiblingsInv
  <2>5. ASSUME NEW g \in Feed, NEW x \in Listed(g)' \ relisted', NEW y \in Listed(g)' \ relisted',
               x \in Token, y \in Token
        PROVE  cache'[x] = cache'[y]
    <3>1. g # f
      BY <2>1, <2>2, <2>5
    <3>2. x \in Listed(g) \ relisted /\ y \in Listed(g) \ relisted
      BY <2>1, <2>3, <2>5, <3>1
    <3> QED
      BY <2>1, <2>5, <3>2 DEF SiblingsInv, SiblingsAgree
  <2> QED
    BY <2>4, <2>5 DEF SiblingsInv, SiblingsAgree
<1>4. CASE UNCHANGED hvars
  BY <1>4 DEF hvars, vars, history, SiblingsInv, SiblingsAgree, Listed
<1> QED
  BY <1>1, <1>2, <1>3, <1>4 DEF HNext

\* When the constructor lists every token once, the tokens of a feed share one
\* price and time until the governor changes a list: no order of packages, and no
\* request for several feeds, splits them.
THEOREM SiblingsShareOneEntry ==
  ASSUME DisjointFeeds
  PROVE  HSpec => []SiblingsAgree
<1>1. SiblingsInv => SiblingsAgree
  BY DEF SiblingsInv
<1> QED
  BY <1>1, InitSiblings, NextSiblings, CacheTypeCorrect, PTL DEF HSpec
=============================================================================
