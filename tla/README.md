# one-oracle in TLA+

Specifications of the price-oracle contracts of this repository and of the way
they are configured and deployed, model-checked with TLC; all the safety and action
properties that hold are also proved with TLAPS. Every definition is a
translation of the source; `PROJECT.json` says which lines each one stands for.

## The system

Readers (lending protocols, vaults) ask an **oracle** (`contracts/periphery`) for
the price of a token. Oracles ask **price providers** (`contracts/core`) and
decide whether an answer is fresh and plausible. Providers take prices from
somewhere outside: signed packages, push feeds, exchange pools. A **governor**,
a Safe, owns every setting, and `deploy/` and `helpers/deployment` turn the
repository's configuration into transactions of that Safe.

| Component | State it keeps | Operations | Interacts by | Hard part | What makes it correct |
|---|---|---|---|---|---|
| UniswapV2-like TWAP provider | per pair and period: cumulative prices, 32-bit time, averages | `updateOrAdd`, `updateAndQuote`, `updateDefaultTwapPeriod`; reads | reads the pairs; anyone updates | wrap-around of three widths, lazily updated accumulators, order of trades and updates, the zero time that means "absent" | published averages are exact integrals; a trade of the same block has no weight; updates lose no oracle |
| Redstone pull provider | feed → tokens, token → (price, time) | `updatePrice`, `updateFeed`; reads | packages in the calldata of any caller | late, early, replayed, reordered packages; several feeds per call; lists that change under the cache | what is served was signed, in time, for a feed of that token; siblings agree |
| Chainlink / Redstone push | token → aggregator | `updateAggregator`; reads | reads aggregators | rounds that age, replaced aggregators | prices always scaled from the decimals that were checked |
| Main-and-fallback oracle | default and custom stale periods | `updateCustomStalePeriod`, `updateDefaultStalePeriod`; four reads | two providers | prices age between reads; a main price dated ahead | the fallback covers the main provider; the reads agree; no gain from a round trip |
| Providers aggregator | provider id → contract | `setPriceProvider`; reads | providers by id | a provider replaced or removed under its readers | refuses what is not set |
| Chainlink-and-fallbacks oracle | two fallback ids, stale periods, deviation | `updateFallbackProviders` and the mixins' setters; four reads | aggregator, `try`/`catch` | three sources that fail, age or lie independently | refuses only for cause; one lying fallback is bounded; the reads agree |
| Stable coin provider | two coins, their decimals, stale periods, deviation | `updateStableCoins`; `getStableCoinIfPegged`, `toUsdRepresentation` | aggregator's CHAINLINK provider | the answer of one call used in another | amounts are converted with the decimals of their coin |
| alUSD oracle | stale period | `update`; `getPriceInUsd` | TWAP provider, stable coin provider | two averages updated at different times by different callers; the coin changes with the peg and with the governor | the averages of one price belong together; the coin that is priced is converted with its own decimals |
| Pyth pull provider | token → feed | `updatePrice` (payable), `updateFeedId`; reads | Pyth's storage, which anyone updates | shared storage, prices dated ahead, exponents, change of the payment | prices served together were published together; no ether stays |
| ChainlinkOracle, MainOracle, PullOracle | stale periods | four reads | one provider | which checks each makes | MainOracle is PullOracle with a check and nothing else |
| Master oracle | token → oracle, default oracle | `updateDefaultOracle`, `updateTokenOracle(s)`; reads, quotes | token oracles, which call it back | a read is a tree of calls that the governor's routes decide | a served price rests on served prices; a route moves no other price |
| Token oracles | Curve coins, feeds | `registerLp`, `registerLendingLp`, `updateEthFeed`, ...; reads | master oracle; wrappers and pools outside | coins copied once, sources of different ages | a share is worth its worst coin |
| UniswapV3, Umbrella providers | defaults, a key table | setters; reads | external contracts | — | — |
| Deployment through a Safe | the chain's settings, the records, the batch file, the Safe's queue | a run of the deploy scripts; confirmations | a file that survives runs; proposals executed later | runs killed anywhere; stale reads; replays; contracts deployed again | the chain reaches the repository's configuration through safe intermediate ones |
| Deploy scripts and addresses | the steps of five networks, the address books | — | looked up by key, by chain | order, missing keys, redeployments | no run fails; consumers keep the MasterOracle they have |
| Release and test tooling | — | — | files and processes | — | — |

`PROJECT.json` lists under `hazards` what is hard to test here, at its line, with
the property that would catch it.

## The modules

### Time-weighted averages

`UniswapV2LikePriceProvider` models the provider and the pairs it reads. A
transaction is one step, since the chain executes transactions one by one and a
revert undoes everything; a reverting call is no step. `Tick` is the next block's
time, `Trade` any change of a pair's reserves, `UpdateOrAdd` the body that
`updateOrAdd` and `updateAndQuote` share for one pair (each is a sequence of such
steps in one block, which the interleavings include), `UpdateDefaultTwapPeriod` the
governor's setter. `Quote` and `GetAmountOut` are the reads. Integer widths are
constants: `TsMod` stands for 2^32, `CumMod` for 2^256, `AvgMod` for 2^224 and `Q`
for 2^112, so that TLC can reach the wraps and the proofs hold for the real ones.

`TimeWeightedAverage` is the abstract specification: the area under the spot price
grows second by second and an average is the exact mean over one window. No
accumulator, no wrap, no lazy update. `TwapHistory` adds to the provider the area
that never wraps and the instants where the windows start, states the invariant
that ties the two (`CutsExact`) and the refinement (`ImplementsTwap`).
`TwapProofs` holds the proofs, over the lemmas of `IntegerTheorems` about wrapping
arithmetic, least naturals and induction, which the other proof modules share.

`AlusdTokenMainnetOracle` composes the provider with `StableCoinProvider` (instances
`Twap` and `Coins`): `DollarPrice` is `UniswapV2LikePriceProvider.getPriceInUsd`, which
quotes a token in the coin that is pegged at the moment, over two pairs when there is no
direct one, and `Update` is the oracle's `update`, both pairs in one transaction.
`UpdateOnePair` is anyone who calls `updateOrAdd` for a single pair, `UpdateStableCoins`
the governor, who exchanges the coins while averages of the old ones are kept. Stale
periods and the deviation are fixed here (the mixins' changes are in `Hemi` and
`Fallbacks`); the default TWAP period is not. `updatedFor` and `alone` are history.
`AlusdProofs` proves its properties over these instances.

### Hemi and Swell: pull main, push fallback

`RedstonePriceProvider` is the cache. The signers are external: `Signed(f, t)` is
the set of medians that can be shown for feed `f` at second `t`, and a package of
any second up to `now + Skew` may arrive at any time, any number of times.
`UpdatePrice` is the two nested loops: a token is written from the first feed of the
request that lists it, because a later one carries the same time and is skipped.
`RedstoneHistory` adds which feed a cached price came from, and the properties;
`RedstoneProofs` proves them.

`ChainlinkPriceProvider` is the table of aggregators and the scaled read, which the
Redstone push provider inherits. `MainAndFallbackOracle` is the choice of a usable
answer, as operators over the answers of two providers; `HemiOracle` composes it
with both providers, as `deploy/hemi` does: `Pull` is an instance of
`RedstonePriceProvider`, the push side is extended, and the next-state relation
interleaves the actions of all of them with the governor's.

### Mainnet, Optimism, Base: Chainlink and fallbacks

`PriceProvidersAggregator` is the registry of providers and its reads; the
providers behind it are external there and answer arbitrarily from a small set of
replies, including a revert, zero, a time that ages and a time ahead of the block.
`ChainlinkAndFallbacksOracle` is the oracle over it. `Select` is the decision all
four reads make: Chainlink if good, else fallback A if alone and good, else
whichever is good, A if both are good and near each other. `ChainlinkOracle` is the oracle
without fallbacks, over the same aggregator, beside it as the instance `Single`.

`StableCoinProvider` keeps the two coins with their decimals; it runs under the alUSD
oracle, and by itself for the one statement that it violates.

### The master oracle and what it routes to

A read of `MasterOracle` calls the oracle of the token, which may call the master oracle
back for another token, and so on. `PricesWithin[n]` are the answers with at most `n`
nested calls, each oracle being an operator over the answers `P` that it gets when it
calls back; `Prices` takes as many as there are tokens, which is enough for every call
that ends. A route in a circle then refuses, where the contract runs out of gas.
`RestsOn` is the same closure over the tokens asked for. The governor's batches may
make circles, turn a token off or name oracles that do not fit a token; `Rerouted` is
the table that a batch leaves, written one token after the other.

`PythPriceProvider` is extended, so its prices are real: Pyth's storage is external and
takes any published price that is later than the one it has, from any caller.
`MainOracle` holds the reads of `MainOracle.sol` and `PullOracle.sol` over one provider.
`PullNeedsNoStalePeriod` compares the two in all four reads, and
`ExchangeSilencesOnlyEarlyPrices` what they leave of every token's price when the governor
exchanges one for the other under tokens that others rest on.
`CurveLpTokenOracle` has the registration of a pool's coins and their minimum;
`TokenOracles` the other oracles that call back, over the numbers (`rate`, `round`) that
third-party contracts give them.

### Shared parts

`PriceProvider` (an answer with its time, a revert, the inherited quotes), `BlockTime`
(the tokens and the clock), `UsingStalePeriod` and `UsingMaxDeviation` (the mixins, their
setters and checks).

### Deployment

The scripts are data. `Addresses` holds the address books of `src/helpers/address.ts` by
key, with the entries that are two names for one address or are written without
checksum, because the scripts compare strings. `SetupTokenOracles` has the constructors
of steps (`Deploy`, `Set`, `Route`, `Under` for a setting that is examined only if the
route above it is not in place) and `setupTokenOracles`, in its order. `DeployMainnet`,
`DeployOptimism`, `DeployBase`, `DeploySwell` and `DeployHemi` are the scripts of each
directory in file order, and `Networks` the networks of `hardhat.config.ts`, with the
chain that a fork stands for and the book that `Address` is on it; `FileOrder` and
`OwnBook` are assumptions that TLC evaluates over all of them. What the proofs need of a
program is stated as predicates of programs (`IsOrdered`, `IsArranged`, `HasFeeds`), so
that TLC checks the scripts of every network against them.

`MultisigDeployment` runs a program of steps. `DeployContract` deploys what is not
recorded or differs from its record, `Read` compares one setting with the chain, `Save`
appends a transaction to `multisig.batch.tmp.json` unless it is there, `Execute` sends it
at once where the signer may, `ProposeAtOnce` proposes one transaction and ends the run,
`Propose` is the last script. The process exits when it has proposed, so the file stays;
only on a local network, where `Send` executes it from the impersonated Safe, is it
removed. `Kill` stops a run at any point, or one that has thrown; if it stops while
saving, the file may be left empty. `Confirm` executes the oldest proposal as one atomic
batch, `Reject` discards one that reverts. `Refusing` is the set of settings whose setter
rejects its current value. `CheckOut` moves to a later commit. `After` is what a batch
leaves on the chain, in closed form: the last value that is set in each cell, or the one
it had.

A deployer is a network, its commits, the records and the chain it starts with (none, or
what a program run to its end by older scripts has left), and whether the network is
local, the governor is the deployer, and the file is removed before each run, as
`scripts/start-forked-node.sh` does and the live procedure does not.

`RoutedTokensHaveFeeds` holds of every state where the settings go to the Safe in one
batch. On local networks and on Swell, where the governor's account signs the runs, each
setting is executed on its own: there it holds when no run is under way, unless one was
killed. That exception is the code's: a run killed between a route and its feed leaves
the route without the feed, and no later run repairs it, because the feed is examined
only under a route that is missing.

## The runs

| Run | What it asks | Bounds |
|---|---|---|
| `TwapOnePair` | Are averages exact, whatever wraps, and do same-block trades weigh nothing? | one pair, periods 0 and 3, two reserve states, 7 seconds over a clock of 8 and accumulators of 104 that start at 90: the clock wraps once, the accumulators up to several times, and one window spans the wrap |
| `TwapRoute` | When may a quote that worked return nothing? | three pairs (direct and both legs), one period, 4 seconds over the wrap |
| `Alusd` | How far apart are the two averages of a served price, and which coin's decimals convert it? | three pairs with DAI and USDC, of different decimals, either of which the governor makes the primary or secondary coin; DAI's price in and out of the deviation or missing; one trading pair; others refresh one pair, once (`alone`: both properties are about the time before that, or about one occurrence); periods 0 and 2, 5 seconds, no wrap (that is `TwapOnePair`): legs that begin, skip and close at different times, and a period that never skips |
| `AlusdOldest` | Is a price dated by its older average? **No**, see below | as `Alusd` |
| `Redstone` | Is a served price signed, in time, from a feed that lists the token? Do siblings agree? | two feeds, two tokens, two possible values for one feed, 5 seconds, tolerance 1, signers up to 2 ahead: packages out of tolerance on both sides exist; a transaction carries one feed or two (`Requests`; the contract takes a list of any length and treats its feeds one after the other) |
| `Hemi` | Do the four reads of the composed oracle keep their promises? | one token, one feed, two aggregators (one with wrong decimals), answers below zero and two positive ones, 4 seconds, stale periods 0 and 2 |
| `HemiAhead` | Does the fallback always cover the main provider? **No**, see below | as `Hemi` |
| `Fallbacks` | When does the oracle refuse, how far can one fallback move it, do the reads agree, does it keep every answer of ChainlinkOracle? | one token, three providers of which one can be replaced or removed, the prices 70, 79 and 99 with a deviation of 20% or 0 and ten base units to a token: 79 is within the deviation of 99, one base unit past it in tokens, and 70 is not; replies that revert, are empty, age and are ahead |
| `StableCoinServed` | Is the coin that is served the one that is converted? **No**, see below | coins with two different decimals, prices within the deviation, outside it and zero |
| `Master` | Whatever the routes are: what does a served price rest on, what moves it, what may a quote gain, what does a share cost, what do the two single-provider oracles differ in, and what does exchanging them silence? | five tokens (ether and a dollar coin that Pyth prices, a token with an ether feed, a vault over the coin, a Curve share of ether and the vault), so that calls nest three deep; five batches, among them a circle and null oracles; Pyth signs a negative price, a zero and an exponent out of range; rates 0 and 3; two seconds with tolerance 1 and publishers up to 2 ahead, and a stale period of 1; the feed of ether changes |
| `Deployment` | Does every network reach the last commit's configuration through safe states, whatever is killed? | nine ways: the full programs of mainnet and Base from their records, across a commit that changes a contract, Base, Optimism, Hemi and Swell from nothing, local forks of mainnet and Swell's, Hemi with a change and its rollback; up to two killed runs; one proposal waiting when a run starts, on Hemi and Optimism two |
| `DeploymentRerun` | Does a run that finds nothing to do propose nothing? **No**, see below | Hemi's way of `Deployment` |

The bounds on time (`StartTime`, `MaxTime`) cap the only unbounded counter of the
contracts; each window is longer than the longest period, tolerance or stale period
of its instance. In `Master` two seconds are enough, because with a tolerance of one
prices dated on both sides of the block are fresh, late, early and out of tolerance; the
stale period equals the tolerance, the shortest for which the two oracles over Pyth are
said to agree, so that the oldest price the provider serves is one `MainOracle` just takes. `kills` and `maxQueue` bound the deployment. Deadlock is not
checked, because every model may stop: the contracts when the last second is
reached and nothing changes any more, the deployment when all is done.

Tokens are not symmetric (they are listed in different feeds, or have different
decimals), so no symmetry is used.

### Fairness

Only `MultisigDeployment` states fairness, for `Converges`: the deployer keeps
running the scripts (`Start`), a run that is not killed goes on to its end
(`RunSteps`: a sequential program), and the signers execute or
reject what is proposed (`Confirm \/ Reject`). `Kill` and `CheckOut` have none.
Contracts do nothing by themselves, so nothing is claimed to happen eventually
in the other modules.

### Where the code and its documentation disagree

1. **The fallback does not cover a main price dated ahead** (`HemiAhead`).
   `_priceIsStale` computes `block.timestamp - timeOfLastUpdate_` with overflow
   checks, and the pull provider serves packages up to a minute ahead of the block.
   Until the clock catches up every read of the token reverts, although the
   fallback is fresh. `OutageOnlyWhileAhead` is what remains true.
2. **The executed batch is proposed again** (`DeploymentRerun`). The process exits
   before the file is removed, and the next run, which the log asks for, proposes
   the file's content whether or not it found something to change. If one of its
   setters refuses its current value the batch reverts and blocks the nonce until
   it is rejected (`OnlyReplaysRevert` shows these are the only batches that do).
3. **Amounts of the secondary coin are converted with the primary one's decimals**
   (`StableCoinServed`). On mainnet the coins are USDC (6) and DAI (18).
4. **A quote over two pairs is dated by the first** (`AlusdOldest`).
   `getPriceInUsd` drops the time of the second leg, where the aggregator's interface
   promises the oldest date. `UpdatedTogetherLegsStayClose` is what remains true: when
   only the oracle's `update` refreshes the pairs, and for one coin, the dropped time
   is less than a period away from the one that is kept. A call by somebody else, or
   another coin in between, ends that.

**`PullOracle` is not quite `MainOracle` without its stale period.** `PullOracle.sol:10`
says it "is the same as `MainOracle` but without stale period check because pull-oracle
providers already do that". Of the age this is true: where the stale period is no shorter
than the provider's tolerance, `MainOracle` finds no price too old that the provider
serves. But `MainOracle` also reverts on a zero answer and on a price dated ahead of the
block, and `PullOracle.sol:20-41` returns whatever the provider answers: zero for a token
without a price, for a price out of tolerance or with a bad exponent, and for an amount
that rounds to nothing. A reader who calls `PullOracle` itself gets a price of zero where
`MainOracle` would have refused. `PullNeedsNoStalePeriod` states the two answers exactly,
the zero and the early price as differences and not as excuses: it is an equation, which
would fail if either oracle treated them otherwise. It has no failing run of its own:
a token without a feed contradicts "the same" in the first state already.
Under the master oracle the zero does not show, since `MasterOracle.getPriceInUsd` refuses
it: `ExchangeSilencesOnlyEarlyPrices` says that there only early prices tell the two apart.

Seen while reading, and not run, because each shows in its own line:
`TBYOracle.sol:38` divides by the number of decimals where ten to that power is meant; a null oracle in `MasterOracle` does not turn a token off but gives it the default
oracle's price, if there is a default; a commit that changes only the feed of a token
that is already routed is never deployed, since the feed is examined under the route; a
run that is killed between deploying the alUSD oracle and calling its `update()` leaves
that call to others; and without removing the file a configuration that returns to an
earlier value is never proposed again, because the transaction is found in the file (the
deployer who rolls back therefore removes it). With three proposals waiting, a run that
compares an outer setting before, and the nested one after, a confirmation can leave the
nested one behind for good; `maxQueue` is at most 2, and 1 in the documented procedure.

## What is proved

### The time-weighted averages

For every set of pairs, periods and reserves, every `Q`, `TsMod`, `CumMod`,
`AvgMod` and every horizon within the assumptions of
`UniswapV2LikePriceProvider`:

- `TypeCorrect`: `HSpec => []HTypeOK`, the types. The cast to 224 bits is modelled by
  what it does (`% AvgMod`), so an average has its type whether or not the cast cut it off.
- `CutsAlwaysExact`: `HSpec => []CutsExact`, the inductive invariant.
- `CastsNeverTruncate`: `HSpec => []CastNeverTruncates`. The mean that an update computes,
  before its cast, is below 2^224, as the comment at `UniswapV2LikePriceProvider.sol:305`
  says ("casting never truncates").
- `PublishesTimeWeightedAverages`: `HSpec => ImplementsTwap`.

The assumptions: a spot price is below `AvgMod` (112-bit reserves), a clock turn of
the highest price fits in an accumulator (`AvgMod * TsMod <= CumMod`: 224 + 32 =
256 bits, exactly), and the model runs for less than one turn of the clock. The
last is a real restriction of the code: an oracle that is not updated for 136
years cannot tell how long ago it was.

The argument. An accumulator is compared with an unwrapped area that only the history
knows. `CutsExact` says that the time and the accumulators of every struct are the
remainders of one and the same instant of that history, and that the area gained
since is at most the elapsed time times the highest price. The refinement alone is
not inductive: from equal averages nothing follows about the next one unless the
checkpoint it will be differenced with is exact. With it, the wrapped difference of
two remainders below the modulus is the true difference (`ModDifference` of
`IntegerTheorems`), the elapsed time likewise, so the quotient is the true mean, which the
bound keeps below `AvgMod` (`MeanFits`); the cast then changes nothing (`MeanExact`). `NextCuts` shows the invariant kept by each action and
`NextRefines` that each step is a step of the abstract specification or leaves its
variables unchanged.

The action properties rest on the same invariant:

- `TradesHaveNoWeight`: `HSpec => SameBlockTradesHaveNoWeight`. What an update reads is the
  area up to now (`ReadsAreas`), which a trade of the same second does not change.
- `OraclesOutlive`: `HSpec => OraclesOutliveUpdates`.
- `QuotesOnlyLostByOpening`: `HSpec => QuoteLostOnlyByOpening`. This one needs more than
  exactness, because a window could close on an average that rounds to zero. `PricedInv`
  adds that since a window began its pair had a price of at least one unit in each second
  (`WindowsGain`; prices of 112-bit reserves are never rounded to zero, which is why
  `ReservesAssumption` has `Q` above every reserve) and that a struct that looks missing
  holds no average (`MissingIsBlank`). Then an average, once positive, is only replaced
  by a positive one.

### The alUSD oracle

For every set of tokens, pairs, coins, decimals, periods and prices, before the 32-bit
clock wraps in 2106 (`BeforeTheWrap`; the wrap is the subject above):

- `TypeCorrect`: `Spec => []TypeOK`; the governor never makes the two coins one.
- `PrimaryPricesUseTheirDecimals`: `Spec => []PricedInThePrimaryCoin`, from
  `DecimalsCached`: the cached decimals are those of the primary coin of now.
- `LegsStayClose`: `Spec => []UpdatedTogetherLegsStayClose`. The property speaks of the
  default period and of served prices only, neither of which survives a change of the
  period. The invariant `LegsInv` therefore says of all periods, served or not, that the
  two oracles were never started or have times less than that period apart; and without
  any `update` there are no oracles, so that the first one starts both.

### The Redstone cache

For every set of feeds, tokens, signed values, requests, skew and tolerance within
the assumptions of `RedstonePriceProvider`, all five properties of the run:

- `CacheTypeCorrect`: `HSpec => []HTypeOK`.
- `ServesOnlySignedPrices`: `HSpec => []ServedPriceIsSigned`. The inductive invariant
  is `EntriesSigned`: every cached entry, served or not, was signed for the feed that
  the history remembers. It is needed because an entry that is too far ahead to be
  served now may be served later, when no package confirms it any more.
- `ReadsGoBackLittle`: `HSpec => ReadsGoBackAtMostTwiceTheTolerance`. Needs no
  invariant beyond the types: both reads are within the tolerance of blocks that do
  not go back.
- `DelistedPricesExpire`: `HSpec => []DelistedPriceExpires`, by `EntriesListed`: an
  entry is dated at most the skew after the last second in which its feed listed it.
- `SiblingsShareOneEntry`: if the constructor's lists are disjoint (`DisjointFeeds`,
  the mainnet table's case) then `HSpec => []SiblingsAgree`, by `SiblingsInv`, which
  adds that an untouched token is still in the one list it started in: without that
  another feed of the same request could write one sibling first.

### Hemi and Swell

For every table of aggregators and feeds, all signed and reported values, decimals,
skew, tolerance and stale periods (`HemiAssumption`, `PullAssumption`):

- `HemiTypeCorrect`: `HemiSpec => []HemiTypeOK`; every aggregator in the table keeps the
  decimals that the scale is right for.
- `OutagesEndByThemselves`: `HemiSpec => []OutageOnlyWhileAhead`.
- `ReadsOfOneTokenAgree`: `HemiSpec => []WholeTokenIsWorthItsPrice`.
- `TimeAloneKeepsTheFallback`: with a positive tolerance,
  `HemiSpec => TimeAloneNeverPrefersMain`. Without it the theorem would be false: a
  price dated one second ahead would be out of tolerance now and within it a second on.
- `TripsNeverGain`: `HemiSpec => []RoundTripNeverGains`, by cases on who answers each of the
  legs (`Chosen`); within one provider both conversions round down (`ThereAndBack`).

The inductive invariant `HemiInv` adds `RoundsInThePast` to the types: an aggregator's
round is never dated after the block. It is what makes a main price the only one that
can be ahead, hence the only cause of an outage.

### Chainlink and fallbacks

For every table of providers, prices, periods and deviations:

- `FallbacksTypeCorrect`: `Spec => []TypeOK`; fallback A is always a provider.
- `RefusalsHaveACause`: `Spec => []RefusesOnlyForCause`, from the types and a lemma about
  `Select` over the three outcomes of a check.
- `AddingFallbacksKeepsAnswers`: `Spec => []FallbacksOnlyAddAnswers`: all four reads give
  the answer of ChainlinkOracle whenever it gives one. In the instance of TLC there is
  one token; the theorem has both tokens of a quote.
- `OneFallbackMovesLittle`: `Spec => OneFallbackMovesThePriceAtMostTwoDeviations`. A passed
  comparison leaves of the larger price at least the share that the deviation keeps
  (`LargerKept`, with the truncations of the division), and both the old and the new price
  passed it against the fallback that did not move (`NearBoth`).
- `ReadsTellTheSame`: `Spec => []ReadsAgree`. The three reads that return dollars agree
  exactly. The purchase compares amounts of tokens, which are rounded: `BuysNearer` shows
  that rounding brings a lower price's amount closer, `BuysOneUnitOff` that at a higher
  price it may take two prices that just pass past the deviation by less than one base
  unit. That edge (`OneUnitPastDeviation`) is part of the property; the code refuses there,
  and the run reaches it.

### The master oracle

For every set of tokens, table of routes, wrapping relation, pools of any size, feed,
published price and exponent, fee, payment, tolerance and period, in the whole
composition of `MasterOracle`:

- `PythTypeCorrect` and `MasterTypeCorrect`: `MasterSpec => []MasterTypeOK`; nothing of a
  payment stays, no batch routes a token to anything but an oracle or none. The inductive
  invariant `MasterInv` adds `PoolsCopied`: the coins of a share are all of its pool's, or
  all of the underlying ones, or none yet.
- `QuotedPricesAreClose`: `MasterSpec => []LegsAreClose`, from a lemma that a served price
  is within the tolerance on either side.
- `ProviderChecksTheAge`: `MasterSpec => []PullNeedsNoStalePeriod`, for every amount and
  unit and every stale period no shorter than the tolerance. `Valid` alone does not give
  it: it takes the provider's own check of the age (`NoneIsTooOld`), and that whatever a
  conversion is worth comes from prices that passed it (`ConversionTypes`).
- `ExchangeSilencesOnlyEarly`: `MasterSpec => ExchangeSilencesOnlyEarlyPrices`.
- `ServedPricesRestOnServed`: `MasterSpec => []RestsOnServedPrices`.
- `SharesWorthTheirWorstCoin`: `MasterSpec => []LpIsWorthItsWorstCoin`.
- `TripsNeverGain`: `MasterSpec => []RoundTripsNeverGain`, from `QuotesThereAndBackNeverGain`:
  for any two answers, so also for whatever the nested calls return, a quote there and
  back does not gain, by `ThereAndBack` on each of its two legs.
- `RoutesMoveOnlyTheirs`: `MasterSpec => OnlyRoutedPricesMove`.
- `TimeOnlySilences`: `MasterSpec => TimeAloneOnlySilences`.

The argument about nested calls. `PricesWithin` and `RestsWithin` are recursive functions;
`PricesExist` and `RestsExist` show, by induction, that functions with these equations
exist, so that the equations may be used (`PricesDefined`, `RestsDefined`). One call is
characterised without recursion: `CallsServed` (an answer is positive, and all that the
oracle asked for was served) and `AnswersRestOnAsked` (an answer depends on no other
token). By induction on the depth, what is served within some calls is served the same
within more (`PricesLast`), and all that it rests on was served within fewer
(`RestsAnswered`). A token in a circle would have to be served at a smaller depth than
the least depth at which it is. The three action properties are inductions on the depth
over two states. `OthersStay` serves two of them: if only some tokens are answered
differently by a call, no price moves but theirs and those that rest on one of them; for
a batch these are the tokens it names (`SameCall`), for an exchange of the two oracles
over Pyth the tokens whose price is dated ahead (`ExchangedCall`), on which nothing is
served when `MainOracle` is there (`EarlyAreSilenced`). `TimelyCall` is about answers that
are served before and after a second.

`PowersAssumption` (powers of ten are positive naturals) is a fact of arithmetic that
the prover does not know; TLC evaluates it for the instance.

### Induction

The provers cannot instantiate the library's induction theorems, which take an operator.
`IntegerTheorems` derives induction over a set from the library's theorem that the strict
subset order on finite sets is well-founded: a set of naturals has a least element
(`LeastNatural`, through the intervals that its members close), and a set that has 0 and
every successor has all naturals (`Induction`). `LargestPlace` gives the last place of
some in a sequence, which is what `After` of the deployment is about.

### The deployment

For all scripts, records, settings, commits, killed runs and proposals in waiting within
the assumptions of `MultisigDeployment`:

- `DeploymentTypeCorrect`: `Spec => []TypeOK`.
- `RevertsAreReplays`: `Spec => []OnlyReplaysRevert`.
- `NoRouteIsLost`: `Spec => RoutesStay`.
- `NoRunEverFails`: `Spec => []NoRunFails`, with the empty file as the one that does not
  parse.
- `RoutesAreFed`: `Spec => []RoutedTokensHaveFeeds`.

`DeployersAssumption` says what a program must be: a run that examines a step has another
to go to unless it proposes; a setter that refuses its own value is only saved after it
was compared with the address that the chain would answer (with checksum); the deployer
updates a contract only right after deploying it; and the chain that one starts from has
settings of recorded contracts only. `KeptAssumption` says that on the networks of
`KeepsRoutes` the MasterOracle is deployed with `skipIfAlreadyDeployed`.
`ProgramsAssumption` says that a program looks up only what it deployed before or never
deploys (`IsOrdered`; a name that the address book lacks is never at hand), nests only
settings of the batch and ends with the proposal (`IsArranged`), follows each route by
the feed that its oracle needs (`HasFeeds`), and starts from a chain whose routes have
their feeds (`IsFed`). `WaysAssumption` says that all the settings of one method of a
contract are made in one way: in the batch, at once, or by the deployer.
`ProcedureAssumption` is about people: a file of one commit is not carried to another
(nor one of a killed run, on a local network), and where a later step requires what was
proposed at once, its confirmation is waited for. TLC evaluates all of them over the
scripts and records of the five networks, so the theorems are about these and every other
script of that form.

The inductive invariant is `DeploymentInv`. `TypeOK` does not explain why a batch
executes, since a batch waits while the chain changes under it. The invariant says of
every transaction that was saved, in the file, in a proposal or about to be saved by the
run, that it is `Ready`: its contract is recorded, and if its setter refuses the value
that the chain has now, this very transaction was executed. `ReadyStays` keeps that under
every step: only executed transactions write a cell of a refusing setter
(`ApplySets`, `AfterSets`), and a contract deployed anew has cells that no saved
transaction names (`DeployContractMoves`). `OnlyReplaysRevert` follows because a batch
names each transaction once, so that a value that a setter finds inside a batch and
refuses was there before the batch (`RefusedWasThereBefore`).

Why no run fails. `Throws` lists what stops a run: a name without a record or an address,
a requirement that is not in place, a setter that refuses, a file that does not parse.
None of it follows from `DeploymentInv`, which knows what was saved and not what the run
came past. A second invariant, `LookUpInv`, does:

- what the steps before the present one deploy is recorded as they have it, and a setting
  about to be saved was compared with the chain by a run that had all it looked up
  (`LookUpsOK`);
- a setting that was found to differ still differs when it is executed (`DiffersOK`), so
  its setter accepts it. The comparison may be stale by then; it is not where it matters,
  because what waits at the Safe was made in another way (`WaysOK`, `UnsavedOK`) or
  nothing waits (`QuietOK`). `UnsentOK` says so of a batch that a local network is sent;
- what was proposed at once is in place in the rest of the run (`AtOnceOK`);
- a file that a killed run left empty has a setting, still different, that the next run
  comes to before it proposes (`EmptyFileOK`), and never a nested one only (`NestedOK`).

Each part needs the others in the step of some action, so they are proved kept together
(`LookUpInvariance`); `LookUpsSuffice` is the conclusion.

Why routes are fed. A route reaches the chain long after the scripts were read, so
`FedInv` follows it from the file to the chain: on the chain a feed is missing only while
it is the next setting to be executed (`ChainFed`); in a proposal it is in the same batch
or already on the chain (`QueueFed`); in the file it is there too, or the run, or the one
that completes the file, is still to come to the step that saves it (`FileFed`). A route
once saved is kept with its feed because the step below a route saves unless its feed is
on the chain, and feeds do not go. Where settings are executed one by one the invariant is
only claimed as long as no run was killed, since a kill then breaks it for good.

## What is only model-checked

- `Converges` is a liveness property under fairness, which is out of the prover's reach. In
  its ways with several commits the deployer removes the file before a new one, so it says
  nothing of a live network where the file is left, nor of a commit that changes only a
  feed, which is never deployed.
- The four statements that the code violates have counterexamples and nothing to prove.

Every other property that a run checks is proved.

## What is not modelled, and why

- The aggregator's quote across two providers: no oracle of the repository calls it.
- UniswapV3, Umbrella: no state beyond tables and defaults, one external read.
- Token oracles without state and without a call back: UniswapV2LikeLp, SFraxEth, IbBtc,
  MStable, BTCPegged, TBY, VTokenFraxLend are formulas over the numbers of third-party
  contracts. VspMainnetOracle is the alUSD oracle over two TWAP providers at once. The
  Curve oracles for factory pools and with the newer registry differ in which registry
  they copy the coins from.
- `Governable`: one comparison with an address that another contract keeps.
- Release and test tooling: file copying and process control.
- In the deployment: hardhat-deploy deploys and records in one step (a kill between
  the two is its own recovery); a kill within `writeFileSync`
  (`multisig-helpers.ts:108` and `122`) that tears or cuts off a file with a batch in it, so
  that "parses" in `NoRunFails` is about the empty file only, which a kill leaves where
  there was none; what `deployments/` records is taken to be in place on the
  chain; the aggregators that constructors of the Chainlink subclasses preset are left
  out where the scripts do not compare them; Tenderly, verification and gas settings.
- The overflow revert of the fixed-point multiplication in the TWAP provider's quotes
  (`UniswapV2LikePriceProvider.sol:272`): amounts stay far below it.
- Gas, events, reentrancy: none of these contracts calls an untrusted contract
  between two writes.

## Plan

Done: the TWAP provider with its refinement and proofs, and under the alUSD oracle with
the stable coins and the governor who exchanges them; Redstone with its proofs; push,
main and fallback composed and proved; Chainlink and fallbacks over the aggregator with
their proofs; Pyth, the single-provider oracles, the master oracle and the token
oracles; the deployment of every network from its own scripts.

Proved: every safety and action property of the passing runs.

Next, in this order:

1. The alUSD oracle as a refinement: its prices over the abstract averages of
   `TimeWeightedAverage`.
2. `VspMainnetOracle`: two TWAP providers whose averages vouch for each other.
3. The aggregator's quote across two providers, should an oracle come to use it.
