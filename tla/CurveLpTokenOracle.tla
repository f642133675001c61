------------------------- MODULE CurveLpTokenOracle -------------------------
(***************************************************************************)
(* src/contracts/periphery/tokens/CurveLpTokenOracle.sol: a share of a      *)
(* Curve pool is worth its cheapest coin times the pool's virtual price.    *)
(* Which coins those are is copied from Curve's registry once.              *)
(*                                                                          *)
(* The registry and the pools are external.  CurveFactoryLpTokenOracle.sol  *)
(* registers the pool's own coins for anybody, and CurveLpTokenOracleV2.sol *)
(* the underlying ones up to the first null address.                        *)
(*                                                                          *)
(* Token oracles ask the oracle that asks them.  P is what it answers.      *)
(***************************************************************************)
EXTENDS PriceProvider, BlockTime, Sequences, SequencesExt

CONSTANTS
  ETH, WETH,             \* the registry's name for ether, and its ERC-20
  Pool,                  \* Pool[lp]: the coins and underlying coins of its pool
  VirtualPrice(_), OneShare

ASSUME PoolAssumption ==
  /\ WETH \in Token /\ OneShare \in Nat \ {0}
  /\ \A lp \in DOMAIN Pool :
       /\ lp \in Token /\ VirtualPrice(lp) \in Nat
       /\ {Pool[lp].coins, Pool[lp].underlyingCoins} \subseteq Seq(Token \cup {ETH})
       /\ Pool[lp].coins # <<>>
       /\ Len(Pool[lp].coins) = Len(Pool[lp].underlyingCoins)

VARIABLE underlyingTokens

CurveTypeOK == underlyingTokens \in [Token -> Seq(Token)]

CurveInit == underlyingTokens = [x \in Token |-> <<>>]

Wrapped(coin) == IF coin = ETH THEN WETH ELSE coin

\* Mutant: the last coin is left out.
CoinsToRegister_OneLess(lp, isLending) ==
  LET tokens == IF isLending THEN Pool[lp].underlyingCoins ELSE Pool[lp].coins
  IN [i \in 1..(Len(Pool[lp].coins) - 1) |-> Wrapped(tokens[i])]

\* As many as the pool has coins, also when they are the underlying ones: a lending
\* pool has as many of either.
CoinsToRegister(lp, isLending) ==
  LET tokens == IF isLending THEN Pool[lp].underlyingCoins ELSE Pool[lp].coins
  IN [i \in 1..Len(Pool[lp].coins) |-> Wrapped(tokens[i])]

isLpRegistered(lp) == underlyingTokens[lp] # <<>>

\* registerLp and registerLendingLp.  poolOf is written with the coins and says
\* no more than they do; the branch that clears old coins of a known pool is not
\* reached, for such a pool is registered.
registerLp(lp, isLending) ==
  /\ ~isLpRegistered(lp)
  /\ lp \in DOMAIN Pool
  /\ underlyingTokens' = [underlyingTokens EXCEPT ![lp] = CoinsToRegister(lp, isLending)]

-----------------------------------------------------------------------------
\* Mutant: a coin without a price is passed over.
LpPrice_SkipsUnpriced(P, lp) ==
  LET prices == {P[x].amount : x \in {c \in ToSet(underlyingTokens[lp]) : P[c].ok}}
  IN IF prices = {} THEN Reverted
     ELSE Answer((Min(prices) * VirtualPrice(lp)) \div OneShare, 0)

\* The sentinel of the minimum, the greatest integer, is no price.
LpPrice(P, lp) ==
  LET coins == ToSet(underlyingTokens[lp])
      min == Min({P[x].amount : x \in coins})
  IN IF ~isLpRegistered(lp) \/ (\E x \in coins : ~P[x].ok) THEN Reverted
     ELSE IF min = 0 THEN Reverted
     ELSE Answer((min * VirtualPrice(lp)) \div OneShare, 0)
=============================================================================
