-------------------------- MODULE SetupTokenOracles --------------------------
(***************************************************************************)
(* The steps of a deploy script as data, and those setupTokenOracles        *)
(* (src/helpers/deployment/setup-oracles.ts) takes for a network's           *)
(* configuration.  MultisigDeployment runs them.                             *)
(***************************************************************************)
EXTENDS Addresses, Sequences, SequencesExt

NoToken == AddressZero
Registered == External("registered", TRUE)

\* The deployment `name' of the artifact `contract'.
Deploy(name, contract, args) ==
  [do |-> "deploy", name |-> name, contract |-> contract, args |-> args, once |-> FALSE,
   sets |-> <<>>]

\* skipIfAlreadyDeployed: what is recorded stays, whatever changed.
Once(step) == [step EXCEPT !.once = TRUE]

\* Compare `compared' with what the contract has for the token, and if it differs
\* have `by' set it to `value'; when it is in place the next `nested' steps are
\* passed over.
Set(contract, method, token, value) ==
  [do |-> "set", contract |-> contract, method |-> method, token |-> token,
   value |-> value, compared |-> value, by |-> "batch", nested |-> 0, optional |-> {}]

\* A deployment whose constructor makes some of the settings.
Constructs(step, sets) == [step EXCEPT !.sets = sets]

\* The constructor of MasterOracle, and the setting that follows it.
DefaultOracle(oracle) == Set("MasterOracle", "defaultOracle", NoToken, DeploymentOf(oracle))

DeployMasterOracle(oracle) ==
  Constructs(Deploy("MasterOracle", "MasterOracle", <<DeploymentOf(oracle)>>),
             <<DefaultOracle(oracle)>>)

\* executeFromGovernorMultiSig: the setting does not wait for the end of the run.
AtOnce(step) == [step EXCEPT !.by = "atOnce"]

\* The deployer calls update() when the step before has deployed the contract.
UpdateIfNew(contract) == [Set(contract, "updated", NoToken, Registered) EXCEPT !.do = "update"]

Script(tag, dependencies, steps) ==
  [tag |-> tag, dependencies |-> dependencies, steps |-> steps]

\* The enumeration of helpers/index.ts, of which the scripts use three.
Provider == [p \in {"CHAINLINK", "UNISWAP_V2", "SUSHISWAP"} |-> External(p, TRUE)]

Route(token, oracle) == Set("MasterOracle", "oracles", token, DeploymentOf(oracle))

\* The deployment is looked up with getOrNull, and the step passed over without it.
Optional(name, step) == [step EXCEPT !.optional = {name}]

\* A step that is examined only when the route above it is not in place.
Under(route, step) == <<[route EXCEPT !.nested = 1], step>>

CustomOracle(c) == Route(c.token, c.oracle)

ChainlinkAggregator(c) ==
  [Set("ChainlinkPriceProvider", "aggregators", c.token, c.aggregator)
     EXCEPT !.compared = getAddress(c.aggregator)]

RedstonePushAggregator(c) ==
  Set("RedstonePushPriceProvider", "aggregators", c.token, c.aggregator)

CurveLp(c) ==
  LET IfDeployed(step) == Optional("CurveLpTokenOracle", step)
  IN <<IfDeployed(Route(c.token, "CurveLpTokenOracle")),
       IfDeployed(Set("CurveLpTokenOracle", "isLpRegistered", c.token, Registered))>>

\* Anyone may register a factory pool: the deployer does so at once.
CurveFactoryLp(token) ==
  Under(Optional("CurveFactoryLpTokenOracle", Route(token, "CurveFactoryLpTokenOracle")),
        [Set("CurveFactoryLpTokenOracle", "isLpRegistered", token, Registered)
           EXCEPT !.by = "deployer"])

CurveLpV2(token) ==
  Under(Optional("CurveLpTokenOracleV2", Route(token, "CurveLpTokenOracleV2")),
        Set("CurveLpTokenOracleV2", "isLpRegistered", token, Registered))

CustomStalePeriod(c) == Set("ChainlinkOracle", "stalePeriodOf", c.token, c.stalePeriod)

\* The run fails unless ChainlinkOracle is the default oracle.
RequiresDefaultOracle ==
  [DefaultOracle("ChainlinkOracle") EXCEPT !.do = "require"]

ChainlinkEthOnly(c) ==
  Under(Route(c.token, "ChainlinkEthOnlyTokenOracle"),
        Set("ChainlinkEthOnlyTokenOracle", "ethFeedOf", c.token, c.ethFeed))

RedstoneUsdcOnly(c) ==
  Under(Route(c.token, "RedstoneUsdcOnlyTokenOracle"),
        Set("RedstoneUsdcOnlyTokenOracle", "usdcFeedOf", c.token, c.usdcFeed))

NothingToSetUp ==
  [customOracles |-> <<>>, chainlinkAggregators |-> <<>>, redstonePushAggregators |-> <<>>,
   curveLpTokens |-> <<>>, curveFactoryLps |-> <<>>, curveLpTokensV2 |-> <<>>,
   customStalePeriods |-> <<>>, chainlinkEthOnly |-> <<>>, redstoneUsdcOnly |-> <<>>]

setupTokenOracles(config) ==
  LET c == config @@ NothingToSetUp
      Each(configs, Steps(_)) == [i \in DOMAIN configs |-> Steps(configs[i])]
  IN Each(c.customOracles, CustomOracle)
     \o Each(c.chainlinkAggregators, ChainlinkAggregator)
     \o Each(c.redstonePushAggregators, RedstonePushAggregator)
     \o FlattenSeq(Each(c.curveLpTokens, CurveLp))
     \o FlattenSeq(Each(c.curveFactoryLps, CurveFactoryLp))
     \o FlattenSeq(Each(c.curveLpTokensV2, CurveLpV2))
     \o (IF c.customStalePeriods = <<>> THEN <<>> ELSE <<RequiresDefaultOracle>>)
     \o Each(c.customStalePeriods, CustomStalePeriod)
     \o FlattenSeq(Each(c.chainlinkEthOnly, ChainlinkEthOnly))
     \o FlattenSeq(Each(c.redstoneUsdcOnly, RedstoneUsdcOnly))

\* 99_multisig_txs.ts of every network.
MultiSigTxs == Script("MultiSigTxs", {}, <<[do |-> "propose"]>>)

\* The steps of a run of every script.  hardhat-deploy runs them in file order,
\* dependencies first; InFileOrder says that the two agree.
Steps(scripts) == FlattenSeq([i \in DOMAIN scripts |-> scripts[i].steps])

InFileOrder(scripts) ==
  \A i \in DOMAIN scripts :
    scripts[i].dependencies \subseteq {scripts[j].tag : j \in 1..(i - 1)}

=============================================================================
