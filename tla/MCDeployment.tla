---------------------------- MODULE MCDeployment ----------------------------
(***************************************************************************)
(* Instances of the deployment for TLC: every network with its own scripts  *)
(* and addresses, deployed for the first time or as src/deployments records *)
(* it, by runs that are killed and across commits that change a contract or *)
(* a setting.                                                               *)
(***************************************************************************)
EXTENDS MultisigDeployment

N == INSTANCE Networks

ASSUME FileOrderAssumption == N!FileOrder

ASSUME OwnBookAssumption == N!OwnBook

\* Commits that change a contract's code, or the aggregator of a token.
Rebuilt(program, name) ==
  [i \in DOMAIN program |->
     IF program[i].do = "deploy" /\ program[i].name = name
     THEN [program[i] EXCEPT !.contract = "rebuilt"] ELSE program[i]]

Repriced(program, token, aggregator) ==
  [i \in DOMAIN program |->
     IF program[i].do = "set" /\ program[i].token = token /\ program[i].method = "aggregators"
     THEN [program[i] EXCEPT !.value = aggregator, !.compared = aggregator] ELSE program[i]]

Live(network, targets) ==
  [network |-> network, targets |-> targets, deployed |-> <<>>, chain |-> <<>>,
   local |-> FALSE, signer |-> FALSE, removesFile |-> FALSE, maxQueue |-> 1, kills |-> 0]

\* What the records of a program run to its end hold, where `old' are the arguments
\* of contracts that were deployed with others than today's scripts have.
Recorded1(value) == IF value.kind = "deployment" THEN [value EXCEPT !.nth = 1] ELSE value

AsRecorded(d, old) ==
  LET program == d.targets[1]
      deploys == {i \in DOMAIN program : program[i].do = "deploy"}
      sets == {i \in DOMAIN program : program[i].do \in {"set", "update"}}
      Args(step) == [j \in DOMAIN step.args |-> Recorded1(step.args[j])]
      Of(name) == program[CHOOSE i \in deploys : program[i].name = name]
      CellOf(i) == <<program[i].contract, 1, program[i].method, program[i].token.id>>
  IN [d EXCEPT
       !.deployed = [name \in {program[i].name : i \in deploys} |->
          [nth |-> 1,
           artifact |-> [contract |-> Of(name).contract,
                         args |-> IF name \in DOMAIN old THEN old[name] ELSE Args(Of(name))]]],
       !.chain = [cell \in {CellOf(i) : i \in sets} |->
          getAddress(Recorded1(program[CHOOSE i \in sets : CellOf(i) = cell].value))]]

\* deployments/mainnet and deployments/base: contracts deployed when their
\* constructors took no WETH, and a MasterOracle whose default oracle was another.
OldOnMainnet ==
  [ChainlinkEthOnlyTokenOracle |-> <<>>,
   CurveLpTokenOracle |-> <<At(mainnet, "ADDRESS_PROVIDER")>>,
   CurveFactoryLpTokenOracle |-> <<>>,
   MasterOracle |-> <<External("ChainlinkAndFallbacksOracle", TRUE)>>]
OldOnBase == [ChainlinkEthOnlyTokenOracle |-> <<>>]

ProgramOf(network) == N!Program(network)

RollBack(program) ==
  <<program,
    Repriced(Rebuilt(program, "MainAndFallbackOracle"), At(hemi, "msETH"),
             External("another aggregator", TRUE)),
    program>>

Ways ==
  [swell |-> [Live("swell", <<ProgramOf("swell")>>) EXCEPT !.signer = TRUE],
   swellFork |-> [Live("swell", <<ProgramOf("swell")>>) EXCEPT !.local = TRUE],
   hemi |-> [Live("hemi", <<ProgramOf("hemi")>>) EXCEPT !.maxQueue = 2, !.kills = 2],
   hemiRollsBack |->
     [Live("hemi", RollBack(ProgramOf("hemi"))) EXCEPT
        !.removesFile = TRUE, !.maxQueue = 2, !.kills = 1],
   base |->
     [AsRecorded(Live("base", <<ProgramOf("base"), Rebuilt(ProgramOf("base"), "ChainlinkOracle")>>),
                 OldOnBase) EXCEPT !.removesFile = TRUE, !.kills = 2],
   baseFirst |-> [Live("base", <<ProgramOf("base")>>) EXCEPT !.kills = 1],
   optimism |-> [Live("optimism", <<ProgramOf("optimism")>>) EXCEPT !.maxQueue = 2, !.kills = 1],
   mainnet |->
     [AsRecorded(Live("mainnet", <<ProgramOf("mainnet"),
                                   Rebuilt(ProgramOf("mainnet"), "ChainlinkOracle")>>),
                 OldOnMainnet) EXCEPT !.removesFile = TRUE, !.kills = 1],
   mainnetFork |-> [Live("mainnet", <<ProgramOf("mainnet")>>) EXCEPT !.local = TRUE]]

Deploying == LET all == Ways IN all
RunAgain == LET all == Ways IN [way \in {"hemi"} |-> all[way]]

RefusesSame == {"aggregators", "priceProviders", "isLpRegistered"}

Feeds ==
  [ChainlinkEthOnlyTokenOracle |-> "ethFeedOf", RedstoneUsdcOnlyTokenOracle |-> "usdcFeedOf",
   CurveLpTokenOracle |-> "isLpRegistered", CurveLpTokenOracleV2 |-> "isLpRegistered",
   CurveFactoryLpTokenOracle |-> "isLpRegistered"]

SkipIfAlreadyDeployed == {"mainnet", "optimism", "base"}
=============================================================================
