------------------------------ MODULE Networks ------------------------------
(***************************************************************************)
(* The networks of src/hardhat.config.ts: the chain each is on and the       *)
(* directory of its deploy scripts; and what a run of `hardhat deploy' on     *)
(* a network does.                                                          *)
(***************************************************************************)
EXTENDS SetupTokenOracles

Mainnet == INSTANCE DeployMainnet
Optimism == INSTANCE DeployOptimism
Base == INSTANCE DeployBase
Swell == INSTANCE DeploySwell
Hemi == INSTANCE DeployHemi

Chain(id, directory) == [chainId |-> id, deploy |-> directory]

\* The names that getChainConfig looks for in FORK_NODE_URL, the first that it
\* has deciding.  `localhost' and `hardhat' fork that chain.
ForkedUrls ==
  <<[names |-> {"eth.connect", "eth-mainnet"}, chain |-> Chain(1, "mainnet")],
    [names |-> {"optimism", "opt-mainnet"}, chain |-> Chain(10, "optimism")],
    [names |-> {"base"}, chain |-> Chain(8453, "base")],
    [names |-> {"swell"}, chain |-> Chain(1923, "swell")],
    [names |-> {"hemi"}, chain |-> Chain(43111, "hemi")]>>

getChainConfig(named) ==
  LET known == SelectSeq(ForkedUrls, LAMBDA url : url.names \cap named # {})
  IN IF known = <<>> THEN Chain(31337, "mainnet") ELSE known[1].chain

networks(named) ==
  [localhost |-> getChainConfig(named), hardhat |-> getChainConfig(named),
   mainnet |-> Chain(1, "mainnet"), optimism |-> Chain(10, "optimism"),
   base |-> Chain(8453, "base"), swell |-> Chain(1923, "swell"),
   hemi |-> Chain(43111, "hemi")]

\* The book that `Address' is for a network on the chain.
getChain(chainId) ==
  CASE chainId \in {1, 31337} -> "mainnet"
    [] chainId = 10 -> "optimism"
    [] chainId = 8453 -> "base"
    [] chainId = 1923 -> "swell"
    [] chainId = 43111 -> "hemi"

ScriptsIn ==
  [mainnet |-> Mainnet!Scripts, optimism |-> Optimism!Scripts, base |-> Base!Scripts,
   swell |-> Swell!Scripts, hemi |-> Hemi!Scripts]

\* A run takes the scripts in file order, which is the order of their
\* dependencies, with the address book of the network they were written for.
FileOrder == \A d \in DOMAIN ScriptsIn : InFileOrder(ScriptsIn[d])

OwnBook ==
  \A named \in SUBSET UNION {ForkedUrls[i].names : i \in DOMAIN ForkedUrls} :
    \A n \in DOMAIN networks(named) :
      getChain(networks(named)[n].chainId) = networks(named)[n].deploy

Program(network) == Steps(ScriptsIn[networks({})[network].deploy])
=============================================================================
