------------------------- MODULE MultisigDeployment -------------------------
(***************************************************************************)
(* How the contracts are deployed and configured: src/helpers/deployment    *)
(* and the deploy scripts of each network, taken one step at a time.        *)
(*                                                                          *)
(* A run of `hardhat deploy' deploys what is not recorded as it is in the    *)
(* repository, compares settings on the chain with the repository's, and     *)
(* saves in a file a transaction for each that differs; at its end it        *)
(* proposes the whole file to the Safe that governs and exits.  The signers  *)
(* confirm proposals in the order of their nonces, each as one atomic        *)
(* batch.  A run may be killed at any point; the file survives it.  On a     *)
(* local network an impersonated account executes the file, one transaction  *)
(* at a time; where the governor is the deployer's own account every setting *)
(* is executed as it is found.                                              *)
(*                                                                          *)
(* The Safe, its signers and hardhat-deploy are external.                   *)
(***************************************************************************)
EXTENDS Addresses, Sequences, SequencesExt

CONSTANTS
  Refusing,        \* methods whose setter refuses the value it already has
  NeedsFeed,       \* for token oracles, the setting that a routed token must have
  KeepsRoutes,     \* networks whose scripts keep the recorded MasterOracle
  Deployers        \* how a network is deployed: its network; its targets, the
                   \* programs of the commits that are checked out one after the
                   \* other; deployed and chain, what is there at first; local;
                   \* signer, whether the governor is the deployer's account;
                   \* removesFile, whether the file is removed before every run
                   \* as scripts/start-forked-node.sh does; and the bounds
                   \* maxQueue, the proposals waiting when a run starts (1 is the
                   \* documented procedure, to wait for the confirmation), and
                   \* kills, the runs that are killed

\* A cell of a contract that the records have, with a value that a contract can hold.
IsRecorded(cell, records) ==
  cell[1] \in DOMAIN records /\ cell[2] \in 1..records[cell[1]].nth

IsHeld(value) == value.kind \in {"external", "deployment", "number"} /\ value.checksummed

\* The steps of the scripts: a run that examines one has another to go on to, unless it
\* proposes; the setters that refuse are only given what was compared, with its
\* checksum; and the deployer updates what the step before has deployed.
IsSetting(s) ==
  s.method \in STRING /\ {s.token, s.value} \subseteq Value /\ s.value.kind # "zero"

IsProgram(program) ==
  /\ 1 \in DOMAIN program /\ DOMAIN program \subseteq Nat \ {0}
  /\ \A i \in DOMAIN program :
       LET step == program[i]
       IN /\ step.do \in {"deploy", "update", "require", "set", "propose"}
          /\ step.do # "propose" => i + 1 \in DOMAIN program
          /\ step.do = "deploy" =>
               /\ step.name \in STRING
               /\ Len(step.sets) \in Nat /\ DOMAIN step.sets = 1..Len(step.sets)
               /\ \A j \in DOMAIN step.sets :
                    IsSetting(step.sets[j]) /\ step.sets[j].value.kind # "undefined"
          /\ step.do = "update" =>
               /\ IsSetting(step) /\ step.method \notin Refusing
               /\ step.value.kind \notin {"deployment", "undefined"}
               /\ i - 1 \in DOMAIN program
               /\ program[i - 1].do = "deploy" /\ program[i - 1].name = step.contract
          /\ step.do = "set" =>
               /\ step.contract \in STRING /\ IsSetting(step)
               /\ i + 1 + step.nested \in DOMAIN program
               /\ step.method \in Refusing => step.compared = getAddress(step.value)

ASSUME DeployersAssumption ==
  \A d \in DOMAIN Deployers :
    LET the == Deployers[d]
    IN /\ the.kills \in Nat
       /\ Len(the.targets) \in Nat \ {0} /\ DOMAIN the.targets = 1..Len(the.targets)
       /\ \A i \in DOMAIN the.targets : IsProgram(the.targets[i])
       /\ \A name \in DOMAIN the.deployed : the.deployed[name].nth \in Nat \ {0}
       /\ \A cell \in DOMAIN the.chain :
            IsRecorded(cell, the.deployed) /\ IsHeld(the.chain[cell])

\* The names that the steps deploy; those recorded when a run examines step i, which
\* nothing from there on deploys again; and a value that is then at hand.
Names(program, steps) ==
  {program[j].name : j \in {k \in steps : program[k].do = "deploy"}}

Given(program, records, i) ==
  (records \cup Names(program, {j \in DOMAIN program : j < i}))
    \ Names(program, {j \in DOMAIN program : j >= i})

AtHand(value, names) ==
  value.kind # "undefined" /\ (value.kind = "deployment" => value.id \in names)

SameCell(s, t) == s.contract = t.contract /\ s.method = t.method /\ s.token.id = t.token.id

\* A program deploys what it looks up before it does so, or does without it; the address
\* book has every key it asks for; and what it requires is a setting that was proposed
\* at once, which no other step makes and which is compared with its checksum.
IsOrdered(program, records) ==
  \A i \in DOMAIN program :
    LET step == program[i]
        given == Given(program, records, i)
    IN /\ step.do = "deploy" =>
            /\ step.name \notin Names(program, {j \in DOMAIN program : j < i})
            /\ \A value \in ToSet(step.args) : AtHand(value, given)
       /\ step.do = "require" =>
            /\ AtHand(step.value, given)
            /\ \E j \in DOMAIN program :
                 /\ j < i /\ program[j].do = "set" /\ program[j].by = "atOnce"
                 /\ SameCell(program[j], step) /\ program[j].compared = step.compared
       /\ step.do = "set" =>
            LET names == given \cup
                  (step.optional \ Names(program, {j \in DOMAIN program : j >= i}))
            IN /\ step.contract \in names
               /\ AtHand(step.token, names) /\ AtHand(step.value, names)
               /\ step.by = "atOnce" =>
                    /\ step.optional = {} /\ step.compared = getAddress(step.value)
                    /\ \A j \in DOMAIN program :
                         program[j].do = "set" /\ SameCell(program[j], step) => j = i

\* Only a setting of the batch has another nested under it, nothing follows the
\* proposal, and settings are compared with what they set.
IsArranged(program) ==
  \A i \in DOMAIN program :
    LET step == program[i]
    IN /\ step.do = "propose" => \A j \in DOMAIN program : j <= i
       /\ step.do = "set" =>
            /\ step.by \in {"batch", "atOnce", "deployer"}
            /\ step.compared \in {step.value, getAddress(step.value)}
            /\ step.nested \in {0, 1}
            /\ step.nested = 1 =>
                 /\ step.by = "batch"
                 /\ program[i + 1].do = "set" /\ program[i + 1].nested = 0
                 /\ program[i + 1].by # "atOnce" /\ program[i + 1].method # "oracles"

\* Routes are settings of the batch, and one to a token oracle that needs a feed is
\* followed by the setting of that feed.
HasFeeds(program) ==
  \A i \in DOMAIN program :
    LET step == program[i]
        next == program[i + 1]
    IN /\ step.do = "deploy" => \A j \in DOMAIN step.sets : step.sets[j].method # "oracles"
       /\ step.do = "update" => step.method # "oracles"
       /\ step.do = "set" /\ step.method = "oracles" =>
            /\ step.by = "batch"
            /\ step.value.id \in DOMAIN NeedsFeed =>
                 /\ step.value.kind = "deployment" /\ step.value.checksummed
                 /\ next.do = "set" /\ next.contract = step.value.id
                 /\ next.method = NeedsFeed[step.value.id]
                 /\ next.method \notin {"oracles", "stalePeriodOf"}
                 /\ next.token.id = step.token.id /\ next.optional \subseteq step.optional

\* Of what is on the chain: a token that is routed to a token oracle has its feed there,
\* if it needs one.
IsFed(config) ==
  \A cell \in DOMAIN config :
    LET oracle == config[cell]
    IN cell[3] = "oracles" /\ oracle.id \in DOMAIN NeedsFeed
       => <<oracle.id, oracle.nth, NeedsFeed[oracle.id], cell[4]>> \in DOMAIN config

ASSUME ProgramsAssumption ==
  \A d \in DOMAIN Deployers :
    LET the == Deployers[d]
    IN /\ IsFed(the.chain)
       /\ \A i \in DOMAIN the.targets :
            /\ IsOrdered(the.targets[i], DOMAIN the.deployed)
            /\ IsArranged(the.targets[i])
            /\ HasFeeds(the.targets[i])

\* The settings of one method of a contract are all made in one way.
ASSUME WaysAssumption ==
  \A d \in DOMAIN Deployers :
    \A i, j \in DOMAIN Deployers[d].targets :
      \A s \in ToSet(Deployers[d].targets[i]), t \in ToSet(Deployers[d].targets[j]) :
        s.do = "set" /\ t.do \in {"set", "update"}
        /\ s.contract = t.contract /\ s.method = t.method => t.do = "set" /\ s.by = t.by

\* How a deployer proceeds: the file of one commit is not taken to another, nor the file
\* of a killed run to another on a local network; and where a proposal ends the run
\* that a later step requires, its confirmation is waited for.
ASSUME ProcedureAssumption ==
  \A d \in DOMAIN Deployers :
    LET the == Deployers[d]
    IN /\ the.removesFile \/ Len(the.targets) = 1
       /\ the.local => the.removesFile \/ the.kills = 0
       /\ the.maxQueue \in Nat
       /\ \/ the.local \/ the.signer \/ the.maxQueue <= 1
          \/ \A i \in DOMAIN the.targets :
               \A step \in ToSet(the.targets[i]) : step.do # "require"

\* skipIfAlreadyDeployed, where it is set.
ASSUME KeptAssumption ==
  \A d \in DOMAIN Deployers : Deployers[d].network \in KeepsRoutes =>
    \A i \in DOMAIN Deployers[d].targets :
      LET program == Deployers[d].targets[i]
      IN \A j \in DOMAIN program :
           program[j].do = "deploy" /\ program[j].name = "MasterOracle" => program[j].once

VARIABLES
  deployer,        \* which one it is; it never changes
  deployed,        \* deployments/<network>: the nth deployment of a name, and of what
  chain,           \* the settings on the chain, by cell
  commit,          \* the index in its targets of the checked-out program
  file,            \* multisig.batch.tmp.json: a sequence, <<>> created but empty
  queue,           \* the Safe's proposals that are not executed, by nonce
  script,          \* where the run is
  kills,
  found,           \* history: this run has saved a transaction
  executed         \* history: the transactions executed so far

vars == <<deployer, deployed, chain, commit, file, queue, script, kills, found, executed>>

NoFile == <<[cell |-> <<"no", 0, "file", "">>, value |-> AddressZero]>>

\* A run reads or saves the setting at a step, or sends one transaction of the
\* file; newly says that the step before has deployed its contract.
RunAt(i, doing) == [at |-> i, doing |-> doing, newly |-> FALSE]
Idle == RunAt(0, "idle")
Reading(i) == RunAt(i, "read")
Saving(i) == RunAt(i, "save")
Sending(i) == RunAt(i, "send")

The == Deployers[deployer]
Target == The.targets[commit]
Step == Target[script.at]

Init ==
  /\ deployer \in DOMAIN Deployers
  /\ deployed = The.deployed
  /\ chain = The.chain
  /\ commit = 1
  /\ file = NoFile
  /\ queue = <<>>
  /\ script = Idle
  /\ kills = 0
  /\ found = FALSE
  /\ executed = {}

-----------------------------------------------------------------------------
\* What the scripts look up.

\* A deployment that is not recorded, or a key that the address book does not have.
Missing(value) ==
  \/ value.kind = "undefined"
  \/ value.kind = "deployment" /\ value.id \notin DOMAIN deployed

Resolved(value) ==
  IF value.kind = "deployment" THEN [value EXCEPT !.nth = deployed[value.id].nth] ELSE value

Cell(step) == <<step.contract, deployed[step.contract].nth, step.method, step.token.id>>

\* Until it is set a token has the default stale period of the constructor.
Current(step) ==
  IF Cell(step) \in DOMAIN chain THEN chain[Cell(step)]
  ELSE IF step.method = "stalePeriodOf" THEN deployed[step.contract].artifact.args[1]
  ELSE AddressZero

InPlace(step) == Current(step) = Resolved(step.compared)

Absent(step) == ~(step.optional \subseteq DOMAIN deployed)

Tx(step) == [cell |-> Cell(step), value |-> getAddress(Resolved(step.value))]

Accepts(config, tx) ==
  tx.cell[3] \in Refusing /\ tx.cell \in DOMAIN config => config[tx.cell] # tx.value

\* What transactions executed one after the other leave: of the values that a cell is
\* set to, the last.
After(config, batch) ==
  [cell \in DOMAIN config \cup {batch[i].cell : i \in DOMAIN batch} |->
     LET sets == {i \in DOMAIN batch : batch[i].cell = cell}
     IN IF sets = {} THEN config[cell] ELSE batch[Max(sets)].value]

Apply(config, tx) == After(config, <<tx>>)

\* A batch reverts as a whole when a setter refuses the value it finds.
Executes(batch) ==
  \A i \in DOMAIN batch :
    batch[i].cell[3] \in Refusing => Accepts(After(chain, SubSeq(batch, 1, i - 1)), batch[i])

-----------------------------------------------------------------------------
\* The deployer.

\* Check out another commit.
CheckOut ==
  /\ script = Idle
  /\ commit < Len(The.targets)
  /\ commit' = commit + 1
  /\ UNCHANGED <<deployer, deployed, chain, file, queue, script, kills, found, executed>>

\* Mutant: the file of earlier runs is kept.
Start_KeepsFile ==
  /\ script = Idle
  /\ Len(queue) < The.maxQueue
  /\ script' = Reading(1)
  /\ found' = FALSE
  /\ UNCHANGED <<deployer, deployed, chain, commit, file, queue, kills, executed>>

Start ==
  /\ script = Idle
  /\ Len(queue) < The.maxQueue
  /\ script' = Reading(1)
  /\ found' = FALSE
  /\ file' = IF The.removesFile THEN NoFile ELSE file
  /\ UNCHANGED <<deployer, deployed, chain, commit, queue, kills, executed>>

Examining(do) == script.doing = "read" /\ Step.do = do

Artifact(step) ==
  [contract |-> step.contract, args |-> [i \in DOMAIN step.args |-> Resolved(step.args[i])]]

\* Mutant: skipIfAlreadyDeployed is not heeded.
Recorded_ComparesAll(step) ==
  step.name \in DOMAIN deployed /\ deployed[step.name].artifact = Artifact(step)

\* hardhat-deploy deploys a contract again when its code or an argument of its
\* constructor is not the recorded one's.
Recorded(step) ==
  /\ step.name \in DOMAIN deployed
  /\ step.once \/ deployed[step.name].artifact = Artifact(step)

DeployContract ==
  /\ Examining("deploy")
  /\ IF Recorded(Step) THEN
       /\ script' = Reading(script.at + 1)
       /\ UNCHANGED <<deployed, chain>>
     ELSE
       /\ ~\E v \in ToSet(Step.args) : Missing(v)
       /\ LET nth == IF Step.name \in DOMAIN deployed THEN deployed[Step.name].nth + 1 ELSE 1
              constructed ==
                [i \in DOMAIN Step.sets |->
                   [cell |-> <<Step.name, nth, Step.sets[i].method, Step.sets[i].token.id>>,
                    value |-> getAddress(Resolved(Step.sets[i].value))]]
              record == [nth |-> nth, artifact |-> Artifact(Step)]
          IN /\ deployed' = [name \in DOMAIN deployed \cup {Step.name} |->
                               IF name = Step.name THEN record ELSE deployed[name]]
             /\ chain' = After(chain, constructed)
       /\ script' = [Reading(script.at + 1) EXCEPT !.newly = TRUE]
  /\ UNCHANGED <<deployer, commit, file, queue, kills, found, executed>>

\* Move on to the step after the current one and those nested under it, or to the
\* first of these.
PassOver == script' = Reading(script.at + 1 + Step.nested)
GoOn == script' = Reading(script.at + 1)

\* update(), by the deployer, when the step before has deployed the contract.
UpdateNew ==
  /\ Examining("update")
  /\ chain' = IF script.newly THEN Apply(chain, Tx(Step)) ELSE chain
  /\ GoOn
  /\ UNCHANGED <<deployer, deployed, commit, file, queue, kills, found, executed>>

\* Look up a setting that has to be in place.
Require ==
  /\ Examining("require")
  /\ ~Missing(Step.value)
  /\ InPlace(Step)
  /\ GoOn
  /\ UNCHANGED <<deployer, deployed, chain, commit, file, queue, kills, found, executed>>

LacksAddress(step) ==
  Missing(DeploymentOf(step.contract)) \/ Missing(step.token) \/ Missing(step.value)

\* Compare one setting with the chain.
Read ==
  /\ Examining("set")
  /\ \/ Absent(Step) /\ PassOver
     \/ /\ ~Absent(Step)
        /\ ~LacksAddress(Step)
        /\ IF InPlace(Step) THEN PassOver ELSE script' = Saving(script.at)
  /\ UNCHANGED <<deployer, deployed, chain, commit, file, queue, kills, found, executed>>

\* A setting is executed as it is found: by the deployer, by a governor whose
\* account hardhat-deploy has, or by the impersonated Safe of a local network when
\* the script does not leave it for the end of the run.
ExecutesAtOnce(step) ==
  step.by = "deployer" \/ The.signer \/ (step.by = "atOnce" /\ The.local)

Execute ==
  /\ script.doing = "save"
  /\ ExecutesAtOnce(Step)
  /\ Accepts(chain, Tx(Step))
  /\ chain' = Apply(chain, Tx(Step))
  /\ executed' = executed \cup {Tx(Step)}
  /\ GoOn
  /\ UNCHANGED <<deployer, deployed, commit, file, queue, kills, found>>

\* Mutant: nothing is looked up before appending.
Saved_Repeats(tx) == IF file = NoFile THEN <<tx>> ELSE Append(file, tx)

\* saveForMultiSigBatchExecution: append, unless the file has the transaction.
\* (prepareTx refuses, on a live network, a governor that is not the Safe; on every
\* network it is the Safe or, on Swell, the deployer.)
Saved(tx) ==
  IF file = NoFile THEN <<tx>>
  ELSE IF tx \in ToSet(file) THEN file
  ELSE Append(file, tx)

\* Mutant: what is nested under a setting is passed over after saving it, too.
Save_SkipsNested ==
  /\ script.doing = "save"
  /\ ~ExecutesAtOnce(Step) /\ Step.by = "batch"
  /\ file' = Saved(Tx(Step))
  /\ found' = TRUE
  /\ PassOver
  /\ UNCHANGED <<deployer, deployed, chain, commit, queue, kills, executed>>

\* Mutant: every transaction is proposed by itself (executeFromGovernorMultiSig).
Save_ProposesEach ==
  /\ script.doing = "save"
  /\ ~ExecutesAtOnce(Step) /\ Step.by = "batch"
  /\ queue' = Append(queue, <<Tx(Step)>>)
  /\ found' = TRUE
  /\ script' = Idle
  /\ UNCHANGED <<deployer, deployed, chain, commit, file, kills, executed>>

Save ==
  /\ script.doing = "save"
  /\ ~ExecutesAtOnce(Step) /\ Step.by = "batch"
  /\ file' = Saved(Tx(Step))
  /\ found' = TRUE
  /\ GoOn
  /\ UNCHANGED <<deployer, deployed, chain, commit, queue, kills, executed>>

\* proposeTransaction of gnosis-safe.ts takes the next nonce: confirmations wait
\* for the proposals before.
Proposed(batch) == queue' = Append(queue, batch)

\* Mutant: the run goes on after the proposal.
ProposeAtOnce_GoesOn ==
  /\ script.doing = "save"
  /\ ~ExecutesAtOnce(Step) /\ Step.by = "atOnce"
  /\ Proposed(<<Tx(Step)>>)
  /\ found' = TRUE
  /\ GoOn
  /\ UNCHANGED <<deployer, deployed, chain, commit, file, kills, executed>>

\* executeUsingMultiSig: the proposal of one transaction ends the process.
ProposeAtOnce ==
  /\ script.doing = "save"
  /\ ~ExecutesAtOnce(Step) /\ Step.by = "atOnce"
  /\ Proposed(<<Tx(Step)>>)
  /\ found' = TRUE
  /\ script' = Idle
  /\ UNCHANGED <<deployer, deployed, chain, commit, file, kills, executed>>

\* executeBatchUsingMultisig at the end of the run.  Without a file there is nothing
\* to do.  A proposal ends the process, so the line that removes the file is only
\* reached on a local network.
Propose ==
  /\ Examining("propose")
  /\ file # <<>>
  /\ IF file = NoFile THEN script' = Idle /\ UNCHANGED queue
     ELSE IF The.local THEN script' = Sending(1) /\ UNCHANGED queue
     ELSE script' = Idle /\ Proposed(file)
  /\ UNCHANGED <<deployer, deployed, chain, commit, file, kills, found, executed>>

Send ==
  /\ script.doing = "send"
  /\ IF script.at > Len(file) THEN
       /\ file' = NoFile
       /\ script' = Idle
       /\ UNCHANGED <<chain, executed>>
     ELSE
       /\ Accepts(chain, file[script.at])
       /\ chain' = Apply(chain, file[script.at])
       /\ executed' = executed \cup {file[script.at]}
       /\ script' = Sending(script.at + 1)
       /\ UNCHANGED file
  /\ UNCHANGED <<deployer, deployed, commit, queue, kills, found>>

RunSteps ==
  \/ DeployContract \/ UpdateNew \/ Require \/ Read
  \/ Execute \/ Save \/ ProposeAtOnce \/ Propose \/ Send

\* The run cannot go on: something it looks up is missing, a required setting is
\* not in place, a setter refuses, or the file is empty and does not parse.
Throws ==
  \/ Examining("deploy") /\ ~Recorded(Step) /\ \E v \in ToSet(Step.args) : Missing(v)
  \/ Examining("require") /\ (Missing(Step.value) \/ ~InPlace(Step))
  \/ Examining("set") /\ ~Absent(Step) /\ LacksAddress(Step)
  \/ Examining("propose") /\ file = <<>>
  \/ script.doing = "save" /\ ExecutesAtOnce(Step) /\ ~Accepts(chain, Tx(Step))
  \/ script.doing = "send" /\ script.at <= Len(file) /\ ~Accepts(chain, file[script.at])

\* The run is killed, or fails.  Saving opens the file before the transaction is
\* prepared, and leaves it empty if it stops there.  A kill within the writeFileSync of
\* a file that has a batch, which may tear it or cut it off, is not modelled.
Kill ==
  /\ script # Idle
  /\ \/ Throws /\ UNCHANGED kills
     \/ kills < The.kills /\ kills' = kills + 1
  /\ script' = Idle
  /\ \/ file' = file
     \/ script.doing = "save" /\ ~ExecutesAtOnce(Step) /\ Step.by = "batch" /\ file = NoFile
        /\ file' = <<>>
  /\ UNCHANGED <<deployer, deployed, chain, commit, queue, found, executed>>

-----------------------------------------------------------------------------
\* The Safe.

Confirm ==
  /\ queue # <<>>
  /\ Executes(Head(queue))
  /\ chain' = After(chain, Head(queue))
  /\ executed' = executed \cup ToSet(Head(queue))
  /\ queue' = Tail(queue)
  /\ UNCHANGED <<deployer, deployed, commit, file, script, kills, found>>

\* A proposal that reverts keeps its nonce until the signers reject it.
Reject ==
  /\ queue # <<>>
  /\ ~Executes(Head(queue))
  /\ queue' = Tail(queue)
  /\ UNCHANGED <<deployer, deployed, chain, commit, file, script, kills, found, executed>>

Next == CheckOut \/ Start \/ RunSteps \/ Kill \/ Confirm \/ Reject

\* The deployer keeps running the deployment, a run goes on unless it is killed,
\* and the signers deal with every proposal.
Fairness ==
  /\ WF_vars(Start)
  /\ WF_vars(RunSteps)
  /\ WF_vars(Confirm \/ Reject)

Spec == Init /\ [][Next]_vars /\ Fairness

-----------------------------------------------------------------------------
IsTx(tx) == DOMAIN tx = {"cell", "value"} /\ Len(tx.cell) = 4

TypeOK ==
  /\ \A name \in DOMAIN deployed : deployed[name].nth \in Nat \ {0}
  /\ \A cell \in DOMAIN chain : IsRecorded(cell, deployed) /\ IsHeld(chain[cell])
  /\ commit \in DOMAIN The.targets
  /\ file # NoFile => IsInjective(file) /\ \A tx \in ToSet(file) : IsTx(tx)
  /\ \A i \in DOMAIN queue : queue[i] # <<>> /\ \A tx \in ToSet(queue[i]) : IsTx(tx)
  /\ script.doing \in {"idle", "read", "save", "send"}
  /\ kills \in 0..The.kills
  /\ found \in BOOLEAN
  /\ \A tx \in executed : IsTx(tx)

\* A token is never routed to a token oracle that has no feed for it, or no pool,
\* whatever run was killed between saving the two: they are in one batch.  Where
\* settings are executed one by one this is so when no run is under way, unless one
\* was killed.
RoutedTokensHaveFeeds ==
  (script = Idle /\ kills = 0) \/ ~(The.local \/ The.signer) => IsFed(chain)

\* No run fails: what a script looks up was deployed before it and is in the address
\* book, what it requires is in place by then, and it does not find the empty file that
\* a killed run may leave (a file that a kill tore is not modelled).
NoRunFails == ~Throws

\* A proposal the Safe cannot execute only repeats what an earlier proposal did:
\* a batch never reverts because of what a run found to be missing.
OnlyReplaysRevert ==
  queue # <<>> /\ ~Executes(Head(queue)) => ToSet(Head(queue)) \cap executed # {}

\* What a token is priced by in the MasterOracle of the records.
Routed ==
  {cell[4] : cell \in {c \in DOMAIN chain :
     c[1] = "MasterOracle" /\ c[2] = deployed["MasterOracle"].nth /\ c[3] = "oracles"}}

\* "hardhat-deploy will try to redeploy it because we recently changed the
\* defaultOracleAddress.  We don't want this" (04_master_oracle.ts): on these
\* networks no token loses its route in the MasterOracle that consumers are given.
RoutesStay == [][The.network \in KeepsRoutes => Routed \subseteq Routed']_vars

\* Runs and confirmations bring the contracts to what the repository says of them,
\* and keep them there.
AsInRepository ==
  \A i \in DOMAIN Target :
    /\ Target[i].do = "deploy" => Target[i].name \in DOMAIN deployed
    /\ Target[i].do = "set" => ~LacksAddress(Target[i]) /\ InPlace(Target[i])

Converges == <>[]AsInRepository

\* "After confirmation, you must run the deployment again" (for its records,
\* multisig-helpers.ts:52-53): a run that finds every setting in place proposes
\* nothing to the Safe.
NothingFoundNothingProposed == [][Len(queue') > Len(queue) => found]_vars
=============================================================================
