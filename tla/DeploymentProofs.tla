--------------------------- MODULE DeploymentProofs ---------------------------
(***************************************************************************)
(* Proofs about the deployment, for all scripts, records, commits, kills    *)
(* and proposals in waiting.                                                *)
(***************************************************************************)
EXTENDS MultisigDeployment, IntegerTheorems

Cells == STRING \X Nat \X STRING \X STRING
Transaction == [cell : Cells, value : Value]

LEMMA TransactionForm ==
  ASSUME NEW tx \in Transaction
  PROVE  IsTx(tx)
BY DEF Transaction, Cells, IsTx

-----------------------------------------------------------------------------
(***************************************************************************)
(* The inductive invariant.  What TypeOK says of records, chain, file and    *)
(* queue does not explain why a batch executes: that rests on what was seen  *)
(* when each transaction was saved, and on everything that was executed      *)
(* since.  A transaction is ready when its contract is recorded and, if its  *)
(* setter refuses the value it has, the contract has that value only because *)
(* this very transaction was executed before.                                *)
(***************************************************************************)

RecordsOK(records) == \A name \in DOMAIN records : records[name].nth \in Nat \ {0}

ChainOK(config, records) ==
  \A cell \in DOMAIN config : IsRecorded(cell, records) /\ IsHeld(config[cell])

InForce(tx, config) == tx.cell \in DOMAIN config /\ config[tx.cell] = tx.value

Ready(tx, records, config, done) ==
  /\ IsRecorded(tx.cell, records)
  /\ IsHeld(tx.value)
  /\ tx.cell[3] \in Refusing /\ InForce(tx, config) => tx \in done

BatchOK(batch, records, config, done) ==
  IsInjective(batch) /\ \A i \in DOMAIN batch : Ready(batch[i], records, config, done)

FileOK ==
  file # NoFile =>
    file \in Seq(Transaction) /\ BatchOK(file, deployed, chain, executed)

QueueOK ==
  /\ queue \in Seq(Seq(Transaction))
  /\ \A i \in DOMAIN queue : queue[i] # <<>> /\ BatchOK(queue[i], deployed, chain, executed)

Runs == [at : Nat, doing : {"idle", "read", "save", "send"}, newly : BOOLEAN]

RunOK ==
  /\ script \in Runs
  /\ script.doing \in {"read", "save"} => script.at \in DOMAIN Target
  /\ script.doing = "read" /\ script.newly =>
       /\ script.at - 1 \in DOMAIN Target
       /\ Target[script.at - 1].do = "deploy"
       /\ Target[script.at - 1].name \in DOMAIN deployed
  /\ script.doing = "save" =>
       /\ Step.do = "set"
       /\ Tx(Step) \in Transaction
       /\ Ready(Tx(Step), deployed, chain, executed)
  /\ script.doing = "send" => file # NoFile /\ script.at # 0

CommitOK ==
  deployer \in DOMAIN Deployers /\ commit \in DOMAIN The.targets /\ kills \in 0..The.kills

ExecutedOK == executed \subseteq Transaction /\ found \in BOOLEAN

DeploymentInv ==
  /\ CommitOK /\ ExecutedOK
  /\ RecordsOK(deployed) /\ ChainOK(chain, deployed)
  /\ FileOK /\ QueueOK /\ RunOK

-----------------------------------------------------------------------------
(***************************************************************************)
(* What the setters leave.                                                   *)
(***************************************************************************)

\* A cell has the last value it is set to, or else the one it had.
LEMMA AfterValue ==
  ASSUME NEW config, NEW batch, NEW n \in Nat, DOMAIN batch = 1..n,
         NEW cell \in DOMAIN After(config, batch)
  PROVE  \/ /\ \A i \in DOMAIN batch : batch[i].cell # cell
            /\ cell \in DOMAIN config
            /\ After(config, batch)[cell] = config[cell]
         \/ \E i \in DOMAIN batch :
              batch[i].cell = cell /\ After(config, batch)[cell] = batch[i].value
<1> DEFINE sets == {i \in DOMAIN batch : batch[i].cell = cell}
<1>1. /\ cell \in DOMAIN config \cup {batch[i].cell : i \in DOMAIN batch}
      /\ After(config, batch)[cell] =
           IF sets = {} THEN config[cell] ELSE batch[Max(sets)].value
  BY DEF After
<1>2. CASE sets = {}
  BY <1>1, <1>2
<1>3. CASE sets # {}
  <2>1. sets \in SUBSET (1..n)
    OBVIOUS
  <2>2. Max(sets) \in sets
    BY <1>3, <2>1, LargestPlace
  <2> QED
    BY <1>1, <1>3, <2>2
<1> QED
  BY <1>2, <1>3

LEMMA AfterDomain ==
  ASSUME NEW config, NEW batch
  PROVE  DOMAIN After(config, batch) = DOMAIN config \cup {batch[i].cell : i \in DOMAIN batch}
BY DEF After

LEMMA ApplyValue ==
  ASSUME NEW config, NEW tx, NEW cell \in DOMAIN Apply(config, tx)
  PROVE  \/ cell \in DOMAIN config /\ Apply(config, tx)[cell] = config[cell]
         \/ cell = tx.cell /\ Apply(config, tx)[cell] = tx.value
<1> DEFINE batch == <<tx>>
<1>1. DOMAIN batch = 1..1 /\ \A i \in DOMAIN batch : batch[i] = tx
  OBVIOUS
<1>2. cell \in DOMAIN After(config, batch)
  BY DEF Apply
<1>3. Apply(config, tx) = After(config, batch)
  BY DEF Apply
<1> HIDE DEF batch
<1>4. \/ /\ \A i \in DOMAIN batch : batch[i].cell # cell
         /\ cell \in DOMAIN config
         /\ After(config, batch)[cell] = config[cell]
      \/ \E i \in DOMAIN batch :
           batch[i].cell = cell /\ After(config, batch)[cell] = batch[i].value
  <2>1. PICK n \in Nat : DOMAIN batch = 1..n
    BY <1>1
  <2> QED
    BY <1>2, <2>1, AfterValue
<1> QED
  BY <1>1, <1>3, <1>4

\* What is ready stays ready when records only grow and a refusing setter of a recorded
\* contract is only called by a transaction that counts as executed.
SetBy(config, records, config1, done1) ==
  \A tx \in Transaction :
    IsRecorded(tx.cell, records) /\ tx.cell[3] \in Refusing /\ InForce(tx, config1)
    => InForce(tx, config) \/ tx \in done1

Grows(records, records1) ==
  \A name \in DOMAIN records :
    name \in DOMAIN records1 /\ records[name].nth <= records1[name].nth

LEMMA RecordedStays ==
  ASSUME NEW records, NEW records1, RecordsOK(records), RecordsOK(records1),
         Grows(records, records1), NEW cell, IsRecorded(cell, records)
  PROVE  IsRecorded(cell, records1)
<1>1. cell[1] \in DOMAIN records /\ cell[2] \in 1..records[cell[1]].nth
  BY DEF IsRecorded
<1>2. cell[1] \in DOMAIN records1 /\ records[cell[1]].nth <= records1[cell[1]].nth
  BY <1>1 DEF Grows
<1>3. records[cell[1]].nth \in Nat /\ records1[cell[1]].nth \in Nat
  BY <1>1, <1>2 DEF RecordsOK
<1>4. cell[2] \in 1..records1[cell[1]].nth
  BY <1>1, <1>2, <1>3
<1> QED
  BY <1>2, <1>4 DEF IsRecorded

LEMMA ReadyStays ==
  ASSUME NEW records, NEW records1, RecordsOK(records), RecordsOK(records1),
         Grows(records, records1),
         NEW config, NEW config1, NEW done, NEW done1, done \subseteq done1,
         SetBy(config, records, config1, done1),
         NEW tx \in Transaction, Ready(tx, records, config, done)
  PROVE  Ready(tx, records1, config1, done1)
<1>1. IsRecorded(tx.cell, records1) /\ IsHeld(tx.value)
  BY RecordedStays DEF Ready
<1>2. ASSUME tx.cell[3] \in Refusing, InForce(tx, config1) PROVE tx \in done1
  <2>1. InForce(tx, config) \/ tx \in done1
    BY <1>2 DEF SetBy, Ready
  <2> QED
    BY <1>2, <2>1 DEF Ready
<1> QED
  BY <1>1, <1>2 DEF Ready

LEMMA BatchStays ==
  ASSUME NEW records, NEW records1, RecordsOK(records), RecordsOK(records1),
         Grows(records, records1),
         NEW config, NEW config1, NEW done, NEW done1, done \subseteq done1,
         SetBy(config, records, config1, done1),
         NEW batch \in Seq(Transaction), BatchOK(batch, records, config, done)
  PROVE  BatchOK(batch, records1, config1, done1)
<1>1. ASSUME NEW i \in DOMAIN batch PROVE Ready(batch[i], records1, config1, done1)
  <2>1. batch[i] \in Transaction /\ Ready(batch[i], records, config, done)
    BY DEF BatchOK
  <2> QED
    BY <2>1, ReadyStays
<1> QED
  BY <1>1 DEF BatchOK

\* One transaction, sent by the deployer or by the governor's account.
LEMMA ApplyKeeps ==
  ASSUME NEW records, NEW config, ChainOK(config, records),
         NEW tx, IsRecorded(tx.cell, records), IsHeld(tx.value)
  PROVE  ChainOK(Apply(config, tx), records)
BY ApplyValue DEF ChainOK

LEMMA ApplySets ==
  ASSUME NEW records, NEW config, NEW done,
         NEW tx, (tx \in Transaction /\ tx \in done) \/ tx.cell[3] \notin Refusing
  PROVE  SetBy(config, records, Apply(config, tx), done)
<1> SUFFICES ASSUME NEW t \in Transaction, t.cell[3] \in Refusing,
                    InForce(t, Apply(config, tx)), ~InForce(t, config)
             PROVE  t \in done
  BY DEF SetBy
<1>1. t.cell = tx.cell /\ t.value = tx.value
  BY ApplyValue DEF InForce
<1>2. tx \in Transaction /\ tx \in done
  BY <1>1
<1>3. t = tx
  BY <1>1, <1>2 DEF Transaction
<1> QED
  BY <1>2, <1>3

\* A batch, confirmed.
LEMMA AfterKeeps ==
  ASSUME NEW records, NEW config, ChainOK(config, records),
         NEW n \in Nat, NEW batch, DOMAIN batch = 1..n,
         \A i \in DOMAIN batch : IsRecorded(batch[i].cell, records) /\ IsHeld(batch[i].value)
  PROVE  ChainOK(After(config, batch), records)
<1> SUFFICES ASSUME NEW cell \in DOMAIN After(config, batch)
             PROVE  IsRecorded(cell, records) /\ IsHeld(After(config, batch)[cell])
  BY DEF ChainOK
<1>1. CASE cell \in DOMAIN config /\ After(config, batch)[cell] = config[cell]
  BY <1>1 DEF ChainOK
<1>2. CASE \E i \in DOMAIN batch :
             batch[i].cell = cell /\ After(config, batch)[cell] = batch[i].value
  BY <1>2
<1> QED
  BY <1>1, <1>2, AfterValue

LEMMA AfterSets ==
  ASSUME NEW records, NEW config, NEW done, NEW batch \in Seq(Transaction)
  PROVE  SetBy(config, records, After(config, batch), done \cup ToSet(batch))
<1> SUFFICES ASSUME NEW t \in Transaction, t.cell[3] \in Refusing,
                    InForce(t, After(config, batch)), ~InForce(t, config)
             PROVE  t \in ToSet(batch)
  BY DEF SetBy
<1>1. Len(batch) \in Nat /\ DOMAIN batch = 1..Len(batch)
  OBVIOUS
<1>2. t.cell \in DOMAIN After(config, batch) /\ After(config, batch)[t.cell] = t.value
  BY DEF InForce
<1>3. PICK i \in DOMAIN batch :
        batch[i].cell = t.cell /\ After(config, batch)[t.cell] = batch[i].value
  <2>1. ~(t.cell \in DOMAIN config /\ After(config, batch)[t.cell] = config[t.cell])
    BY <1>2 DEF InForce
  <2> QED
    BY <1>1, <1>2, <2>1, AfterValue
<1>4. batch[i] \in Transaction /\ batch[i].cell = t.cell /\ batch[i].value = t.value
  BY <1>2, <1>3
<1>5. batch[i] = t
  BY <1>4 DEF Transaction
<1> QED
  BY <1>5 DEF ToSet

-----------------------------------------------------------------------------
(***************************************************************************)
(* The steps of the scripts.                                                 *)
(***************************************************************************)

LEMMA TargetIsProgram ==
  ASSUME CommitOK
  PROVE  IsProgram(Target)
BY DeployersAssumption DEF CommitOK, The, Target

LEMMA GoesOn ==
  ASSUME NEW program, IsProgram(program), NEW i \in DOMAIN program
  PROVE  /\ i \in Nat
         /\ program[i].do # "propose" => i + 1 \in DOMAIN program
         /\ program[i].do = "set" => i + 1 + program[i].nested \in DOMAIN program
BY DEF IsProgram

LEMMA ResolvedValue ==
  ASSUME NEW value \in Value, value.kind \notin {"zero", "undefined"},
         ~Missing(value), RecordsOK(deployed)
  PROVE  /\ getAddress(Resolved(value)) \in Value
         /\ IsHeld(getAddress(Resolved(value)))
         /\ Resolved(getAddress(value)) = getAddress(Resolved(value))
<1>1. CASE value.kind = "deployment"
  <2>1. value.id \in DOMAIN deployed
    BY <1>1 DEF Missing
  <2>2. deployed[value.id].nth \in Nat
    BY <2>1 DEF RecordsOK
  <2> QED
    BY <1>1, <2>2 DEF getAddress, Resolved, Value, IsHeld
<1>2. CASE value.kind # "deployment"
  BY <1>2 DEF getAddress, Resolved, Value, IsHeld
<1> QED
  BY <1>1, <1>2

\* The transaction of a setting that was compared and found to differ.
LEMMA ReadyWhenCompared ==
  ASSUME CommitOK, RecordsOK(deployed), script.at \in DOMAIN Target, Step.do = "set",
         ~LacksAddress(Step), ~InPlace(Step)
  PROVE  Tx(Step) \in Transaction /\ Ready(Tx(Step), deployed, chain, executed)
<1>1. /\ Step.contract \in STRING /\ Step.method \in STRING
      /\ Step.token \in Value /\ Step.value \in Value /\ Step.value.kind # "zero"
      /\ Step.method \in Refusing => Step.compared = getAddress(Step.value)
  BY TargetIsProgram DEF IsProgram, IsSetting, Step
<1>2. Step.contract \in DOMAIN deployed /\ ~Missing(Step.value)
  BY DEF LacksAddress, Missing, DeploymentOf
<1>3. Step.value.kind # "undefined"
  BY <1>2 DEF Missing
<1>4. deployed[Step.contract].nth \in Nat \ {0}
  BY <1>2 DEF RecordsOK
<1>5. Cell(Step) \in Cells
  BY <1>1, <1>4 DEF Cell, Cells, Value
<1>6. IsRecorded(Cell(Step), deployed) /\ Cell(Step)[3] = Step.method
  BY <1>2, <1>4 DEF IsRecorded, Cell
<1>7. /\ getAddress(Resolved(Step.value)) \in Value
      /\ IsHeld(getAddress(Resolved(Step.value)))
      /\ Resolved(getAddress(Step.value)) = getAddress(Resolved(Step.value))
  BY <1>1, <1>2, <1>3, ResolvedValue
<1>8. /\ Tx(Step) \in Transaction
      /\ Tx(Step).cell = Cell(Step)
      /\ Tx(Step).value = getAddress(Resolved(Step.value))
  BY <1>5, <1>7 DEF Tx, Transaction
<1>9. ~(Step.method \in Refusing /\ InForce(Tx(Step), chain))
  BY <1>1, <1>7, <1>8 DEF InForce, InPlace, Current
<1> QED
  BY <1>6, <1>7, <1>8, <1>9 DEF Ready

-----------------------------------------------------------------------------
(***************************************************************************)
(* What a step leaves alone.                                                 *)
(***************************************************************************)

\* Records, chain and history change as the lemmas above want it.
Moves ==
  /\ RecordsOK(deployed) /\ RecordsOK(deployed')
  /\ Grows(deployed, deployed')
  /\ executed \subseteq executed'
  /\ SetBy(chain, deployed, chain', executed')

LEMMA FileStays ==
  ASSUME Moves, FileOK, UNCHANGED file
  PROVE  FileOK'
<1> SUFFICES ASSUME file' # NoFile
             PROVE  file' \in Seq(Transaction) /\ BatchOK(file', deployed', chain', executed')
  BY DEF FileOK
<1>1. file \in Seq(Transaction) /\ BatchOK(file, deployed, chain, executed)
  BY DEF FileOK
<1>2. BatchOK(file, deployed', chain', executed')
  BY <1>1, BatchStays DEF Moves
<1> QED
  BY <1>1, <1>2

LEMMA QueueStays ==
  ASSUME Moves, QueueOK, UNCHANGED queue
  PROVE  QueueOK'
<1>1. ASSUME NEW i \in DOMAIN queue
      PROVE  queue[i] # <<>> /\ BatchOK(queue[i], deployed', chain', executed')
  <2>1. queue[i] \in Seq(Transaction) /\ BatchOK(queue[i], deployed, chain, executed)
    BY DEF QueueOK
  <2> QED
    BY <2>1, BatchStays DEF Moves, QueueOK
<1> QED
  BY <1>1 DEF QueueOK

LEMMA RunStays ==
  ASSUME Moves, RunOK, UNCHANGED <<deployer, deployed, commit, file, script>>
  PROVE  RunOK'
<1>1. Target' = Target /\ Step' = Step /\ Tx(Step)' = Tx(Step)
  BY DEF Target, The, Step, Tx, Cell, Resolved
<1>2. ASSUME script.doing = "save" PROVE Ready(Tx(Step), deployed', chain', executed')
  <2>1. Tx(Step) \in Transaction /\ Ready(Tx(Step), deployed, chain, executed)
    BY <1>2 DEF RunOK
  <2> QED
    BY <2>1, ReadyStays DEF Moves
<1> QED
  BY <1>1, <1>2 DEF RunOK

\* Steps that set nothing.
LEMMA Stands ==
  ASSUME RecordsOK(deployed), UNCHANGED <<deployed, chain, executed>>
  PROVE  Moves
BY DEF Moves, Grows, SetBy, RecordsOK

-----------------------------------------------------------------------------
(***************************************************************************)
(* The invariant, action by action.                                          *)
(***************************************************************************)

LEMMA InitEstablishesInv == Init => DeploymentInv
<1> SUFFICES ASSUME Init PROVE DeploymentInv
  OBVIOUS
<1> USE DEF Init
<1>1. CommitOK
  BY DeployersAssumption DEF CommitOK, The
<1>2. RecordsOK(deployed) /\ ChainOK(chain, deployed)
  BY DeployersAssumption DEF RecordsOK, ChainOK, The
<1>3. FileOK
  BY DEF FileOK
<1>4. QueueOK
  <2>1. queue \in Seq(Seq(Transaction)) /\ DOMAIN queue = {}
    OBVIOUS
  <2> QED
    BY <2>1 DEF QueueOK
<1>5. ExecutedOK
  BY DEF ExecutedOK
<1>6. RunOK
  <2>1. script \in Runs /\ script.doing = "idle"
    BY DEF Runs, Idle, RunAt
  <2> QED
    BY <2>1 DEF RunOK
<1> QED
  BY <1>1, <1>2, <1>3, <1>4, <1>5, <1>6 DEF DeploymentInv

LEMMA StartFacts ==
  ASSUME DeploymentInv
  PROVE  /\ CommitOK /\ ExecutedOK /\ FileOK /\ QueueOK /\ RunOK
         /\ RecordsOK(deployed) /\ ChainOK(chain, deployed)
         /\ IsProgram(Target)
         /\ script.at \in Nat
BY TargetIsProgram DEF DeploymentInv, RunOK, Runs

LEMMA CheckOutKeepsInv ==
  ASSUME DeploymentInv, CheckOut
  PROVE  DeploymentInv'
<1>1. Moves /\ FileOK' /\ QueueOK'
  BY StartFacts, Stands, FileStays, QueueStays DEF CheckOut
<1>2. CommitOK'
  BY StartFacts, DeployersAssumption DEF CheckOut, CommitOK, The
<1>3. RunOK' /\ ExecutedOK' /\ RecordsOK(deployed)' /\ ChainOK(chain, deployed)'
  BY StartFacts DEF CheckOut, RunOK, Idle, RunAt, Runs, ExecutedOK, RecordsOK, ChainOK
<1> QED
  BY <1>1, <1>2, <1>3 DEF DeploymentInv

\* A step that only moves the run, and perhaps what it found or removed.
LEMMA RunMoves ==
  ASSUME DeploymentInv, UNCHANGED <<deployer, deployed, chain, commit, executed>>,
         FileOK', QueueOK', RunOK', kills' \in 0..The.kills, found' \in BOOLEAN
  PROVE  DeploymentInv'
<1>1. CommitOK' /\ ExecutedOK' /\ RecordsOK(deployed)' /\ ChainOK(chain, deployed)'
  BY StartFacts DEF CommitOK, ExecutedOK, RecordsOK, ChainOK, The
<1> QED
  BY <1>1 DEF DeploymentInv

LEMMA GoingOn ==
  ASSUME CommitOK, UNCHANGED <<deployer, commit>>, NEW i \in DOMAIN Target,
         script' = Reading(i) \/ script' = Idle
  PROVE  RunOK'
<1>1. i \in Nat /\ Target' = Target
  BY TargetIsProgram, GoesOn DEF Target, The
<1>2. CASE script' = Reading(i)
  <2>1. /\ script' \in Runs /\ script'.at = i /\ script'.doing = "read"
        /\ script'.newly = FALSE
    BY <1>1, <1>2 DEF Reading, RunAt, Runs
  <2> QED
    BY <1>1, <2>1 DEF RunOK
<1>3. CASE script' = Idle
  <2>1. script' \in Runs /\ script'.doing = "idle"
    BY <1>3 DEF Idle, RunAt, Runs
  <2> QED
    BY <2>1 DEF RunOK
<1> QED
  BY <1>2, <1>3

LEMMA IdleIsOK ==
  ASSUME script' = Idle
  PROVE  RunOK'
BY DEF RunOK, Idle, RunAt, Runs

LEMMA StartKeepsInv ==
  ASSUME DeploymentInv, Start
  PROVE  DeploymentInv'
<1>1. Moves /\ QueueOK'
  BY StartFacts, Stands, QueueStays DEF Start
<1>2. FileOK'
  <2>2. CASE file' = NoFile
    BY <2>2 DEF FileOK
  <2>1. CASE file' = file
    BY <1>1, <2>1, StartFacts, FileStays
  <2> QED
    BY <2>1, <2>2 DEF Start
<1>3. 1 \in DOMAIN Target
  BY StartFacts DEF IsProgram
<1>4. RunOK'
  BY <1>3, StartFacts, GoingOn DEF Start
<1>5. kills' \in 0..The.kills /\ found' \in BOOLEAN
  BY StartFacts DEF Start, CommitOK
<1> QED
  BY <1>1, <1>2, <1>4, <1>5, RunMoves DEF Start

LEMMA RequireKeepsInv ==
  ASSUME DeploymentInv, Require
  PROVE  DeploymentInv'
<1>1. Moves /\ FileOK' /\ QueueOK'
  BY StartFacts, Stands, FileStays, QueueStays DEF Require
<1>2. script.at \in DOMAIN Target /\ Step.do = "require"
  BY StartFacts DEF Require, Examining, RunOK
<1>3. script.at + 1 \in DOMAIN Target
  BY <1>2, StartFacts, GoesOn DEF Step
<1>4. RunOK'
  BY <1>3, StartFacts, GoingOn DEF Require, GoOn
<1> QED
  BY <1>1, <1>4, RunMoves, StartFacts DEF Require, CommitOK, ExecutedOK

LEMMA ReadKeepsInv ==
  ASSUME DeploymentInv, Read
  PROVE  DeploymentInv'
<1>1. Moves /\ FileOK' /\ QueueOK'
  BY StartFacts, Stands, FileStays, QueueStays DEF Read
<1>2. script.at \in DOMAIN Target /\ Step.do = "set"
  BY StartFacts DEF Read, Examining, RunOK
<1>3. CASE PassOver
  <2>1. script.at + 1 + Step.nested \in DOMAIN Target
    BY <1>2, StartFacts, GoesOn DEF Step
  <2>2. RunOK'
    BY <1>3, <2>1, StartFacts, GoingOn DEF Read, PassOver
  <2> QED
    BY <1>1, <2>2, RunMoves, StartFacts DEF Read, CommitOK, ExecutedOK
<1>4. CASE ~LacksAddress(Step) /\ ~InPlace(Step) /\ script' = Saving(script.at)
  <2>1. Tx(Step) \in Transaction /\ Ready(Tx(Step), deployed, chain, executed)
    BY <1>2, <1>4, StartFacts, ReadyWhenCompared
  <2>2. script'.at = script.at /\ script'.doing = "save" /\ script' \in Runs
    BY <1>4, StartFacts DEF Saving, RunAt, Runs
  <2>3. Target' = Target /\ Step' = Step /\ Tx(Step)' = Tx(Step)
    BY <2>2 DEF Read, Target, The, Step, Tx, Cell, Resolved
  <2>4. RunOK'
    BY <1>2, <2>1, <2>2, <2>3 DEF RunOK, Read
  <2> QED
    BY <1>1, <2>4, RunMoves, StartFacts DEF Read, CommitOK, ExecutedOK
<1> QED
  BY <1>3, <1>4 DEF Read

LEMMA HeldValue ==
  ASSUME NEW value \in Value, value.kind \notin {"zero", "undefined"}
  PROVE  IsHeld(getAddress(Resolved(value)))
<1>1. CASE value.kind = "deployment"
  BY <1>1 DEF getAddress, Resolved, Value, IsHeld
<1>2. CASE value.kind # "deployment"
  BY <1>2 DEF getAddress, Resolved, Value, IsHeld
<1> QED
  BY <1>1, <1>2

\* A contract deployed anew has cells that no transaction names yet.
LEMMA DeployContractMoves ==
  ASSUME DeploymentInv, DeployContract, ~Recorded(Step)
  PROVE  /\ Moves
         /\ ChainOK(chain, deployed)'
         /\ Step.name \in DOMAIN deployed'
<1> DEFINE nth == IF Step.name \in DOMAIN deployed THEN deployed[Step.name].nth + 1 ELSE 1
           constructed ==
             [i \in DOMAIN Step.sets |->
                [cell |-> <<Step.name, nth, Step.sets[i].method, Step.sets[i].token.id>>,
                 value |-> getAddress(Resolved(Step.sets[i].value))]]
<1>1. /\ DOMAIN deployed' = DOMAIN deployed \cup {Step.name}
      /\ deployed'[Step.name].nth = nth
      /\ \A name \in DOMAIN deployed : name # Step.name => deployed'[name] = deployed[name]
      /\ chain' = After(chain, constructed)
      /\ executed' = executed
  BY DEF DeployContract
<1>2. script.at \in DOMAIN Target /\ Step.do = "deploy"
  BY StartFacts DEF DeployContract, Examining, RunOK
<1>3. PICK n \in Nat : DOMAIN Step.sets = 1..n
  BY <1>2, StartFacts DEF IsProgram, Step
<1>4. \A i \in DOMAIN Step.sets :
        Step.sets[i].value \in Value /\ Step.sets[i].value.kind \notin {"zero", "undefined"}
  BY <1>2, StartFacts DEF IsProgram, IsSetting, Step
<1>5. /\ DOMAIN constructed = 1..n
      /\ \A i \in DOMAIN constructed :
           /\ constructed[i].cell[1] = Step.name /\ constructed[i].cell[2] = nth
           /\ IsHeld(constructed[i].value)
  BY <1>3, <1>4, HeldValue
<1>6. /\ nth \in Nat \ {0}
      /\ Step.name \in DOMAIN deployed =>
           deployed[Step.name].nth \in Nat /\ deployed[Step.name].nth < nth
  BY StartFacts DEF RecordsOK
<1> HIDE DEF nth, constructed
<1>7. RecordsOK(deployed) /\ RecordsOK(deployed')
  BY <1>1, <1>6, StartFacts DEF RecordsOK
<1>8. Grows(deployed, deployed')
  <2> SUFFICES ASSUME NEW name \in DOMAIN deployed
               PROVE  name \in DOMAIN deployed' /\ deployed[name].nth <= deployed'[name].nth
    BY DEF Grows
  <2>1. deployed[name].nth \in Nat
    BY <1>7 DEF RecordsOK
  <2> QED
    BY <1>1, <1>6, <2>1
<1>9. ChainOK(After(chain, constructed), deployed')
  <2>1. ChainOK(chain, deployed')
    BY <1>7, <1>8, StartFacts, RecordedStays DEF ChainOK
  <2>2. \A i \in DOMAIN constructed :
          IsRecorded(constructed[i].cell, deployed') /\ IsHeld(constructed[i].value)
    BY <1>1, <1>5, <1>6 DEF IsRecorded
  <2> QED
    BY <1>5, <2>1, <2>2, AfterKeeps
<1>10. SetBy(chain, deployed, After(chain, constructed), executed)
  <2> SUFFICES ASSUME NEW tx \in Transaction, IsRecorded(tx.cell, deployed),
                      InForce(tx, After(chain, constructed))
               PROVE  InForce(tx, chain)
    BY DEF SetBy
  <2>1. \A i \in DOMAIN constructed : constructed[i].cell # tx.cell
    <3>1. tx.cell[1] \in DOMAIN deployed /\ tx.cell[2] \in 1..deployed[tx.cell[1]].nth
      BY DEF IsRecorded
    <3> QED
      BY <1>5, <1>6, <3>1
  <2>2. tx.cell \in DOMAIN After(chain, constructed)
    BY DEF InForce
  <2>3. tx.cell \in DOMAIN chain /\ After(chain, constructed)[tx.cell] = chain[tx.cell]
    BY <1>5, <2>1, <2>2, AfterValue
  <2> QED
    BY <2>3 DEF InForce
<1> QED
  BY <1>1, <1>7, <1>8, <1>9, <1>10 DEF Moves, ChainOK

LEMMA DeployContractKeepsInv ==
  ASSUME DeploymentInv, DeployContract
  PROVE  DeploymentInv'
<1>1. script.at \in DOMAIN Target /\ Step.do = "deploy"
  BY StartFacts DEF DeployContract, Examining, RunOK
<1>2. script.at + 1 \in DOMAIN Target
  BY <1>1, StartFacts, GoesOn DEF Step
<1>3. CASE Recorded(Step)
  <2>1. /\ UNCHANGED <<deployed, chain, executed, file, queue, deployer, commit>>
        /\ script' = Reading(script.at + 1)
    BY <1>3 DEF DeployContract
  <2>2. FileOK' /\ QueueOK' /\ RunOK'
    BY <1>2, <2>1, StartFacts, Stands, FileStays, QueueStays, GoingOn
  <2> QED
    BY <2>1, <2>2, RunMoves, StartFacts DEF DeployContract, CommitOK, ExecutedOK
<1>4. CASE ~Recorded(Step)
  <2>1. Moves /\ ChainOK(chain, deployed)' /\ Step.name \in DOMAIN deployed'
    BY <1>4, DeployContractMoves
  <2>2. UNCHANGED <<deployer, commit, file, queue, kills, found, executed>>
    BY DEF DeployContract
  <2>3. FileOK' /\ QueueOK'
    BY <2>1, <2>2, StartFacts, FileStays, QueueStays
  <2>4. /\ script' \in Runs /\ script'.at = script.at + 1 /\ script'.doing = "read"
        /\ script'.newly = TRUE
    <3>1. script' = [Reading(script.at + 1) EXCEPT !.newly = TRUE]
      BY <1>4 DEF DeployContract
    <3>2. script.at + 1 \in Nat
      BY StartFacts
    <3> QED
      BY <3>1, <3>2 DEF Reading, RunAt, Runs
  <2>5. RunOK'
    <3>1. Target' = Target
      BY <2>2 DEF Target, The
    <3>2. script'.at - 1 = script.at
      BY <2>4, StartFacts
    <3> QED
      BY <1>1, <1>2, <2>1, <2>4, <3>1, <3>2 DEF RunOK, Step
  <2>6. CommitOK' /\ ExecutedOK' /\ RecordsOK(deployed)'
    BY <2>1, <2>2, StartFacts DEF CommitOK, ExecutedOK, The, Moves, RecordsOK
  <2> QED
    BY <2>1, <2>3, <2>5, <2>6 DEF DeploymentInv
<1> QED
  BY <1>3, <1>4

\* update() of the contract that the step before has deployed.
LEMMA UpdateNewKeepsInv ==
  ASSUME DeploymentInv, UpdateNew
  PROVE  DeploymentInv'
<1>1. script.at \in DOMAIN Target /\ Step.do = "update" /\ script.doing = "read"
  BY StartFacts DEF UpdateNew, Examining, RunOK
<1>2. script.at + 1 \in DOMAIN Target
  BY <1>1, StartFacts, GoesOn DEF Step
<1>3. UNCHANGED <<deployer, deployed, commit, file, queue, kills, found, executed>>
  BY DEF UpdateNew
<1>4. SetBy(chain, deployed, chain', executed) /\ ChainOK(chain', deployed)
  <2>1. CASE script.newly
    <3>1. /\ Step.method \notin Refusing
          /\ Step.value \in Value
          /\ Step.value.kind \notin {"zero", "undefined"}
          /\ Target[script.at - 1].name = Step.contract
      BY <1>1, StartFacts DEF IsProgram, IsSetting, Step
    <3>2. Step.contract \in DOMAIN deployed
      BY <1>1, <2>1, <3>1, StartFacts DEF RunOK
    <3>3. IsRecorded(Cell(Step), deployed) /\ Cell(Step)[3] \notin Refusing
      BY <3>1, <3>2, StartFacts DEF IsRecorded, Cell, RecordsOK
    <3>4. /\ Tx(Step).cell = Cell(Step)
          /\ Tx(Step).value = getAddress(Resolved(Step.value))
      BY DEF Tx
    <3>5. IsHeld(Tx(Step).value)
      BY <3>1, <3>4, HeldValue
    <3>6. chain' = Apply(chain, Tx(Step))
      BY <2>1 DEF UpdateNew
    <3> QED
      BY <3>3, <3>4, <3>5, <3>6, StartFacts, ApplyKeeps, ApplySets
  <2>2. CASE ~script.newly
    BY <2>2, StartFacts DEF UpdateNew, SetBy
  <2> QED
    BY <2>1, <2>2
<1>5. Moves
  BY <1>3, <1>4, StartFacts DEF Moves, Grows, RecordsOK
<1>6. FileOK' /\ QueueOK' /\ RunOK'
  BY <1>2, <1>3, <1>5, StartFacts, FileStays, QueueStays, GoingOn DEF UpdateNew, GoOn
<1>7. CommitOK' /\ ExecutedOK' /\ RecordsOK(deployed)' /\ ChainOK(chain, deployed)'
  BY <1>3, <1>4, StartFacts DEF CommitOK, ExecutedOK, RecordsOK, ChainOK, The
<1> QED
  BY <1>6, <1>7 DEF DeploymentInv

\* What the chain and the history become when transactions that are ready execute.
LEMMA OneExecutes ==
  ASSUME DeploymentInv, NEW tx \in Transaction, Ready(tx, deployed, chain, executed),
         deployed' = deployed, chain' = Apply(chain, tx), executed' = executed \cup {tx}
  PROVE  Moves /\ ChainOK(chain, deployed)' /\ executed' \subseteq Transaction
<1>1. ChainOK(Apply(chain, tx), deployed)
  BY StartFacts, ApplyKeeps DEF Ready
<1>2. SetBy(chain, deployed, Apply(chain, tx), executed \cup {tx})
  BY ApplySets
<1> QED
  BY <1>1, <1>2, StartFacts DEF Moves, Grows, RecordsOK, ChainOK, ExecutedOK

LEMMA AllExecute ==
  ASSUME DeploymentInv, NEW batch \in Seq(Transaction),
         BatchOK(batch, deployed, chain, executed),
         deployed' = deployed, chain' = After(chain, batch),
         executed' = executed \cup ToSet(batch)
  PROVE  Moves /\ ChainOK(chain, deployed)' /\ executed' \subseteq Transaction
<1>1. Len(batch) \in Nat /\ DOMAIN batch = 1..Len(batch)
  OBVIOUS
<1>2. \A i \in DOMAIN batch : IsRecorded(batch[i].cell, deployed) /\ IsHeld(batch[i].value)
  BY DEF BatchOK, Ready
<1>3. ChainOK(After(chain, batch), deployed)
  BY <1>1, <1>2, StartFacts, AfterKeeps
<1>4. SetBy(chain, deployed, After(chain, batch), executed \cup ToSet(batch))
  BY AfterSets
<1>5. ToSet(batch) \subseteq Transaction
  BY DEF ToSet
<1> QED
  BY <1>3, <1>4, <1>5, StartFacts DEF Moves, Grows, RecordsOK, ChainOK, ExecutedOK

LEMMA SavingFacts ==
  ASSUME DeploymentInv, script.doing = "save"
  PROVE  /\ script.at \in DOMAIN Target
         /\ script.at + 1 \in DOMAIN Target
         /\ Tx(Step) \in Transaction
         /\ Ready(Tx(Step), deployed, chain, executed)
<1>1. script.at \in DOMAIN Target /\ Step.do = "set"
  BY StartFacts DEF RunOK
<1>2. script.at + 1 \in DOMAIN Target
  BY <1>1, StartFacts, GoesOn DEF Step
<1> QED
  BY <1>1, <1>2, StartFacts DEF RunOK

LEMMA ExecuteKeepsInv ==
  ASSUME DeploymentInv, Execute
  PROVE  DeploymentInv'
<1>1. UNCHANGED <<deployer, deployed, commit, file, queue, kills, found>>
  BY DEF Execute
<1>2. Moves /\ ChainOK(chain, deployed)' /\ executed' \subseteq Transaction
  BY <1>1, SavingFacts, OneExecutes DEF Execute
<1>3. FileOK' /\ QueueOK' /\ RunOK'
  BY <1>1, <1>2, StartFacts, SavingFacts, FileStays, QueueStays, GoingOn DEF Execute, GoOn
<1>4. CommitOK' /\ ExecutedOK' /\ RecordsOK(deployed)'
  BY <1>1, <1>2, StartFacts DEF CommitOK, ExecutedOK, RecordsOK, The
<1> QED
  BY <1>2, <1>3, <1>4 DEF DeploymentInv

\* The file keeps each transaction once.
LEMMA SavedIsABatch ==
  ASSUME FileOK, NEW tx \in Transaction, Ready(tx, deployed, chain, executed)
  PROVE  /\ Saved(tx) \in Seq(Transaction)
         /\ BatchOK(Saved(tx), deployed, chain, executed)
<1>1. CASE file = NoFile
  <2> DEFINE one == <<tx>>
  <2>1. one \in Seq(Transaction) /\ DOMAIN one = {1} /\ one[1] = tx
    OBVIOUS
  <2>2. Saved(tx) = one
    BY <1>1 DEF Saved
  <2> HIDE DEF one
  <2> QED
    BY <2>1, <2>2 DEF BatchOK, IsInjective
<1>2. CASE file # NoFile /\ tx \in ToSet(file)
  BY <1>2 DEF Saved, FileOK
<1>3. CASE file # NoFile /\ tx \notin ToSet(file)
  <2>1. file \in Seq(Transaction) /\ BatchOK(file, deployed, chain, executed)
    BY <1>3 DEF FileOK
  <2> DEFINE longer == Append(file, tx)
  <2>2. /\ longer \in Seq(Transaction)
        /\ DOMAIN longer = DOMAIN file \cup {Len(file) + 1}
        /\ Len(file) + 1 \notin DOMAIN file
        /\ longer[Len(file) + 1] = tx
        /\ \A i \in DOMAIN file : longer[i] = file[i]
    BY <2>1
  <2>3. Saved(tx) = longer
    BY <1>3 DEF Saved
  <2> HIDE DEF longer
  <2>4. \A i \in DOMAIN file : file[i] # tx
    BY <1>3 DEF ToSet
  <2>5. IsInjective(longer)
    BY <2>1, <2>2, <2>4 DEF BatchOK, IsInjective
  <2>6. \A i \in DOMAIN longer : Ready(longer[i], deployed, chain, executed)
    BY <2>1, <2>2 DEF BatchOK
  <2> QED
    BY <2>2, <2>3, <2>5, <2>6 DEF BatchOK
<1> QED
  BY <1>1, <1>2, <1>3

LEMMA SaveKeepsInv ==
  ASSUME DeploymentInv, Save
  PROVE  DeploymentInv'
<1>1. /\ UNCHANGED <<deployer, deployed, chain, commit, queue, kills, executed>>
      /\ file' = Saved(Tx(Step)) /\ found' = TRUE /\ GoOn
  BY DEF Save
<1>2. Moves
  BY <1>1, StartFacts, Stands
<1>3. QueueOK' /\ RunOK'
  BY <1>1, <1>2, StartFacts, SavingFacts, QueueStays, GoingOn DEF Save, GoOn
<1>4. FileOK'
  <2>1. /\ Saved(Tx(Step)) \in Seq(Transaction)
        /\ BatchOK(Saved(Tx(Step)), deployed, chain, executed)
    BY StartFacts, SavingFacts, SavedIsABatch DEF Save
  <2> QED
    BY <1>1, <2>1 DEF FileOK
<1> QED
  BY <1>1, <1>3, <1>4, RunMoves, StartFacts DEF CommitOK

\* A proposal is a batch, and not an empty one.
LEMMA ProposedIsABatch ==
  ASSUME QueueOK, NEW batch \in Seq(Transaction), batch # <<>>,
         BatchOK(batch, deployed, chain, executed), Proposed(batch),
         UNCHANGED <<deployed, chain, executed>>
  PROVE  QueueOK'
<1>1. queue \in Seq(Seq(Transaction)) /\ queue' = Append(queue, batch)
  BY DEF QueueOK, Proposed
<1>2. queue' \in Seq(Seq(Transaction))
  BY <1>1
<1>3. ASSUME NEW i \in DOMAIN queue'
      PROVE  queue'[i] # <<>> /\ BatchOK(queue'[i], deployed, chain, executed)
  <2>1. (i \in DOMAIN queue /\ queue'[i] = queue[i]) \/ queue'[i] = batch
    BY <1>1
  <2> QED
    BY <2>1 DEF QueueOK
<1> QED
  BY <1>2, <1>3 DEF QueueOK

LEMMA ProposeAtOnceKeepsInv ==
  ASSUME DeploymentInv, ProposeAtOnce
  PROVE  DeploymentInv'
<1>1. /\ UNCHANGED <<deployer, deployed, chain, commit, file, kills, executed>>
      /\ Proposed(<<Tx(Step)>>) /\ found' = TRUE /\ script' = Idle
  BY DEF ProposeAtOnce
<1>2. Moves /\ FileOK' /\ RunOK'
  BY <1>1, StartFacts, Stands, FileStays, IdleIsOK
<1>3. QueueOK'
  <2> DEFINE batch == <<Tx(Step)>>
  <2>1. Tx(Step) \in Transaction /\ Ready(Tx(Step), deployed, chain, executed)
    BY SavingFacts DEF ProposeAtOnce
  <2>2. /\ batch \in Seq(Transaction) /\ batch # <<>>
        /\ DOMAIN batch = {1} /\ batch[1] = Tx(Step)
    BY <2>1
  <2>3. Proposed(batch)
    BY <1>1
  <2> HIDE DEF batch
  <2>4. BatchOK(batch, deployed, chain, executed)
    BY <2>1, <2>2 DEF BatchOK, IsInjective
  <2> QED
    BY <1>1, <2>2, <2>3, <2>4, StartFacts, ProposedIsABatch
<1> QED
  BY <1>1, <1>2, <1>3, RunMoves, StartFacts DEF CommitOK

LEMMA ProposeKeepsInv ==
  ASSUME DeploymentInv, Propose
  PROVE  DeploymentInv'
<1>1. UNCHANGED <<deployer, deployed, chain, commit, file, kills, found, executed>>
  BY DEF Propose
<1>2. Moves /\ FileOK'
  BY <1>1, StartFacts, Stands, FileStays
<1>3. CASE script' = Idle /\ UNCHANGED queue
  BY <1>1, <1>2, <1>3, StartFacts, QueueStays, IdleIsOK, RunMoves DEF CommitOK, ExecutedOK
<1>4. CASE file # NoFile /\ script' = Sending(1) /\ UNCHANGED queue
  <2>1. script' \in Runs /\ script'.doing = "send" /\ script'.at = 1
    BY <1>4 DEF Sending, RunAt, Runs
  <2>2. RunOK'
    BY <1>1, <1>4, <2>1 DEF RunOK
  <2> QED
    BY <1>1, <1>2, <1>4, <2>2, StartFacts, QueueStays, RunMoves DEF CommitOK, ExecutedOK
<1>5. CASE file # NoFile /\ script' = Idle /\ Proposed(file)
  <2>1. file \in Seq(Transaction) /\ BatchOK(file, deployed, chain, executed)
    BY <1>5, StartFacts DEF FileOK
  <2>2. QueueOK'
    BY <1>1, <1>5, <2>1, StartFacts, ProposedIsABatch DEF Propose
  <2> QED
    BY <1>1, <1>2, <1>5, <2>2, StartFacts, IdleIsOK, RunMoves DEF CommitOK, ExecutedOK
<1> QED
  BY <1>3, <1>4, <1>5 DEF Propose

LEMMA SendKeepsInv ==
  ASSUME DeploymentInv, Send
  PROVE  DeploymentInv'
<1>1. /\ UNCHANGED <<deployer, deployed, commit, queue, kills, found>>
      /\ script.doing = "send"
  BY DEF Send
<1>2. /\ file # NoFile /\ script.at \in Nat \ {0}
      /\ file \in Seq(Transaction) /\ BatchOK(file, deployed, chain, executed)
  BY <1>1, StartFacts DEF RunOK, FileOK
<1>3. CASE script.at > Len(file)
  <2>1. UNCHANGED <<chain, executed>> /\ file' = NoFile /\ script' = Idle
    BY <1>3 DEF Send
  <2>2. FileOK'
    BY <2>1 DEF FileOK
  <2> QED
    BY <1>1, <2>1, <2>2, StartFacts, Stands, QueueStays, IdleIsOK, RunMoves
    DEF CommitOK, ExecutedOK
<1>4. CASE ~(script.at > Len(file))
  <2> DEFINE tx == file[script.at]
  <2>1. script.at \in DOMAIN file
    BY <1>2, <1>4
  <2>2. tx \in Transaction /\ Ready(tx, deployed, chain, executed)
    BY <1>2, <2>1 DEF BatchOK
  <2>3. /\ chain' = Apply(chain, tx) /\ executed' = executed \cup {tx}
        /\ script' = Sending(script.at + 1) /\ UNCHANGED file
    BY <1>4 DEF Send
  <2> HIDE DEF tx
  <2>4. Moves /\ ChainOK(chain, deployed)' /\ executed' \subseteq Transaction
    BY <1>1, <2>2, <2>3, OneExecutes
  <2>5. FileOK' /\ QueueOK'
    BY <1>1, <2>3, <2>4, StartFacts, FileStays, QueueStays
  <2>6. /\ script' \in Runs /\ script'.doing = "send" /\ script'.at # 0 /\ file' # NoFile
    BY <1>2, <2>3 DEF Sending, RunAt, Runs
  <2>7. RunOK'
    BY <2>6 DEF RunOK
  <2>8. CommitOK' /\ ExecutedOK' /\ RecordsOK(deployed)'
    BY <1>1, <2>4, StartFacts DEF CommitOK, ExecutedOK, RecordsOK, The
  <2> QED
    BY <2>4, <2>5, <2>7, <2>8 DEF DeploymentInv
<1> QED
  BY <1>3, <1>4

LEMMA KillKeepsInv ==
  ASSUME DeploymentInv, Kill
  PROVE  DeploymentInv'
<1>1. /\ UNCHANGED <<deployer, deployed, chain, commit, queue, found, executed>>
      /\ script' = Idle
      /\ UNCHANGED kills \/ (kills < The.kills /\ kills' = kills + 1)
      /\ file' = file \/ file' = <<>>
  BY DEF Kill
<1>2. Moves /\ QueueOK' /\ RunOK'
  BY <1>1, StartFacts, Stands, QueueStays, IdleIsOK
<1>3. FileOK'
  <2>1. CASE file' = file
    BY <1>2, <2>1, StartFacts, FileStays
  <2>2. CASE file' = <<>>
    <3>1. file' \in Seq(Transaction) /\ DOMAIN file' = {}
      BY <2>2
    <3> QED
      BY <3>1 DEF FileOK, BatchOK, IsInjective
  <2> QED
    BY <1>1, <2>1, <2>2
<1>4. kills' \in 0..The.kills
  <2>1. kills \in 0..The.kills /\ The.kills \in Nat
    BY StartFacts, DeployersAssumption DEF CommitOK, The
  <2> QED
    BY <1>1, <2>1
<1> QED
  BY <1>1, <1>2, <1>3, <1>4, RunMoves, StartFacts DEF ExecutedOK

LEMMA HeadIsABatch ==
  ASSUME QueueOK, queue # <<>>
  PROVE  /\ Head(queue) \in Seq(Transaction)
         /\ BatchOK(Head(queue), deployed, chain, executed)
<1>1. queue \in Seq(Seq(Transaction))
  BY DEF QueueOK
<1>2. 1 \in DOMAIN queue /\ Head(queue) = queue[1]
  BY <1>1
<1> QED
  BY <1>1, <1>2 DEF QueueOK

\* The queue without its head is as good in the next state as the queue is in this one.
LEMMA TailStays ==
  ASSUME Moves, QueueOK, queue # <<>>, queue' = Tail(queue)
  PROVE  QueueOK'
<1>1. queue \in Seq(Seq(Transaction))
  BY DEF QueueOK
<1>2. queue' \in Seq(Seq(Transaction))
  BY <1>1
<1>3. ASSUME NEW i \in DOMAIN queue'
      PROVE  queue'[i] # <<>> /\ BatchOK(queue'[i], deployed', chain', executed')
  <2>1. i + 1 \in DOMAIN queue /\ queue'[i] = queue[i + 1]
    BY <1>1
  <2>2. /\ queue'[i] # <<>>
        /\ queue'[i] \in Seq(Transaction)
        /\ BatchOK(queue'[i], deployed, chain, executed)
    BY <1>1, <2>1 DEF QueueOK
  <2> QED
    BY <2>2, BatchStays DEF Moves
<1> QED
  BY <1>2, <1>3 DEF QueueOK

LEMMA ConfirmKeepsInv ==
  ASSUME DeploymentInv, Confirm
  PROVE  DeploymentInv'
<1>1. /\ UNCHANGED <<deployer, deployed, commit, file, script, kills, found>>
      /\ queue # <<>> /\ queue' = Tail(queue)
      /\ chain' = After(chain, Head(queue))
      /\ executed' = executed \cup ToSet(Head(queue))
  BY DEF Confirm
<1>2. Moves /\ ChainOK(chain, deployed)' /\ executed' \subseteq Transaction
  BY <1>1, StartFacts, HeadIsABatch, AllExecute
<1>3. FileOK' /\ QueueOK' /\ RunOK'
  BY <1>1, <1>2, StartFacts, FileStays, TailStays, RunStays
<1>4. CommitOK' /\ ExecutedOK' /\ RecordsOK(deployed)'
  BY <1>1, <1>2, StartFacts DEF CommitOK, ExecutedOK, RecordsOK, The
<1> QED
  BY <1>2, <1>3, <1>4 DEF DeploymentInv

LEMMA RejectKeepsInv ==
  ASSUME DeploymentInv, Reject
  PROVE  DeploymentInv'
<1>1. /\ UNCHANGED <<deployer, deployed, chain, commit, file, script, kills, found, executed>>
      /\ queue # <<>> /\ queue' = Tail(queue)
  BY DEF Reject
<1>2. Moves
  BY <1>1, StartFacts, Stands
<1> QED
  BY <1>1, <1>2, StartFacts, FileStays, TailStays, RunStays, RunMoves DEF CommitOK, ExecutedOK

LEMMA NextKeepsInv ==
  ASSUME DeploymentInv, [Next]_vars
  PROVE  DeploymentInv'
<1>1. CASE RunSteps
  <2>1. CASE DeployContract BY <2>1, DeployContractKeepsInv
  <2>2. CASE UpdateNew BY <2>2, UpdateNewKeepsInv
  <2>3. CASE Require BY <2>3, RequireKeepsInv
  <2>4. CASE Read BY <2>4, ReadKeepsInv
  <2>5. CASE Execute BY <2>5, ExecuteKeepsInv
  <2>6. CASE Save BY <2>6, SaveKeepsInv
  <2>7. CASE ProposeAtOnce BY <2>7, ProposeAtOnceKeepsInv
  <2>8. CASE Propose BY <2>8, ProposeKeepsInv
  <2>9. CASE Send BY <2>9, SendKeepsInv
  <2> QED
    BY <1>1, <2>1, <2>2, <2>3, <2>4, <2>5, <2>6, <2>7, <2>8, <2>9 DEF RunSteps
<1>2. CASE CheckOut BY <1>2, CheckOutKeepsInv
<1>3. CASE Start BY <1>3, StartKeepsInv
<1>4. CASE Kill BY <1>4, KillKeepsInv
<1>5. CASE Confirm BY <1>5, ConfirmKeepsInv
<1>6. CASE Reject BY <1>6, RejectKeepsInv
<1>7. CASE UNCHANGED vars
  BY <1>7, StartFacts, Stands, FileStays, QueueStays, RunStays, RunMoves
  DEF vars, CommitOK, ExecutedOK
<1> QED
  BY <1>1, <1>2, <1>3, <1>4, <1>5, <1>6, <1>7 DEF Next

\* Records, chain, file and proposals stay as the scripts expect them, whatever is
\* killed, confirmed, rejected or checked out in between: the invariant holds in every
\* reachable state.
THEOREM DeploymentInvariance == Spec => []DeploymentInv
BY InitEstablishesInv, NextKeepsInv, PTL DEF Spec

-----------------------------------------------------------------------------
(***************************************************************************)
(* The properties.                                                           *)
(***************************************************************************)

LEMMA InvImpliesTypeOK == DeploymentInv => TypeOK
<1> SUFFICES ASSUME DeploymentInv PROVE TypeOK
  OBVIOUS
<1>1. \A name \in DOMAIN deployed : deployed[name].nth \in Nat \ {0}
  BY StartFacts DEF RecordsOK
<1>2. \A cell \in DOMAIN chain : IsRecorded(cell, deployed) /\ IsHeld(chain[cell])
  BY StartFacts DEF ChainOK
<1>3. ASSUME file # NoFile PROVE IsInjective(file) /\ \A tx \in ToSet(file) : IsTx(tx)
  <2>1. file \in Seq(Transaction) /\ IsInjective(file)
    BY <1>3, StartFacts DEF FileOK, BatchOK
  <2> QED
    BY <2>1, TransactionForm DEF ToSet
<1>4. ASSUME NEW i \in DOMAIN queue
      PROVE  queue[i] # <<>> /\ \A tx \in ToSet(queue[i]) : IsTx(tx)
  <2>1. queue[i] \in Seq(Transaction) /\ queue[i] # <<>>
    BY StartFacts DEF QueueOK
  <2> QED
    BY <2>1, TransactionForm DEF ToSet
<1>5. \A tx \in executed : IsTx(tx)
  BY StartFacts, TransactionForm DEF ExecutedOK
<1>6. /\ commit \in DOMAIN The.targets /\ kills \in 0..The.kills /\ found \in BOOLEAN
      /\ script.doing \in {"idle", "read", "save", "send"}
  BY StartFacts DEF CommitOK, ExecutedOK, RunOK, Runs
<1> QED
  BY <1>1, <1>2, <1>3, <1>4, <1>5, <1>6 DEF TypeOK

\* The records and the settings on the chain are of contracts that were deployed, with
\* values a contract can hold; a file never holds a transaction twice and a proposal is
\* never empty, for every script, commit and run that is killed.
THEOREM DeploymentTypeCorrect == Spec => []TypeOK
BY DeploymentInvariance, InvImpliesTypeOK, PTL

\* A setter that refuses inside a batch finds the value there from before the batch:
\* the batch itself sets a cell to one value only once.
LEMMA RefusedWasThereBefore ==
  ASSUME NEW batch \in Seq(Transaction), IsInjective(batch), NEW config,
         NEW i \in DOMAIN batch,
         InForce(batch[i], After(config, SubSeq(batch, 1, i - 1)))
  PROVE  InForce(batch[i], config)
<1> DEFINE before == SubSeq(batch, 1, i - 1)
           tx == batch[i]
<1>1. i \in 1..Len(batch) /\ tx \in Transaction
  OBVIOUS
<1>2. DOMAIN before = 1..(i - 1) /\ i - 1 \in Nat
  BY <1>1
<1>3. \A j \in DOMAIN before : before[j] = batch[j] /\ j \in DOMAIN batch /\ j # i
  BY <1>1, <1>2
<1>4. tx.cell \in DOMAIN After(config, before) /\ After(config, before)[tx.cell] = tx.value
  BY DEF InForce
<1> HIDE DEF before, tx
<1>5. CASE tx.cell \in DOMAIN config /\ After(config, before)[tx.cell] = config[tx.cell]
  BY <1>4, <1>5 DEF InForce, tx
<1>6. ASSUME NEW j \in DOMAIN before,
             before[j].cell = tx.cell, After(config, before)[tx.cell] = before[j].value
      PROVE  FALSE
  <2>1. /\ batch[j] \in Transaction /\ batch[j].cell = tx.cell
        /\ batch[j].value = tx.value
    BY <1>3, <1>4, <1>6
  <2>2. batch[j] = batch[i]
    BY <1>1, <2>1 DEF Transaction, tx
  <2> QED
    BY <1>3, <2>2 DEF IsInjective
<1> QED
  BY <1>2, <1>4, <1>5, <1>6, AfterValue

LEMMA OnlyWhatWasDoneReverts == DeploymentInv => OnlyReplaysRevert
<1> SUFFICES ASSUME DeploymentInv, queue # <<>>, ~Executes(Head(queue))
             PROVE  ToSet(Head(queue)) \cap executed # {}
  BY DEF OnlyReplaysRevert
<1> DEFINE batch == Head(queue)
<1>1. batch \in Seq(Transaction) /\ BatchOK(batch, deployed, chain, executed)
  BY StartFacts, HeadIsABatch
<1>2. ~Executes(batch)
  OBVIOUS
<1>3. SUFFICES ToSet(batch) \cap executed # {}
  OBVIOUS
<1> HIDE DEF batch
<1>4. PICK i \in DOMAIN batch :
        /\ batch[i].cell[3] \in Refusing
        /\ InForce(batch[i], After(chain, SubSeq(batch, 1, i - 1)))
  BY <1>2 DEF Executes, Accepts, InForce
<1>5. InForce(batch[i], chain)
  BY <1>1, <1>4, RefusedWasThereBefore DEF BatchOK
<1>6. batch[i] \in executed
  BY <1>1, <1>4, <1>5 DEF BatchOK, Ready
<1> QED
  BY <1>6 DEF ToSet

\* A batch never reverts because of what a run found to be missing: what a setter of it
\* refuses is what an executed transaction set, and the batch repeats that transaction.
THEOREM RevertsAreReplays == Spec => []OnlyReplaysRevert
BY DeploymentInvariance, OnlyWhatWasDoneReverts, PTL

LEMMA CellsStay ==
  ASSUME [Next]_vars
  PROVE  DOMAIN chain \subseteq DOMAIN chain'
<1>1. CASE UNCHANGED chain
  BY <1>1
<1>2. ASSUME NEW batch, chain' = After(chain, batch)
      PROVE  DOMAIN chain \subseteq DOMAIN chain'
  BY <1>2, AfterDomain
<1>3. \/ UNCHANGED chain
      \/ \E batch : chain' = After(chain, batch)
  BY DEF Next, vars, CheckOut, Start, RunSteps, DeployContract, UpdateNew, Require, Read,
         Execute, Save, ProposeAtOnce, Propose, Send, Kill, Confirm, Reject, Apply
<1> QED
  BY <1>1, <1>2, <1>3

\* skipIfAlreadyDeployed.
LEMMA MasterStays ==
  ASSUME DeploymentInv, [Next]_vars, The.network \in KeepsRoutes,
         "MasterOracle" \in DOMAIN deployed
  PROVE  deployed'["MasterOracle"] = deployed["MasterOracle"]
<1>1. CASE UNCHANGED deployed
  BY <1>1
<1>2. CASE DeployContract /\ ~Recorded(Step)
  <2>1. script.at \in DOMAIN Target /\ Step.do = "deploy"
    BY <1>2, StartFacts DEF DeployContract, Examining, RunOK
  <2>2. Step.name # "MasterOracle"
    BY <1>2, <2>1, StartFacts, KeptAssumption DEF Recorded, CommitOK, The, Target, Step
  <2> QED
    BY <1>2, <2>2 DEF DeployContract
<1> QED
  BY <1>1, <1>2 DEF Next, vars, CheckOut, Start, RunSteps, DeployContract, UpdateNew, Require,
     Read, Execute, Save, ProposeAtOnce, Propose, Send, Kill, Confirm, Reject

LEMMA StepsKeepRoutes ==
  ASSUME DeploymentInv, [Next]_vars
  PROVE  The.network \in KeepsRoutes => Routed \subseteq Routed'
<1> SUFFICES ASSUME The.network \in KeepsRoutes, NEW cell \in DOMAIN chain,
                    cell[1] = "MasterOracle", cell[2] = deployed["MasterOracle"].nth,
                    cell[3] = "oracles"
             PROVE  cell[4] \in Routed'
  BY DEF Routed
<1>1. "MasterOracle" \in DOMAIN deployed
  BY StartFacts DEF ChainOK, IsRecorded
<1>2. deployed'["MasterOracle"] = deployed["MasterOracle"]
  BY <1>1, MasterStays
<1>3. cell \in DOMAIN chain'
  BY CellsStay
<1> QED
  BY <1>2, <1>3 DEF Routed

\* Where the recorded MasterOracle is kept, no step of a run, of the deployer or of the
\* Safe takes a token's route away from it.
THEOREM NoRouteIsLost == Spec => RoutesStay
BY DeploymentInvariance, StepsKeepRoutes, PTL DEF Spec, RoutesStay

-----------------------------------------------------------------------------
(***************************************************************************)
(* The second inductive invariant: why no run fails, and why no route lacks  *)
(* its feed.  A run relies on what the steps before the one it examines have *)
(* left; what a killed run left in the file, on what the next run comes to   *)
(* again.                                                                    *)
(***************************************************************************)

Active == script.doing \in {"read", "save"}
OneByOne == The.local \/ The.signer

\* The contracts of the steps before i are recorded as they are in the program.
Settled(i) ==
  \A j \in DOMAIN Target : j < i /\ Target[j].do = "deploy" => Recorded(Target[j])

Compared(s) ==
  /\ s \in DOMAIN Target /\ Target[s].do = "set"
  /\ ~Absent(Target[s]) /\ ~LacksAddress(Target[s])
  /\ Settled(s)

Nested(s) ==
  \E j \in DOMAIN Target : j + 1 = s /\ Target[j].do = "set" /\ Target[j].nested = 1

\* Some setting of the deployer's programs is made by such a transaction.
Made(tx, ways) ==
  \E t \in DOMAIN The.targets : \E s \in ToSet(The.targets[t]) :
    s.do = "set" /\ s.by \in ways /\ s.contract = tx.cell[1] /\ s.method = tx.cell[3]

LookUpsOK ==
  /\ DOMAIN The.deployed \subseteq DOMAIN deployed
  /\ Active => Settled(script.at)
  /\ script.doing = "save" => Compared(script.at)

WaysOK ==
  /\ file # NoFile => \A i \in DOMAIN file : Made(file[i], {"batch"})
  /\ \A k \in DOMAIN queue : \A i \in DOMAIN queue[k] : Made(queue[k][i], {"batch", "atOnce"})

\* Where each setting is executed on its own nothing is proposed; and where a
\* confirmation is waited for nothing is executed while a run is under way.
QuietOK ==
  /\ OneByOne => queue = <<>>
  /\ The.maxQueue <= 1 /\ script.doing # "idle" => queue = <<>>
  /\ The.signer => file = NoFile
  /\ script.doing = "send" => The.local

\* Until the file has something, the Safe was only proposed what is proposed at once.
Unsaved == ~OneByOne /\ ~The.removesFile /\ file \in {NoFile, <<>>}

UnsavedOK ==
  Unsaved => \A k \in DOMAIN queue : \A i \in DOMAIN queue[k] : Made(queue[k][i], {"atOnce"})

\* A setting found to differ still differs when it is executed or first saved.
DiffersOK ==
  script.doing = "save" /\ (OneByOne \/ Step.by = "deployer" \/ (Unsaved /\ Step.by = "batch"))
  => ~InPlace(Step)

\* The setters accept what a local network is still to be sent.
UnsentOK ==
  The.local /\ file # NoFile /\ script.doing # "idle" =>
    \A i \in DOMAIN file :
      (script.doing = "send" => i >= script.at) /\ file[i].cell[3] \in Refusing
      => ~InForce(file[i], chain)

\* A run gets below a setting by saving it.
NestedOK == Active /\ Nested(script.at) => ~Unsaved

\* The first step whose setting an empty file lacks.
LeftAt(s) ==
  /\ s \in DOMAIN Target
  /\ Compared(s) /\ Target[s].by = "batch" /\ ~InPlace(Target[s]) /\ ~Nested(s)
  /\ Active => script.at <= s

\* A file that a killed run left empty is written by the next run.
EmptyFileOK ==
  /\ The.local /\ ~The.removesFile /\ script.doing = "idle" => file = NoFile
  /\ script.doing # "idle" /\ (The.removesFile \/ OneByOne) => file # <<>>
  /\ Unsaved /\ file = <<>> => \E s \in DOMAIN Target : LeftAt(s)

\* What was proposed at once is in place in the rest of the run, where its confirmation
\* is waited for.
Waits == OneByOne \/ The.maxQueue <= 1

AtOnceOK ==
  Active /\ Waits =>
    \A j \in DOMAIN Target :
      j < script.at /\ Target[j].do = "set" /\ Target[j].by = "atOnce" =>
        ~LacksAddress(Target[j]) /\ InPlace(Target[j])

LookUpInv ==
  /\ LookUpsOK /\ WaysOK /\ QuietOK /\ UnsavedOK /\ DiffersOK
  /\ UnsentOK /\ NestedOK /\ EmptyFileOK /\ AtOnceOK

\* A route has its feed among the cells, if it needs one.
CellsOf(batch) == {batch[i].cell : i \in DOMAIN batch}

Fed(tx, cells) ==
  tx.cell[3] = "oracles" /\ tx.value.id \in DOMAIN NeedsFeed
  => <<tx.value.id, tx.value.nth, NeedsFeed[tx.value.id], tx.cell[4]>> \in cells

\* The route that step s saves.
Routes(s, tx) == Compared(s) /\ Target[s].method = "oracles" /\ tx = Tx(Target[s])

\* A route whose feed the run, or the next, is to come to.
Pending(s, tx) == Routes(s, tx) /\ (Active => script.at <= s + 1)

Setting(cell) == [cell |-> cell, value |-> chain[cell]]

\* On the chain a feed is only missing while it is next to be executed.
ChainFed ==
  \A cell \in DOMAIN chain :
    \/ Fed(Setting(cell), DOMAIN chain)
    \/ The.signer /\ Active /\ \E s \in DOMAIN Target :
         Routes(s, Setting(cell)) /\ script.at = s + 1
    \/ script.doing = "send" /\ Fed(Setting(cell), CellsOf(file))

QueueFed ==
  \A k \in DOMAIN queue : \A i \in DOMAIN queue[k] :
    Fed(queue[k][i], DOMAIN chain \cup CellsOf(queue[k]))

\* In the file a feed is only missing while the run, or the next, is to come to it.
FileFed ==
  file # NoFile /\ (script.doing # "idle" \/ ~The.removesFile) =>
    \A i \in DOMAIN file :
      \/ Fed(file[i], DOMAIN chain \cup CellsOf(file))
      \/ script.doing # "send" /\ \E s \in DOMAIN Target : Pending(s, file[i])

SentOK ==
  script.doing = "send" =>
    \A i \in DOMAIN file : i < script.at => file[i].cell \in DOMAIN chain

AllFed == ChainFed /\ QueueFed /\ FileFed /\ SentOK

FedInv == ~OneByOne \/ kills = 0 => AllFed

-----------------------------------------------------------------------------
(***************************************************************************)
(* What the assumptions say of the program of a run.                         *)
(***************************************************************************)

LEMMA ProgramFacts ==
  ASSUME CommitOK
  PROVE  /\ IsProgram(Target) /\ IsOrdered(Target, DOMAIN The.deployed)
         /\ IsArranged(Target) /\ HasFeeds(Target)
BY DeployersAssumption, ProgramsAssumption DEF CommitOK, The, Target

LEMMA ActiveFacts ==
  ASSUME DeploymentInv, Active
  PROVE  /\ script.at \in DOMAIN Target /\ script.at \in Nat \ {0}
         /\ Step = Target[script.at]
         /\ IsProgram(Target) /\ IsOrdered(Target, DOMAIN The.deployed)
         /\ IsArranged(Target) /\ HasFeeds(Target)
BY ProgramFacts, StartFacts DEF Active, RunOK, IsProgram, Step

LEMMA PlaceFacts ==
  ASSUME DeploymentInv
  PROVE  \A i \in DOMAIN Target : i \in Nat \ {0}
BY ProgramFacts, StartFacts DEF IsProgram

LEMMA SameDeployer ==
  ASSUME [Next]_vars
  PROVE  deployer' = deployer /\ The' = The /\ OneByOne' = OneByOne
<1>1. deployer' = deployer
  BY DEF Next, vars, CheckOut, Start, RunSteps, DeployContract, UpdateNew, Require, Read,
     Execute, Save, ProposeAtOnce, Propose, Send, Kill, Confirm, Reject
<1> QED
  BY <1>1 DEF The, OneByOne

LEMMA SameProgram ==
  ASSUME [Next]_vars, ~CheckOut
  PROVE  commit' = commit /\ Target' = Target
<1>1. commit' = commit
  BY DEF Next, vars, Start, RunSteps, DeployContract, UpdateNew, Require, Read,
     Execute, Save, ProposeAtOnce, Propose, Send, Kill, Confirm, Reject
<1> QED
  BY <1>1, SameDeployer DEF Target, The

\* Where the file is kept there is one commit.
LEMMA KeptFileSameProgram ==
  ASSUME DeploymentInv, [Next]_vars, ~The.removesFile
  PROVE  ~CheckOut
<1>1. Len(The.targets) = 1 /\ commit \in DOMAIN The.targets /\ DOMAIN The.targets = 1..1
  BY StartFacts, ProcedureAssumption, DeployersAssumption DEF CommitOK, The
<1> QED
  BY <1>1 DEF CheckOut

-----------------------------------------------------------------------------
(***************************************************************************)
(* The records, as a run goes on.                                            *)
(***************************************************************************)

LEMMA GivenIsRecorded ==
  ASSUME DOMAIN The.deployed \subseteq DOMAIN deployed, NEW i, Settled(i),
         NEW name \in Given(Target, DOMAIN The.deployed, i)
  PROVE  name \in DOMAIN deployed
<1>1. CASE name \in DOMAIN The.deployed
  BY <1>1
<1>2. ASSUME NEW j \in DOMAIN Target, j < i, Target[j].do = "deploy", Target[j].name = name
      PROVE  name \in DOMAIN deployed
  BY <1>2 DEF Settled, Recorded
<1> QED
  BY <1>1, <1>2 DEF Given, Names

LEMMA RecordsOnlyGrow ==
  ASSUME [Next]_vars
  PROVE  DOMAIN deployed \subseteq DOMAIN deployed'
<1>1. CASE DeployContract
  BY <1>1 DEF DeployContract
<1> QED
  BY <1>1 DEF Next, vars, CheckOut, Start, RunSteps, UpdateNew, Require, Read,
     Execute, Save, ProposeAtOnce, Propose, Send, Kill, Confirm, Reject

\* A step that deploys anew changes the record of a name that no step before it has
\* deployed or looked up.
Redeploys == DeployContract /\ ~Recorded(Step)

LEMMA RecordsStand ==
  ASSUME [Next]_vars, ~Redeploys
  PROVE  deployed' = deployed
BY DEF Redeploys, Next, vars, CheckOut, Start, RunSteps, DeployContract, UpdateNew, Require,
   Read, Execute, Save, ProposeAtOnce, Propose, Send, Kill, Confirm, Reject

LEMMA RedeployFacts ==
  ASSUME DeploymentInv, Redeploys
  PROVE  /\ Active /\ Step.do = "deploy"
         /\ DOMAIN deployed' = DOMAIN deployed \cup {Step.name}
         /\ deployed'[Step.name].artifact = Artifact(Step)
         /\ \A name \in DOMAIN deployed : name # Step.name => deployed'[name] = deployed[name]
         /\ UNCHANGED <<deployer, commit, file, queue, kills, executed>>
         /\ script' = [Reading(script.at + 1) EXCEPT !.newly = TRUE]
         /\ Target' = Target
<1>1. UNCHANGED <<deployer, commit>>
  BY DEF Redeploys, DeployContract
<1> QED
  BY <1>1 DEF Redeploys, DeployContract, Active, Examining, Target, The

\* What step i is given stays as it is when a later step, or the step itself, deploys.
LEMMA GivenStays ==
  ASSUME DeploymentInv, Redeploys, NEW i \in DOMAIN Target, i <= script.at,
         NEW name, name \notin Names(Target, {j \in DOMAIN Target : j >= i}),
         name \in DOMAIN deployed
  PROVE  name # Step.name /\ deployed'[name] = deployed[name]
<1>1. script.at \in DOMAIN Target /\ Step = Target[script.at] /\ Step.do = "deploy"
  BY RedeployFacts, ActiveFacts
<1>2. Step.name \in Names(Target, {j \in DOMAIN Target : j >= i})
  <2>1. script.at >= i /\ i \in Nat /\ script.at \in Nat
    BY <1>1, PlaceFacts
  <2> QED
    BY <1>1, <2>1 DEF Names
<1> QED
  BY <1>2, RedeployFacts

LEMMA SettledPlace ==
  ASSUME DeploymentInv, Redeploys, NEW i \in Nat, Settled(i)
  PROVE  i <= script.at
BY ActiveFacts, RedeployFacts DEF Settled, Redeploys

LEMMA ArtifactStays ==
  ASSUME DeploymentInv, Redeploys, DOMAIN The.deployed \subseteq DOMAIN deployed,
         NEW j \in DOMAIN Target, Target[j].do = "deploy", Settled(j), j <= script.at
  PROVE  Artifact(Target[j])' = Artifact(Target[j])
<1> DEFINE step == Target[j]
           given == Given(Target, DOMAIN The.deployed, j)
<1>1. \A value \in ToSet(step.args) : AtHand(value, given)
  BY ProgramFacts, StartFacts DEF IsOrdered
<1>2. \A name \in given : name \in DOMAIN deployed /\ deployed'[name] = deployed[name]
  BY GivenIsRecorded, GivenStays DEF Given
<1>3. Target' = Target
  BY RedeployFacts
<1>4. \A k \in DOMAIN step.args :
        (IF step.args[k].kind = "deployment"
         THEN [step.args[k] EXCEPT !.nth = deployed'[step.args[k].id].nth] ELSE step.args[k])
        = (IF step.args[k].kind = "deployment"
           THEN [step.args[k] EXCEPT !.nth = deployed[step.args[k].id].nth] ELSE step.args[k])
  BY <1>1, <1>2 DEF AtHand, ToSet
<1> QED
  BY <1>3, <1>4 DEF Artifact, Resolved

LEMMA SettledStays ==
  ASSUME DeploymentInv, [Next]_vars, ~CheckOut, LookUpsOK, NEW i \in Nat, Settled(i)
  PROVE  Settled(i)'
<1>1. CASE Redeploys
  <2> SUFFICES ASSUME NEW j \in DOMAIN Target, j < i, Target[j].do = "deploy"
               PROVE  Recorded(Target[j])'
    BY <1>1, RedeployFacts DEF Settled
  <2>1. i <= script.at /\ script.at \in DOMAIN Target /\ Step = Target[script.at]
        /\ Step.do = "deploy" /\ script.at \in Nat /\ j \in Nat
    BY <1>1, SettledPlace, RedeployFacts, ActiveFacts, PlaceFacts
  <2>2. Recorded(Target[j])
    BY DEF Settled
  <2>3. Settled(j)
    BY <2>1, PlaceFacts DEF Settled
  <2>4. Artifact(Target[j])' = Artifact(Target[j])
    BY <1>1, <2>1, <2>3, ArtifactStays DEF LookUpsOK
  <2>5. Target[j].name # Step.name
    <3>1. Step.name \notin Names(Target, {k \in DOMAIN Target : k < script.at})
      BY <2>1, ProgramFacts, StartFacts DEF IsOrdered
    <3>2. j < script.at
      BY <2>1
    <3> QED
      BY <3>1, <3>2 DEF Names
  <2>6. /\ Target[j].name \in DOMAIN deployed
        /\ deployed'[Target[j].name] = deployed[Target[j].name]
        /\ Target[j].name \in DOMAIN deployed' /\ Target' = Target
    BY <1>1, <2>2, <2>5, RedeployFacts DEF Recorded
  <2> QED
    BY <2>2, <2>4, <2>6 DEF Recorded
<1>2. CASE ~Redeploys
  <2>1. deployed' = deployed /\ Target' = Target
    BY <1>2, RecordsStand, SameProgram
  <2> QED
    BY <2>1 DEF Settled, Recorded, Artifact, Resolved
<1> QED
  BY <1>1, <1>2


\* What a compared setting names keeps its record, whatever is deployed later.
LEMMA ComparedRecords ==
  ASSUME DeploymentInv, [Next]_vars, ~CheckOut, LookUpsOK, NEW s, Compared(s)
  PROVE  /\ Target' = Target /\ Target[s].contract \in DOMAIN deployed
         /\ deployed'[Target[s].contract] = deployed[Target[s].contract]
         /\ Target[s].value.kind = "deployment" =>
              deployed'[Target[s].value.id] = deployed[Target[s].value.id]
<1>1. s \in DOMAIN Target /\ s \in Nat /\ Target[s].do = "set" /\ Settled(s)
      /\ ~LacksAddress(Target[s]) /\ Target' = Target
  BY PlaceFacts, SameProgram DEF Compared
<1>2. Target[s].contract \in DOMAIN deployed
  BY <1>1 DEF LacksAddress, Missing, DeploymentOf
<1>3. CASE ~Redeploys
  BY <1>1, <1>2, <1>3, RecordsStand
<1>4. CASE Redeploys
  <2>1. s <= script.at
    BY <1>1, <1>4, SettledPlace
  <2>2. \A name : name \in DOMAIN deployed
                  /\ name \notin Names(Target, {j \in DOMAIN Target : j >= s})
                  => deployed'[name] = deployed[name]
    BY <1>1, <1>4, <2>1, GivenStays
  <2>3. Target[s].contract \notin Names(Target, {j \in DOMAIN Target : j >= s})
    BY <1>1, ProgramFacts, StartFacts DEF IsOrdered, Given
  <2>4. ASSUME Target[s].value.kind = "deployment"
        PROVE  deployed'[Target[s].value.id] = deployed[Target[s].value.id]
    <3>1. Target[s].value.id \notin Names(Target, {j \in DOMAIN Target : j >= s})
      BY <1>1, <2>4, ProgramFacts, StartFacts DEF IsOrdered, Given, AtHand
    <3> QED
      BY <1>1, <2>2, <2>4, <3>1 DEF LacksAddress, Missing
  <2> QED
    BY <1>1, <1>2, <2>2, <2>3, <2>4
<1> QED
  BY <1>3, <1>4

LEMMA ComparedStays ==
  ASSUME DeploymentInv, [Next]_vars, ~CheckOut, LookUpsOK, NEW s, Compared(s)
  PROVE  Compared(s)' /\ Tx(Target[s])' = Tx(Target[s])
<1>1. s \in DOMAIN Target /\ s \in Nat /\ Target[s].do = "set" /\ Settled(s)
      /\ ~Absent(Target[s]) /\ ~LacksAddress(Target[s]) /\ Target' = Target
  BY PlaceFacts, SameProgram DEF Compared
<1>2. Settled(s)'
  BY <1>1, SettledStays
<1>3. ~Absent(Target[s])'
  BY <1>1, RecordsOnlyGrow DEF Absent
<1>4. ~LacksAddress(Target[s])'
  BY <1>1, RecordsOnlyGrow DEF LacksAddress, Missing, DeploymentOf
<1>5. Tx(Target[s])' = Tx(Target[s])
  BY ComparedRecords DEF Tx, Cell, Resolved
<1> QED
  BY <1>1, <1>2, <1>3, <1>4, <1>5 DEF Compared

-----------------------------------------------------------------------------
(***************************************************************************)
(* What the other transactions leave of a setting.                           *)
(***************************************************************************)

CellStays(cell, config, config1) ==
  /\ cell \in DOMAIN config1 <=> cell \in DOMAIN config
  /\ cell \in DOMAIN config => config1[cell] = config[cell]

LEMMA AfterElsewhere ==
  ASSUME NEW config, NEW batch, NEW n \in Nat, DOMAIN batch = 1..n,
         NEW cell, \A i \in DOMAIN batch : batch[i].cell # cell
  PROVE  CellStays(cell, config, After(config, batch))
<1>1. cell \in DOMAIN After(config, batch) <=> cell \in DOMAIN config
  <2>1. cell \notin {batch[i].cell : i \in DOMAIN batch}
    OBVIOUS
  <2> QED
    BY <2>1, AfterDomain
<1>2. ASSUME cell \in DOMAIN config PROVE After(config, batch)[cell] = config[cell]
  BY <1>1, <1>2, AfterValue
<1> QED
  BY <1>1, <1>2 DEF CellStays

LEMMA ApplyElsewhere ==
  ASSUME NEW config, NEW tx, NEW cell, tx.cell # cell
  PROVE  CellStays(cell, config, Apply(config, tx))
<1>1. DOMAIN <<tx>> = 1..1 /\ \A i \in DOMAIN <<tx>> : <<tx>>[i].cell # cell
  OBVIOUS
<1> QED
  BY <1>1, AfterElsewhere DEF Apply

LEMMA ApplyHere ==
  ASSUME NEW config, NEW tx
  PROVE  tx.cell \in DOMAIN Apply(config, tx) /\ Apply(config, tx)[tx.cell] = tx.value
<1> DEFINE batch == <<tx>>
           sets == {i \in DOMAIN batch : batch[i].cell = tx.cell}
<1>1. DOMAIN batch = {1} /\ batch[1] = tx /\ sets = {1}
  OBVIOUS
<1>2. tx.cell \in DOMAIN config \cup {batch[i].cell : i \in DOMAIN batch}
  BY <1>1
<1>3. Max(sets) = 1
  <2>1. sets # {} /\ sets \in SUBSET (1..1)
    BY <1>1
  <2>2. Max(sets) \in sets
    BY <2>1, LargestPlace
  <2> QED
    BY <1>1, <2>2
<1>4. After(config, batch)[tx.cell] =
        IF sets = {} THEN config[tx.cell] ELSE batch[Max(sets)].value
  BY <1>2 DEF After
<1>5. tx.cell \in DOMAIN After(config, batch)
  BY <1>2 DEF After
<1> QED
  BY <1>1, <1>3, <1>4, <1>5 DEF Apply

\* A contract deployed anew has cells of its own.
LEMMA RedeployElsewhere ==
  ASSUME DeploymentInv, Redeploys, NEW cell, cell[1] # Step.name \/ IsRecorded(cell, deployed)
  PROVE  CellStays(cell, chain, chain')
<1> DEFINE nth == IF Step.name \in DOMAIN deployed THEN deployed[Step.name].nth + 1 ELSE 1
           constructed ==
             [i \in DOMAIN Step.sets |->
                [cell |-> <<Step.name, nth, Step.sets[i].method, Step.sets[i].token.id>>,
                 value |-> getAddress(Resolved(Step.sets[i].value))]]
<1>1. chain' = After(chain, constructed)
  BY DEF Redeploys, DeployContract
<1>2. PICK n \in Nat : DOMAIN Step.sets = 1..n
  BY RedeployFacts, ActiveFacts DEF IsProgram
<1>3. DOMAIN constructed = 1..n
      /\ \A i \in DOMAIN constructed :
           constructed[i].cell[1] = Step.name /\ constructed[i].cell[2] = nth
  BY <1>2
<1>4. ASSUME IsRecorded(cell, deployed), cell[1] = Step.name
      PROVE  cell[2] # nth
  BY <1>4, StartFacts DEF IsRecorded, RecordsOK
<1> HIDE DEF nth, constructed
<1>5. \A i \in DOMAIN constructed : constructed[i].cell # cell
  BY <1>3, <1>4
<1> QED
  BY <1>1, <1>2, <1>3, <1>5, AfterElsewhere

\* Transactions that are made in different ways set different cells.
LEMMA WaysApart ==
  ASSUME CommitOK, NEW tx, NEW ways, Made(tx, ways),
         NEW s \in DOMAIN Target,
         \/ Target[s].do = "update"
         \/ Target[s].do = "set" /\ Target[s].by \notin ways
  PROVE  tx.cell # Cell(Target[s])
<1> SUFFICES ASSUME tx.cell = Cell(Target[s]) PROVE FALSE
  OBVIOUS
<1>1. tx.cell[1] = Target[s].contract /\ tx.cell[3] = Target[s].method
  BY DEF Cell
<1>2. PICK t \in DOMAIN The.targets : \E q \in ToSet(The.targets[t]) :
        q.do = "set" /\ q.by \in ways /\ q.contract = tx.cell[1] /\ q.method = tx.cell[3]
  BY DEF Made
<1>3. PICK q \in ToSet(The.targets[t]) :
        q.do = "set" /\ q.by \in ways /\ q.contract = tx.cell[1] /\ q.method = tx.cell[3]
  BY <1>2
<1>4. Target[s] \in ToSet(The.targets[commit]) /\ commit \in DOMAIN The.targets
  BY DEF ToSet, Target, CommitOK
<1>5. Target[s].do = "set" /\ Target[s].by = q.by
  BY <1>1, <1>3, <1>4, WaysAssumption DEF CommitOK, The
<1> QED
  BY <1>3, <1>5

\* What the actions that send transactions set; the others set nothing.
Writes(cell) ==
  \/ UpdateNew /\ script.newly /\ Cell(Step) = cell
  \/ Execute /\ Cell(Step) = cell
  \/ Send /\ script.at \in DOMAIN file /\ file[script.at].cell = cell
  \/ Confirm /\ \E i \in DOMAIN Head(queue) : Head(queue)[i].cell = cell

LEMMA UnwrittenStays ==
  ASSUME DeploymentInv, [Next]_vars, NEW cell, ~Writes(cell),
         Redeploys => cell[1] # Step.name \/ IsRecorded(cell, deployed)
  PROVE  CellStays(cell, chain, chain')
<1>1. CASE Redeploys
  BY <1>1, RedeployElsewhere
<1>2. CASE UNCHANGED chain
  BY <1>2 DEF CellStays
<1>3. CASE UpdateNew
  <2>1. CASE script.newly
    <3>1. chain' = Apply(chain, Tx(Step)) /\ Tx(Step).cell = Cell(Step)
      BY <1>3, <2>1 DEF UpdateNew, Tx
    <3> QED
      BY <1>3, <2>1, <3>1, ApplyElsewhere DEF Writes
  <2>2. CASE ~script.newly
    BY <1>3, <2>2 DEF UpdateNew, CellStays
  <2> QED
    BY <2>1, <2>2
<1>4. CASE Execute
  <2>1. chain' = Apply(chain, Tx(Step)) /\ Tx(Step).cell = Cell(Step)
    BY <1>4 DEF Execute, Tx
  <2> QED
    BY <1>4, <2>1, ApplyElsewhere DEF Writes
<1>5. CASE Send
  <2>1. CASE script.at > Len(file)
    BY <1>5, <2>1 DEF Send, CellStays
  <2>2. CASE ~(script.at > Len(file))
    <3>1. file \in Seq(Transaction) /\ script.at \in Nat \ {0}
      BY <1>5, StartFacts DEF Send, RunOK, FileOK
    <3>2. script.at \in DOMAIN file /\ chain' = Apply(chain, file[script.at])
      BY <1>5, <2>2, <3>1 DEF Send
    <3> QED
      BY <1>5, <3>2, ApplyElsewhere DEF Writes
  <2> QED
    BY <2>1, <2>2
<1>6. CASE Confirm
  <2>1. Head(queue) \in Seq(Transaction) /\ chain' = After(chain, Head(queue))
    BY <1>6, StartFacts, HeadIsABatch DEF Confirm
  <2>2. PICK n \in Nat : DOMAIN Head(queue) = 1..n
    BY <2>1
  <2>3. \A i \in DOMAIN Head(queue) : Head(queue)[i].cell # cell
    BY <1>6 DEF Writes
  <2> QED
    BY <2>1, <2>2, <2>3, AfterElsewhere
<1> QED
  BY <1>1, <1>2, <1>3, <1>4, <1>5, <1>6
  DEF Redeploys, Next, vars, CheckOut, Start, RunSteps, DeployContract, Require, Read, Save,
      ProposeAtOnce, Propose, Kill, Reject

LEMMA InPlaceStays ==
  ASSUME DeploymentInv, [Next]_vars, ~CheckOut, LookUpsOK, NEW s, Compared(s),
         ~Writes(Cell(Target[s]))
  PROVE  InPlace(Target[s])' <=> InPlace(Target[s])
<1> DEFINE step == Target[s]
<1>1. /\ s \in DOMAIN Target /\ step.do = "set" /\ Target' = Target
      /\ step.contract \in DOMAIN deployed
      /\ deployed'[step.contract] = deployed[step.contract]
      /\ step.value.kind = "deployment" => deployed'[step.value.id] = deployed[step.value.id]
  BY ComparedRecords DEF Compared
<1>2. Cell(step)' = Cell(step) /\ Cell(step)[1] = step.contract
  BY <1>1 DEF Cell
<1>3. Redeploys => step.contract # Step.name
  <2> SUFFICES ASSUME Redeploys PROVE step.contract # Step.name
    OBVIOUS
  <2>1. s \in Nat /\ Settled(s)
    BY <1>1, PlaceFacts DEF Compared
  <2>2. s <= script.at
    BY <2>1, SettledPlace
  <2>3. step.contract \notin Names(Target, {j \in DOMAIN Target : j >= s})
    BY <1>1, ProgramFacts, StartFacts DEF IsOrdered, Given
  <2> QED
    BY <1>1, <2>2, <2>3, GivenStays
<1>4. CellStays(Cell(step), chain, chain')
  BY <1>2, <1>3, UnwrittenStays
<1>5. Resolved(step.compared)' = Resolved(step.compared)
  <2>1. step.compared \in {step.value, getAddress(step.value)} /\ step.value \in Value
    BY <1>1, ProgramFacts, StartFacts DEF IsArranged, IsProgram, IsSetting
  <2>2. step.compared.kind = step.value.kind /\ step.compared.id = step.value.id
    BY <2>1 DEF Value, getAddress
  <2> QED
    BY <1>1, <2>2 DEF Resolved
<1>6. Current(step)' = Current(step)
  BY <1>1, <1>2, <1>4 DEF Current, CellStays
<1> QED
  BY <1>1, <1>5, <1>6 DEF InPlace

\* A setter that refuses does not refuse what was found to differ.
LEMMA DiffersIsAccepted ==
  ASSUME DeploymentInv, NEW s, Compared(s), ~InPlace(Target[s]), Target[s].method \in Refusing
  PROVE  ~InForce(Tx(Target[s]), chain)
<1> DEFINE step == Target[s]
<1>1. s \in DOMAIN Target /\ step.do = "set" /\ ~Missing(step.value)
  BY DEF Compared, LacksAddress
<1>2. step.value \in Value /\ step.value.kind # "zero" /\ step.compared = getAddress(step.value)
  BY <1>1, StartFacts DEF IsProgram, IsSetting
<1>3. step.value.kind # "undefined"
  BY <1>1 DEF Missing
<1>4. Resolved(step.compared) = getAddress(Resolved(step.value))
  BY <1>1, <1>2, <1>3, StartFacts, ResolvedValue
<1> QED
  BY <1>4 DEF InForce, InPlace, Current, Tx

-----------------------------------------------------------------------------
(***************************************************************************)
(* Where a run goes.                                                         *)
(***************************************************************************)

LEMMA RunForms ==
  /\ Idle.doing = "idle"
  /\ \A i : /\ Reading(i).doing = "read" /\ Reading(i).at = i
            /\ Saving(i).doing = "save" /\ Saving(i).at = i
            /\ Sending(i).doing = "send" /\ Sending(i).at = i
            /\ [Reading(i) EXCEPT !.newly = TRUE].doing = "read"
            /\ [Reading(i) EXCEPT !.newly = TRUE].at = i
BY DEF Idle, Reading, Saving, Sending, RunAt

\* The run is where it was.
Lingers == UNCHANGED <<script, file, commit>>

LEMMA Lingering ==
  ASSUME [Next]_vars, Confirm \/ Reject \/ UNCHANGED vars
  PROVE  Lingers /\ Target' = Target /\ UNCHANGED <<deployer, deployed, kills>>
BY DEF Confirm, Reject, vars, Lingers, Target, The

\* The run stops.
Stops == script' = Idle /\ UNCHANGED <<chain, deployed, commit>>

\* The run examines another step.
Proceeds ==
  /\ Active
  /\ script'.doing = "read"
  /\ \/ script'.at = script.at + 1
     \/ Read /\ script'.at = script.at + 1 + Step.nested

LEMMA WhereRunsGo ==
  ASSUME DeploymentInv, [Next]_vars
  PROVE  \/ CheckOut /\ script = Idle /\ script' = Idle
         \/ Start /\ script = Idle /\ script' = Reading(1) /\ UNCHANGED <<chain, deployed>>
         \/ Proceeds /\ (DeployContract \/ UpdateNew \/ Require \/ Read \/ Execute \/ Save)
         \/ Read /\ script.doing = "read" /\ script' = Saving(script.at)
         \/ Stops /\ (ProposeAtOnce \/ Propose \/ Send \/ Kill)
         \/ (Propose \/ Send) /\ script'.doing = "send" /\ script.doing # "idle"
         \/ Confirm \/ Reject \/ UNCHANGED vars
<1>1. CASE CheckOut
  BY <1>1 DEF CheckOut
<1>2. CASE Start
  BY <1>2 DEF Start
<1>3. CASE DeployContract \/ UpdateNew \/ Require \/ Execute \/ Save
  <2>1. Active
    BY <1>3 DEF Active, DeployContract, UpdateNew, Require, Execute, Save, Examining
  <2>2. \/ script' = Reading(script.at + 1)
        \/ script' = [Reading(script.at + 1) EXCEPT !.newly = TRUE]
    BY <1>3 DEF DeployContract, UpdateNew, Require, Execute, Save, GoOn
  <2> QED
    BY <1>3, <2>1, <2>2, RunForms DEF Proceeds
<1>4. CASE Read
  <2>1. Active /\ script.doing = "read"
    BY <1>4 DEF Active, Read, Examining
  <2>2. script' = Reading(script.at + 1 + Step.nested) \/ script' = Saving(script.at)
    BY <1>4 DEF Read, PassOver
  <2> QED
    BY <1>4, <2>1, <2>2, RunForms DEF Proceeds
<1>5. CASE ProposeAtOnce \/ Kill
  BY <1>5, RunForms DEF ProposeAtOnce, Kill, Stops
<1>6. CASE Propose
  <2>1. script.doing = "read" /\ UNCHANGED <<chain, deployed, commit>>
    BY <1>6 DEF Propose, Examining
  <2>2. script' = Idle \/ script' = Sending(1)
    BY <1>6 DEF Propose
  <2> QED
    BY <1>6, <2>1, <2>2, RunForms DEF Stops
<1>7. CASE Send
  <2>1. \/ script' = Idle /\ UNCHANGED chain
        \/ script' = Sending(script.at + 1)
    BY <1>7 DEF Send
  <2>2. UNCHANGED <<deployed, commit>> /\ script.doing = "send"
    BY <1>7 DEF Send
  <2> QED
    BY <1>7, <2>1, <2>2, RunForms DEF Stops
<1> QED
  BY <1>1, <1>2, <1>3, <1>4, <1>5, <1>6, <1>7 DEF Next, RunSteps

-----------------------------------------------------------------------------
(***************************************************************************)
(* The second invariant, part by part.                                       *)
(***************************************************************************)

LEMMA DeployedIsRecorded ==
  ASSUME DeploymentInv, [Next]_vars, LookUpsOK, DeployContract, Settled(script.at),
         NEW j, j = script.at
  PROVE  Recorded(Target[j])'
<1>1. /\ script.doing = "read" /\ Step.do = "deploy"
      /\ UNCHANGED <<deployer, commit>>
  BY DEF DeployContract, Examining
<1>2. j \in DOMAIN Target /\ Step = Target[j] /\ Target' = Target
  BY <1>1, ActiveFacts DEF Active, Target, The
<1>3. CASE Recorded(Step)
  <2>1. deployed' = deployed
    BY <1>3 DEF DeployContract
  <2> QED
    BY <1>2, <1>3, <2>1 DEF Recorded, Artifact, Resolved
<1>4. CASE ~Recorded(Step)
  <2>1. Redeploys
    BY <1>4 DEF Redeploys
  <2>2. deployed'[Target[j].name].artifact = Artifact(Target[j])
        /\ Target[j].name \in DOMAIN deployed'
    BY <1>2, <2>1, RedeployFacts
  <2>3. Artifact(Target[j])' = Artifact(Target[j])
    <3>1. Settled(j) /\ j <= script.at
      BY <1>2, PlaceFacts
    <3> QED
      BY <1>1, <1>2, <2>1, <3>1, ArtifactStays DEF LookUpsOK
  <2> QED
    BY <1>2, <2>2, <2>3 DEF Recorded
<1> QED
  BY <1>3, <1>4

\* The steps up to the next one are settled when a run proceeds.
LEMMA SettledOnward ==
  ASSUME DeploymentInv, [Next]_vars, LookUpsOK, Proceeds,
         DeployContract \/ UpdateNew \/ Require \/ Read \/ Execute \/ Save
  PROVE  Settled(script.at)'
<1>1. /\ script.at \in DOMAIN Target /\ script.at \in Nat \ {0} /\ Step = Target[script.at]
      /\ IsProgram(Target) /\ IsArranged(Target)
      /\ Settled(script.at)
  BY ActiveFacts DEF Proceeds, LookUpsOK
<1>2. ~CheckOut /\ Target' = Target
  <2>1. UNCHANGED <<deployer, commit>>
    BY DEF DeployContract, UpdateNew, Require, Read, Execute, Save
  <2> QED
    BY <1>1, <2>1, StartFacts DEF CheckOut, Target, The, CommitOK
<1>3. ASSUME NEW j \in DOMAIN Target, j < script.at, Target[j].do = "deploy"
      PROVE  Recorded(Target[j])'
  <2>1. ASSUME NEW i \in Nat, i = script.at PROVE Recorded(Target[j])'
    <3>1. Settled(i)'
      BY <1>1, <1>2, <2>1, SettledStays
    <3> QED
      BY <1>2, <1>3, <2>1, <3>1 DEF Settled
  <2> QED
    BY <1>1, <2>1
<1>4. ASSUME NEW j \in DOMAIN Target, ~(j < script.at), j < script'.at, Target[j].do = "deploy"
      PROVE  DeployContract /\ j = script.at
  <2>1. j \in Nat
    BY PlaceFacts
  <2>2. CASE script'.at = script.at + 1
    <3>1. j = script.at
      BY <1>1, <1>4, <2>1, <2>2
    <3>2. Step.do = "deploy"
      BY <1>1, <1>4, <3>1
    <3>3. ~UpdateNew /\ ~Require /\ ~Read
      BY <3>2 DEF UpdateNew, Require, Read, Examining
    <3>4. ~(script.doing = "save")
      BY <3>2, StartFacts DEF RunOK
    <3> QED
      BY <3>1, <3>3, <3>4 DEF Execute, Save
  <2>3. CASE Read /\ script'.at = script.at + 1 + Step.nested
    <3>1. Step.do = "set"
      BY <2>3 DEF Read, Examining
    <3>2. Step.nested \in {0, 1} /\ (Step.nested = 1 => Target[script.at + 1].do = "set")
      BY <1>1, <3>1 DEF IsArranged
    <3>3. j = script.at \/ (Step.nested = 1 /\ j = script.at + 1)
      BY <1>1, <1>4, <2>1, <2>3, <3>2
    <3> QED
      BY <1>1, <1>4, <3>1, <3>2, <3>3
  <2> QED
    BY <2>2, <2>3 DEF Proceeds
<1>5. ASSUME NEW j \in DOMAIN Target, j < script'.at, Target[j].do = "deploy"
      PROVE  Recorded(Target[j])'
  BY <1>1, <1>3, <1>4, <1>5, DeployedIsRecorded
<1> QED
  BY <1>2, <1>5 DEF Settled

LEMMA LookUpsStay ==
  ASSUME DeploymentInv, LookUpsOK, [Next]_vars
  PROVE  LookUpsOK'
<1>1. (DOMAIN The.deployed \subseteq DOMAIN deployed)'
  BY SameDeployer, RecordsOnlyGrow DEF LookUpsOK
<1>2. CASE CheckOut \/ Stops
  <2>1. script' = Idle
    BY <1>2 DEF CheckOut, Stops
  <2> QED
    BY <1>1, <2>1, RunForms DEF LookUpsOK, Active
<1>3. CASE Start /\ script' = Reading(1)
  <2>1. script'.at = 1 /\ script'.doing = "read"
    BY <1>3, RunForms
  <2>2. Target' = Target
    BY <1>3 DEF Start, Target, The
  <2> QED
    BY <1>1, <2>1, <2>2, PlaceFacts DEF LookUpsOK, Settled
<1>4. CASE Proceeds /\ (DeployContract \/ UpdateNew \/ Require \/ Read \/ Execute \/ Save)
  BY <1>1, <1>4, SettledOnward DEF LookUpsOK, Proceeds
<1>5. CASE Read /\ script.doing = "read" /\ script' = Saving(script.at)
  <2>1. script'.at = script.at /\ script'.doing = "save"
    BY <1>5, RunForms
  <2>2. UNCHANGED <<deployer, deployed, commit>> /\ ~Absent(Step) /\ ~LacksAddress(Step)
        /\ Step.do = "set"
    <3>1. ~PassOver
      <4>1. script' # Reading(script.at + 1 + Step.nested)
        BY <2>1, RunForms
      <4> QED
        BY <4>1 DEF PassOver
    <3> QED
      BY <1>5, <3>1 DEF Read, Examining
  <2>3. Settled(script.at) /\ script.at \in DOMAIN Target /\ Step = Target[script.at]
    BY <1>5, ActiveFacts DEF LookUpsOK, Active
  <2>4. Compared(script.at)
    BY <2>2, <2>3 DEF Compared
  <2>5. Compared(script.at)'
    BY <2>1, <2>2, <2>4
    DEF Compared, Settled, Absent, LacksAddress, Missing, Recorded, Artifact, Resolved,
        Target, The
  <2> QED
    BY <1>1, <2>5 DEF LookUpsOK, Compared
<1>6. CASE (Propose \/ Send) /\ script'.doing = "send"
  BY <1>1, <1>6 DEF LookUpsOK, Active
<1>7. CASE Confirm \/ Reject \/ UNCHANGED vars
  <2>1. UNCHANGED <<script, deployer, deployed, commit>>
    BY <1>7 DEF Confirm, Reject, vars
  <2> QED
    BY <1>1, <2>1
    DEF LookUpsOK, Active, Compared, Settled, Absent, LacksAddress, Missing, Recorded,
        Artifact, Resolved, Target, The
<1> QED
  BY <1>2, <1>3, <1>4, <1>5, <1>6, <1>7, WhereRunsGo

LEMMA SavedIsAFile ==
  ASSUME FileOK, RecordsOK(deployed), NEW tx, IsRecorded(tx.cell, deployed)
  PROVE  /\ Saved(tx) # NoFile /\ Saved(tx) # <<>>
         /\ \A i \in DOMAIN Saved(tx) :
              Saved(tx)[i] = tx
              \/ (file # NoFile /\ i \in DOMAIN file /\ Saved(tx)[i] = file[i])
         /\ \E i \in DOMAIN Saved(tx) : Saved(tx)[i] = tx
         /\ file # NoFile =>
              \A i \in DOMAIN file : i \in DOMAIN Saved(tx) /\ Saved(tx)[i] = file[i]
<1>1. tx # NoFile[1]
  <2>1. tx.cell[2] # 0
    BY DEF IsRecorded, RecordsOK
  <2>2. NoFile[1] = [cell |-> <<"no", 0, "file", "">>, value |-> AddressZero]
    BY DEF NoFile
  <2>3. \A c, v : [cell |-> c, value |-> v].cell = c
    OBVIOUS
  <2>4. NoFile[1].cell = <<"no", 0, "file", "">>
    BY <2>2, <2>3, Zenon
  <2>5. <<"no", 0, "file", "">>[2] = 0
    OBVIOUS
  <2> QED
    BY <2>1, <2>4, <2>5
<1>2. CASE file = NoFile
  <2>1. Saved(tx) = <<tx>>
    BY <1>2 DEF Saved
  <2>2. <<tx>> # NoFile
    BY <1>1 DEF NoFile
  <2> QED
    BY <1>2, <2>1, <2>2
<1>3. CASE file # NoFile
  <2>1. file \in Seq(Transaction)
    BY <1>3 DEF FileOK
  <2>2. CASE tx \in ToSet(file)
    <3>1. Saved(tx) = file /\ \E i \in DOMAIN file : file[i] = tx
      BY <1>3, <2>2 DEF Saved, ToSet
    <3> QED
      BY <1>3, <2>1, <3>1
  <2>3. CASE tx \notin ToSet(file)
    <3>1. Saved(tx) = Append(file, tx)
      BY <1>3, <2>3 DEF Saved
    <3>2. /\ DOMAIN Append(file, tx) = DOMAIN file \cup {Len(file) + 1}
          /\ Append(file, tx)[Len(file) + 1] = tx
          /\ \A i \in DOMAIN file : Append(file, tx)[i] = file[i]
      BY <2>1
    <3>3. Append(file, tx) # NoFile
      <4>1. DOMAIN NoFile = {1}
        BY DEF NoFile
      <4>2. ASSUME Append(file, tx) = NoFile PROVE FALSE
        <5>1. Len(file) + 1 = 1
          BY <3>2, <4>1, <4>2
        <5> QED
          BY <1>1, <3>2, <4>2, <5>1
      <4> QED
        BY <4>2
    <3> QED
      BY <1>3, <3>1, <3>2, <3>3
  <2> QED
    BY <2>2, <2>3
<1> QED
  BY <1>2, <1>3

LEMMA StepIsMade ==
  ASSUME CommitOK, NEW s \in DOMAIN Target, Target[s].do = "set",
         NEW ways, Target[s].by \in ways
  PROVE  Made(Tx(Target[s]), ways)
<1>1. Target[s] \in ToSet(The.targets[commit]) /\ commit \in DOMAIN The.targets
  BY DEF ToSet, Target, CommitOK
<1>2. Tx(Target[s]).cell[1] = Target[s].contract /\ Tx(Target[s]).cell[3] = Target[s].method
  BY DEF Tx, Cell
<1> QED
  BY <1>1, <1>2 DEF Made

LEMMA SaveFacts ==
  ASSUME DeploymentInv, script.doing = "save"
  PROVE  /\ Active /\ script.at \in DOMAIN Target /\ Step = Target[script.at]
         /\ Step.do = "set" /\ Step.by \in {"batch", "atOnce", "deployer"}
         /\ IsRecorded(Tx(Step).cell, deployed) /\ Tx(Step) \in Transaction
<1>1. Active /\ Step.do = "set" /\ Ready(Tx(Step), deployed, chain, executed)
      /\ Tx(Step) \in Transaction
  BY StartFacts DEF Active, RunOK
<1> QED
  BY <1>1, ActiveFacts DEF IsArranged, Ready

LEMMA FileChanges ==
  ASSUME DeploymentInv, [Next]_vars
  PROVE  \/ file' = file
         \/ Start /\ The.removesFile /\ file' = NoFile
         \/ Save /\ file' = Saved(Tx(Step))
         \/ Send /\ script' = Idle /\ file' = NoFile
         \/ /\ Kill /\ script.doing = "save" /\ ~ExecutesAtOnce(Step) /\ Step.by = "batch"
            /\ file = NoFile /\ file' = <<>>
BY DEF Next, vars, CheckOut, Start, RunSteps, DeployContract, UpdateNew, Require, Read,
     Execute, Save, ProposeAtOnce, Propose, Send, Kill, Confirm, Reject

LEMMA QueueChanges ==
  ASSUME DeploymentInv, [Next]_vars
  PROVE  \/ queue' = queue
         \/ /\ ProposeAtOnce /\ queue' = Append(queue, <<Tx(Step)>>) /\ script' = Idle
            /\ file' = file
         \/ /\ Propose /\ ~The.local /\ file \notin {NoFile, <<>>}
            /\ queue' = Append(queue, file) /\ script' = Idle /\ file' = file
         \/ /\ (Confirm \/ Reject) /\ queue # <<>> /\ queue' = Tail(queue)
            /\ file' = file /\ script' = script
BY DEF Proposed, Next, vars, CheckOut, Start, RunSteps, DeployContract, UpdateNew, Require,
     Read, Execute, Save, ProposeAtOnce, Propose, Send, Kill, Confirm, Reject

\* A queue that is longer by a batch, or shorter.
LEMMA Queued ==
  ASSUME QueueOK, NEW batch, queue' = Append(queue, batch), NEW k \in DOMAIN queue'
  PROVE  queue'[k] = batch \/ (k \in DOMAIN queue /\ queue'[k] = queue[k])
<1>1. queue \in Seq(Seq(Transaction))
  BY DEF QueueOK
<1> QED
  BY <1>1

LEMMA Dequeued ==
  ASSUME QueueOK, queue # <<>>, queue' = Tail(queue)
  PROVE  /\ \A k \in DOMAIN queue' : k + 1 \in DOMAIN queue /\ queue'[k] = queue[k + 1]
         /\ 1 \in DOMAIN queue /\ queue[1] = Head(queue)
<1>1. queue \in Seq(Seq(Transaction))
  BY DEF QueueOK
<1> QED
  BY <1>1

LEMMA WaysStay ==
  ASSUME DeploymentInv, WaysOK, [Next]_vars
  PROVE  WaysOK'
<1>1. \A tx, ways : Made(tx, ways)' <=> Made(tx, ways)
  BY SameDeployer DEF Made
<1>2. ASSUME file' # NoFile, NEW i \in DOMAIN file' PROVE Made(file'[i], {"batch"})
  <2>1. CASE file' = file
    BY <1>2, <2>1 DEF WaysOK
  <2>2. CASE Save /\ file' = Saved(Tx(Step))
    <3>1. /\ script.at \in DOMAIN Target /\ Step = Target[script.at] /\ Step.do = "set"
          /\ Step.by = "batch" /\ IsRecorded(Tx(Step).cell, deployed)
      BY <2>2, SaveFacts DEF Save
    <3>2. Made(Tx(Step), {"batch"})
      BY <3>1, StartFacts, StepIsMade
    <3>3. file'[i] = Tx(Step) \/ (file # NoFile /\ i \in DOMAIN file /\ file'[i] = file[i])
      BY <1>2, <2>2, <3>1, StartFacts, SavedIsAFile
    <3> QED
      BY <3>2, <3>3 DEF WaysOK
  <2>3. CASE file' = <<>>
    BY <1>2, <2>3
  <2> QED
    BY <1>2, <2>1, <2>2, <2>3, FileChanges
<1>3. ASSUME NEW k \in DOMAIN queue', NEW i \in DOMAIN queue'[k]
      PROVE  Made(queue'[k][i], {"batch", "atOnce"})
  <2>1. CASE queue' = queue
    BY <1>3, <2>1 DEF WaysOK
  <2>2. CASE ProposeAtOnce /\ queue' = Append(queue, <<Tx(Step)>>)
    <3>1. /\ script.at \in DOMAIN Target /\ Step = Target[script.at] /\ Step.do = "set"
          /\ Step.by = "atOnce"
      BY <2>2, SaveFacts DEF ProposeAtOnce
    <3>2. Made(Tx(Step), {"batch", "atOnce"})
      BY <3>1, StartFacts, StepIsMade
    <3>3. queue'[k] = <<Tx(Step)>> \/ (k \in DOMAIN queue /\ queue'[k] = queue[k])
      BY <1>3, <2>2, StartFacts, Queued
    <3>4. i \in DOMAIN <<Tx(Step)>> => <<Tx(Step)>>[i] = Tx(Step)
      OBVIOUS
    <3> QED
      BY <1>3, <3>2, <3>3, <3>4 DEF WaysOK
  <2>3. CASE file # NoFile /\ queue' = Append(queue, file)
    <3>1. queue'[k] = file \/ (k \in DOMAIN queue /\ queue'[k] = queue[k])
      BY <1>3, <2>3, StartFacts, Queued
    <3>2. \A tx : Made(tx, {"batch"}) => Made(tx, {"batch", "atOnce"})
      BY DEF Made
    <3> QED
      BY <1>3, <2>3, <3>1, <3>2 DEF WaysOK
  <2>4. CASE queue # <<>> /\ queue' = Tail(queue)
    BY <1>3, <2>4, StartFacts, Dequeued DEF WaysOK
  <2> QED
    BY <2>1, <2>2, <2>3, <2>4, QueueChanges
<1> QED
  BY <1>1, <1>2, <1>3 DEF WaysOK

LEMMA QuietStays ==
  ASSUME DeploymentInv, QuietOK, [Next]_vars
  PROVE  QuietOK'
<1>1. The' = The /\ OneByOne' = OneByOne
  BY SameDeployer
<1>2. ASSUME The.signer PROVE file' = NoFile
  <2>1. ~Save
    BY <1>2 DEF Save, ExecutesAtOnce
  <2>2. ASSUME script.doing = "save", ~ExecutesAtOnce(Step) PROVE FALSE
    BY <1>2, <2>2 DEF ExecutesAtOnce
  <2> QED
    BY <1>2, <2>1, <2>2, FileChanges DEF QuietOK
<1>3. ASSUME script'.doing = "send" PROVE The.local
  <2>1. CASE Propose /\ script' = Sending(1)
    <3>1. script' # Idle
      BY <2>1, RunForms
    <3> QED
      BY <2>1, <3>1 DEF Propose
  <2>2. CASE script.doing = "send"
    BY <2>2 DEF QuietOK
  <2>3. CASE Propose /\ script' # Sending(1)
    BY <1>3, <2>3, RunForms DEF Propose
  <2>4. CASE ~Propose /\ script.doing # "send"
    <3>1. ~(Confirm \/ Reject \/ UNCHANGED vars)
      BY <1>3, <2>4 DEF Confirm, Reject, vars
    <3>2. ~Send
      BY <2>4 DEF Send
    <3> QED
      BY <1>3, <2>4, <3>1, <3>2, WhereRunsGo, RunForms DEF Proceeds, Stops
  <2> QED
    BY <2>1, <2>2, <2>3, <2>4
<1>4. ASSUME OneByOne PROVE queue' = <<>>
  <2>1. ~ProposeAtOnce
    BY <1>4 DEF ProposeAtOnce, ExecutesAtOnce, OneByOne
  <2>2. ~(Propose /\ ~The.local /\ file \notin {NoFile, <<>>})
    BY <1>4 DEF QuietOK, OneByOne
  <2> QED
    BY <1>4, <2>1, <2>2, QueueChanges DEF QuietOK
<1>5. ASSUME The.maxQueue <= 1, script'.doing # "idle" PROVE queue' = <<>>
  <2>1. CASE Start
    <3>1. queue \in Seq(Seq(Transaction)) /\ Len(queue) < The.maxQueue /\ queue' = queue
      BY <2>1, StartFacts DEF Start, QueueOK
    <3>2. The.maxQueue \in Nat
      BY StartFacts, ProcedureAssumption DEF CommitOK, The
    <3>3. Len(queue) = 0
      BY <1>5, <3>1, <3>2
    <3> QED
      BY <3>1, <3>3
  <2>2. CASE script.doing # "idle"
    <3>1. queue = <<>>
      BY <1>5, <2>2 DEF QuietOK
    <3> QED
      BY <1>5, <3>1, QueueChanges, RunForms
  <2>3. CASE ~Start /\ script.doing = "idle"
    <3>1. ~(Confirm \/ Reject \/ UNCHANGED vars)
      BY <1>5, <2>3 DEF Confirm, Reject, vars
    <3>2. ~(Propose \/ Send)
      BY <2>3 DEF Propose, Send, Examining
    <3> QED
      BY <1>5, <2>3, <3>1, <3>2, WhereRunsGo, RunForms DEF Proceeds, Stops, Active
  <2> QED
    BY <2>1, <2>2, <2>3
<1> QED
  BY <1>1, <1>2, <1>3, <1>4, <1>5 DEF QuietOK

LEMMA UnsavedStays ==
  ASSUME DeploymentInv, QuietOK, UnsavedOK, [Next]_vars
  PROVE  UnsavedOK'
<1> SUFFICES ASSUME Unsaved', NEW k \in DOMAIN queue', NEW i \in DOMAIN queue'[k]
             PROVE  Made(queue'[k][i], {"atOnce"})
  <2>1. \A tx, ways : Made(tx, ways)' <=> Made(tx, ways)
    BY SameDeployer DEF Made
  <2> QED
    BY <2>1 DEF UnsavedOK
<1>1. ~OneByOne /\ ~The.removesFile /\ file' \in {NoFile, <<>>}
  BY SameDeployer DEF Unsaved
<1>2. ~Save
  BY <1>1, SaveFacts, SavedIsAFile, StartFacts DEF Save
<1>3. Unsaved
  <2>1. ~Send
    BY <1>1 DEF Send, QuietOK, OneByOne
  <2> QED
    BY <1>1, <1>2, <2>1, FileChanges DEF Unsaved
<1>4. CASE queue' = queue
  BY <1>3, <1>4 DEF UnsavedOK
<1>5. CASE ProposeAtOnce /\ queue' = Append(queue, <<Tx(Step)>>)
  <2>1. /\ script.at \in DOMAIN Target /\ Step = Target[script.at] /\ Step.do = "set"
        /\ Step.by = "atOnce"
    BY <1>5, SaveFacts DEF ProposeAtOnce
  <2>2. Made(Tx(Step), {"atOnce"})
    BY <2>1, StartFacts, StepIsMade
  <2>3. queue'[k] = <<Tx(Step)>> \/ (k \in DOMAIN queue /\ queue'[k] = queue[k])
    BY <1>5, StartFacts, Queued
  <2>4. i \in DOMAIN <<Tx(Step)>> => <<Tx(Step)>>[i] = Tx(Step)
    OBVIOUS
  <2> QED
    BY <1>3, <2>2, <2>3, <2>4 DEF UnsavedOK
<1>6. CASE queue # <<>> /\ queue' = Tail(queue)
  BY <1>3, <1>6, StartFacts, Dequeued DEF UnsavedOK
<1> QED
  BY <1>1, <1>4, <1>5, <1>6, QueueChanges

\* Where records and chain stand, so does what was compared.
LEMMA StandingSettings ==
  ASSUME UNCHANGED <<deployer, deployed, chain, commit>>
  PROVE  /\ Target' = Target
         /\ \A s : /\ InPlace(Target[s])' <=> InPlace(Target[s])
                   /\ Compared(s)' <=> Compared(s)
                   /\ Tx(Target[s])' = Tx(Target[s])
<1>1. Target' = Target
  BY DEF Target, The
<1>2. ASSUME NEW s
      PROVE  /\ InPlace(Target[s])' <=> InPlace(Target[s])
             /\ Tx(Target[s])' = Tx(Target[s])
  BY <1>1 DEF InPlace, Current, Cell, Resolved, Tx
<1>3. ASSUME NEW s
      PROVE  Compared(s)' <=> Compared(s)
  BY <1>1 DEF Compared, Absent, LacksAddress, Missing, Settled, Recorded, Artifact, Resolved
<1> QED
  BY <1>1, <1>2, <1>3

LEMMA SavingMoves ==
  ASSUME DeploymentInv, [Next]_vars, script'.doing = "save"
  PROVE  \/ /\ Read /\ script.doing = "read" /\ script' = Saving(script.at)
            /\ UNCHANGED <<deployer, deployed, chain, commit, file, queue, kills, executed>>
         \/ (Confirm \/ Reject \/ UNCHANGED vars) /\ Lingers
<1>1. ~CheckOut /\ ~Stops
  BY RunForms DEF CheckOut, Stops
<1>2. script' # Reading(1)
  BY RunForms
<1> QED
  BY <1>1, <1>2, WhereRunsGo, Lingering DEF Proceeds, Read

LEMMA ReadFindsDifference ==
  ASSUME Read, script' = Saving(script.at)
  PROVE  ~InPlace(Step) /\ ~Absent(Step) /\ ~LacksAddress(Step) /\ Step.do = "set"
<1>1. ~PassOver
  BY RunForms DEF PassOver
<1> QED
  BY <1>1 DEF Read, Examining

LEMMA DiffersStay ==
  ASSUME DeploymentInv, LookUpsOK, WaysOK, QuietOK, UnsavedOK, DiffersOK, [Next]_vars
  PROVE  DiffersOK'
<1> SUFFICES ASSUME script'.doing = "save",
                    (OneByOne \/ Step.by = "deployer" \/ (Unsaved /\ Step.by = "batch"))'
             PROVE  ~InPlace(Step)'
  BY DEF DiffersOK
<1>1. CASE Read /\ script' = Saving(script.at)
           /\ UNCHANGED <<deployer, deployed, chain, commit, file>>
  <2>1. script'.at = script.at
    BY <1>1, RunForms
  <2>2. Step' = Step
    BY <1>1, <2>1 DEF Step, Target, The
  <2>3. ~InPlace(Step)
    BY <1>1, ReadFindsDifference
  <2> QED
    BY <1>1, <2>2, <2>3 DEF InPlace, Current, Cell, Resolved
<1>2. CASE (Confirm \/ Reject \/ UNCHANGED vars) /\ Lingers
  <2>1. /\ script.doing = "save" /\ script' = script /\ Target' = Target /\ Step' = Step
        /\ The' = The /\ OneByOne' = OneByOne /\ Unsaved' = Unsaved
        /\ UNCHANGED <<deployer, deployed, commit, file>>
    BY <1>2, Lingering, SameDeployer DEF Lingers, Step, Unsaved
  <2>2. /\ Step = Target[script.at] /\ script.at \in DOMAIN Target /\ Step.do = "set"
        /\ Compared(script.at) /\ ~InPlace(Step)
    BY <2>1, SaveFacts DEF LookUpsOK, DiffersOK
  <2>3. CASE Reject \/ UNCHANGED vars
    <3>1. UNCHANGED chain
      BY <2>3 DEF Reject, vars
    <3> QED
      BY <2>1, <2>2, <3>1, StandingSettings
  <2>4. CASE Confirm
    <3>1. ~CheckOut /\ ~UpdateNew /\ ~Execute /\ ~Send
      BY <2>1, <2>4 DEF CheckOut, UpdateNew, Execute, Send, Confirm, Examining, Idle, RunAt
    <3>2. 1 \in DOMAIN queue /\ queue[1] = Head(queue) /\ queue # <<>>
      BY <2>4, StartFacts, Dequeued DEF Confirm
    <3>3. ~OneByOne
      BY <3>2 DEF QuietOK
    <3>4. ASSUME NEW i \in DOMAIN Head(queue)
          PROVE  Head(queue)[i].cell # Cell(Target[script.at])
      <4>1. CASE Step.by = "deployer"
        <5>1. Made(Head(queue)[i], {"batch", "atOnce"})
          BY <3>2, <3>4 DEF WaysOK
        <5>2. /\ script.at \in DOMAIN Target /\ Target[script.at].do = "set"
              /\ Target[script.at].by \notin {"batch", "atOnce"}
          BY <2>2, <4>1
        <5> QED
          BY <5>1, <5>2, StartFacts, WaysApart
      <4>2. CASE Unsaved /\ Step.by = "batch"
        <5>1. Made(Head(queue)[i], {"atOnce"})
          BY <3>2, <3>4, <4>2 DEF UnsavedOK
        <5>2. /\ script.at \in DOMAIN Target /\ Target[script.at].do = "set"
              /\ Target[script.at].by \notin {"atOnce"}
          BY <2>2, <4>2
        <5> QED
          BY <5>1, <5>2, StartFacts, WaysApart
      <4> QED
        BY <2>1, <3>3, <4>1, <4>2
    <3>5. ASSUME NEW s, s = script.at PROVE ~InPlace(Target[s])'
      <4>1. ~Writes(Cell(Target[s]))
        BY <3>1, <3>4, <3>5 DEF Writes
      <4> QED
        BY <2>2, <3>1, <3>5, <4>1, InPlaceStays
    <3>6. PICK s : s = script.at
      OBVIOUS
    <3>7. Step' = Target[s]'
      BY <2>1, <2>2, <3>6
    <3>8. ~InPlace(Target[s])'
      BY <3>5, <3>6
    <3> QED
      BY <3>7, <3>8 DEF InPlace, Current, Cell, Resolved
  <2> QED
    BY <1>2, <2>3, <2>4
<1> QED
  BY <1>1, <1>2, SavingMoves

\* Of a local network: the setters accept what is still to be sent.
LEMMA UnsentStay ==
  ASSUME DeploymentInv, LookUpsOK, WaysOK, QuietOK, DiffersOK, UnsentOK, EmptyFileOK,
         [Next]_vars
  PROVE  UnsentOK'
<1> SUFFICES ASSUME The.local, file' # NoFile, script'.doing # "idle",
                    NEW i \in DOMAIN file', script'.doing = "send" => i >= script'.at,
                    file'[i].cell[3] \in Refusing
             PROVE  ~InForce(file'[i], chain')
  BY SameDeployer DEF UnsentOK
<1>1. queue = <<>> /\ OneByOne
  BY DEF QuietOK, OneByOne
<1>2. ~Start
  <2>1. Start => file = NoFile
    BY RunForms DEF Start, EmptyFileOK
  <2> QED
    BY <2>1 DEF Start
<1>3. script.doing # "idle"
  <2>1. ~Stops /\ ~CheckOut
    BY RunForms DEF Stops, CheckOut
  <2>2. ~Confirm /\ ~Reject
    BY <1>1 DEF Confirm, Reject
  <2> QED
    BY <1>2, <2>1, <2>2, WhereRunsGo DEF Proceeds, Active, vars
<1>4. CASE file' = file
  <2>1. ASSUME NEW tx, tx = file[i] PROVE tx \in Transaction /\ IsRecorded(tx.cell, deployed)
    BY <1>4, <2>1, StartFacts DEF FileOK, BatchOK, Ready
  <2>2. Made(file[i], {"batch"})
    BY <1>4 DEF WaysOK
  <2>3. CASE script.doing = "send"
    <3>1. /\ file \in Seq(Transaction) /\ IsInjective(file) /\ script.at \in Nat
          /\ i \in DOMAIN file
      BY <1>4, StartFacts DEF FileOK, BatchOK
    <3>2. CASE Send
      <4>1. ~(script.at > Len(file))
        BY <1>4, <3>2 DEF Send
      <4>2. chain' = Apply(chain, file[script.at]) /\ script' = Sending(script.at + 1)
        BY <3>2, <4>1 DEF Send
      <4>3. i >= script.at + 1 /\ script.at \in DOMAIN file
        <5>1. i >= script.at + 1
          BY <4>2, RunForms
        <5>2. script.at # 0
          BY <2>3, StartFacts DEF RunOK
        <5> QED
          BY <3>1, <4>1, <5>1, <5>2
      <4>4. i >= script.at /\ i # script.at
        BY <3>1, <4>3
      <4>5. ~InForce(file[i], chain)
        BY <1>4, <2>3, <3>1, <4>4 DEF UnsentOK
      <4>6. ASSUME InForce(file[i], chain') PROVE FALSE
        <5>1. file[i].cell = file[script.at].cell /\ file[i].value = file[script.at].value
          BY <4>2, <4>5, <4>6, ApplyValue DEF InForce
        <5>2. file[i] \in Transaction /\ file[script.at] \in Transaction
          BY <3>1, <4>3
        <5>3. file[i] = file[script.at]
          BY <5>1, <5>2 DEF Transaction
        <5> QED
          BY <3>1, <4>3, <4>4, <5>3 DEF IsInjective
      <4> QED
        BY <1>4, <4>6
    <3>3. CASE ~Send
      <4>1. UNCHANGED vars
        <5>1. ~Stops /\ ~CheckOut /\ ~Confirm /\ ~Reject
          BY <1>1, RunForms DEF Stops, CheckOut, Confirm, Reject
        <5>2. ~Propose /\ ~Active /\ ~Read
          BY <2>3 DEF Propose, Active, Read, Examining
        <5> QED
          BY <1>2, <3>3, <5>1, <5>2, WhereRunsGo DEF Proceeds
      <4> QED
        BY <1>4, <2>3, <4>1 DEF vars, UnsentOK
    <3> QED
      BY <3>2, <3>3
  <2>4. CASE script.doing # "send"
    <3>1. ~InForce(file[i], chain)
      BY <1>3, <1>4, <2>4 DEF UnsentOK
    <3>2. ~Writes(file[i].cell)
      <4>1. ~Send /\ ~Confirm
        BY <1>1, <2>4 DEF Send, Confirm
      <4>2. ASSUME UpdateNew PROVE Cell(Step) # file[i].cell
        <5>1. script.at \in DOMAIN Target /\ Step = Target[script.at] /\ Step.do = "update"
          BY <4>2, ActiveFacts DEF UpdateNew, Examining, Active
        <5> QED
          BY <2>2, <5>1, StartFacts, WaysApart
      <4>3. ASSUME Execute PROVE Cell(Step) # file[i].cell
        <5>1. script.at \in DOMAIN Target /\ Step = Target[script.at] /\ Step.do = "set"
              /\ ExecutesAtOnce(Step)
          BY <4>3, SaveFacts DEF Execute
        <5>2. Step.by # "batch"
          BY <1>4, <5>1 DEF ExecutesAtOnce, QuietOK
        <5> QED
          BY <2>2, <5>1, <5>2, StartFacts, WaysApart
      <4> QED
        BY <4>1, <4>2, <4>3 DEF Writes
    <3>3. CellStays(file[i].cell, chain, chain')
      BY <2>1, <3>2, UnwrittenStays
    <3> QED
      BY <1>4, <3>1, <3>3 DEF CellStays, InForce
  <2> QED
    BY <2>3, <2>4
<1>5. CASE Save /\ file' = Saved(Tx(Step))
  <2>1. /\ IsRecorded(Tx(Step).cell, deployed) /\ Step = Target[script.at]
        /\ script.doing = "save" /\ UNCHANGED chain
    BY <1>5, SaveFacts DEF Save
  <2>2. file'[i] = Tx(Step) \/ (file # NoFile /\ i \in DOMAIN file /\ file'[i] = file[i])
    BY <1>5, <2>1, StartFacts, SavedIsAFile
  <2>3. CASE file'[i] = Tx(Step)
    <3>1. Compared(script.at) /\ ~InPlace(Step)
      BY <1>1, <2>1 DEF LookUpsOK, DiffersOK
    <3>2. Step.method \in Refusing
      BY <2>3 DEF Tx, Cell
    <3> QED
      BY <2>1, <2>3, <3>1, <3>2, DiffersIsAccepted
  <2>4. CASE file # NoFile /\ i \in DOMAIN file /\ file'[i] = file[i]
    BY <1>3, <2>1, <2>4 DEF UnsentOK
  <2> QED
    BY <2>2, <2>3, <2>4
<1> QED
  BY <1>2, <1>3, <1>4, <1>5, FileChanges, RunForms

LEMMA NestedStay ==
  ASSUME DeploymentInv, NestedOK, [Next]_vars
  PROVE  NestedOK'
<1> SUFFICES ASSUME Active', Nested(script.at)', Unsaved' PROVE FALSE
  BY DEF NestedOK
<1>1. ~OneByOne /\ ~The.removesFile /\ file' \in {NoFile, <<>>}
  BY SameDeployer DEF Unsaved
<1>2. ~CheckOut /\ Target' = Target
  BY <1>1, KeptFileSameProgram, SameProgram
<1>3. PICK j \in DOMAIN Target :
        j + 1 = script'.at /\ Target[j].do = "set" /\ Target[j].nested = 1
  BY <1>2 DEF Nested
<1>4. j \in Nat \ {0}
  BY PlaceFacts
<1>5. script'.doing \in {"read", "save"} /\ ~Stops
  BY RunForms DEF Active, Stops
<1>6. CASE Start /\ script' = Reading(1)
  BY <1>3, <1>4, <1>6, RunForms
<1>7. CASE Proceeds /\ (DeployContract \/ UpdateNew \/ Require \/ Read \/ Execute \/ Save)
  <2>1. /\ script.at \in Nat /\ Step = Target[script.at] /\ IsArranged(Target)
        /\ script.at \in DOMAIN Target
    BY <1>7, ActiveFacts DEF Proceeds
  <2>2. ~Save
    BY <1>1, SaveFacts, SavedIsAFile, StartFacts DEF Save
  <2>3. CASE DeployContract \/ UpdateNew \/ Require \/ Execute
    <3>1. ~Read /\ script'.at = script.at + 1
      <4>1. script' = Reading(script.at + 1)
            \/ script' = [Reading(script.at + 1) EXCEPT !.newly = TRUE]
        BY <2>3 DEF DeployContract, UpdateNew, Require, Execute, GoOn
      <4>2. ~Read
        BY <2>3 DEF Read, DeployContract, UpdateNew, Require, Execute, Examining
      <4> QED
        BY <4>1, <4>2, RunForms
    <3>2. j = script.at
      BY <1>3, <1>4, <2>1, <3>1
    <3>3. Execute
      BY <1>3, <2>1, <2>3, <3>2 DEF DeployContract, UpdateNew, Require, Examining
    <3>4. Step.by = "batch"
      BY <1>3, <2>1, <3>2 DEF IsArranged
    <3> QED
      BY <1>1, <3>3, <3>4 DEF Execute, ExecutesAtOnce, OneByOne
  <2>4. CASE Read
    <3>1. Step.do = "set" /\ script' # Saving(script.at)
      BY <1>7, <2>4, RunForms DEF Read, Examining, Proceeds
    <3>2. PassOver /\ (Step.nested = 1 => Target[script.at + 1].nested = 0)
          /\ Step.nested \in {0, 1}
      BY <2>1, <2>4, <3>1 DEF Read, IsArranged
    <3>3. script'.at = script.at + 1 + Step.nested
      BY <3>2, RunForms DEF PassOver
    <3>4. j = script.at + Step.nested
      BY <1>3, <1>4, <2>1, <3>2, <3>3
    <3> QED
      BY <1>3, <2>1, <3>2, <3>4
  <2> QED
    BY <1>7, <2>2, <2>3, <2>4
<1>8. CASE Read /\ script.doing = "read" /\ script' = Saving(script.at)
  <2>1. script'.at = script.at /\ file' = file
    BY <1>8, RunForms DEF Read
  <2> QED
    BY <1>1, <1>3, <1>8, <2>1 DEF NestedOK, Nested, Active, Unsaved
<1>9. CASE Confirm \/ Reject \/ UNCHANGED vars
  <2>1. script' = script /\ file' = file
    BY <1>9 DEF Confirm, Reject, vars
  <2> QED
    BY <1>1, <1>3, <1>5, <2>1 DEF NestedOK, Nested, Active, Unsaved
<1> QED
  BY <1>2, <1>5, <1>6, <1>7, <1>8, <1>9, WhereRunsGo

\* What the second invariant is for.
LEMMA RunsDoNotThrow ==
  ASSUME DeploymentInv, LookUpInv
  PROVE  ~Throws
<1> USE DEF LookUpInv
<1> DEFINE given == Given(Target, DOMAIN The.deployed, script.at)
<1>1. Active => /\ script.at \in DOMAIN Target /\ script.at \in Nat /\ Step = Target[script.at]
                /\ IsOrdered(Target, DOMAIN The.deployed) /\ IsArranged(Target)
                /\ \A name \in given : name \in DOMAIN deployed
  BY ActiveFacts, GivenIsRecorded DEF LookUpsOK
<1>2. ASSUME Examining("deploy"), NEW v \in ToSet(Step.args), Missing(v) PROVE FALSE
  <2>1. Active /\ Step.do = "deploy"
    BY <1>2 DEF Examining, Active
  <2>2. AtHand(v, given)
    BY <1>1, <1>2, <2>1 DEF IsOrdered
  <2> QED
    BY <1>1, <1>2, <2>1, <2>2 DEF AtHand, Missing
<1>3. ASSUME Examining("require") PROVE ~Missing(Step.value) /\ InPlace(Step)
  <2>1. Active /\ Step.do = "require"
    BY <1>3 DEF Examining, Active
  <2>2. AtHand(Step.value, given)
    BY <1>1, <2>1 DEF IsOrdered
  <2>3. ~Missing(Step.value)
    BY <1>1, <2>1, <2>2 DEF AtHand, Missing
  <2>4. PICK j \in DOMAIN Target :
          /\ j < script.at /\ Target[j].do = "set" /\ Target[j].by = "atOnce"
          /\ SameCell(Target[j], Step) /\ Target[j].compared = Step.compared
    BY <1>1, <2>1 DEF IsOrdered
  <2>5. Waits
    <3>1. Target[script.at] \in ToSet(The.targets[commit]) /\ commit \in DOMAIN The.targets
      BY <1>1, <2>1, StartFacts DEF ToSet, Target, CommitOK
    <3> QED
      BY <1>1, <2>1, <3>1, StartFacts, ProcedureAssumption DEF CommitOK, The, OneByOne, Waits
  <2>6. InPlace(Target[j])
    BY <2>1, <2>4, <2>5 DEF AtOnceOK
  <2>7. Cell(Target[j]) = Cell(Step)
    BY <2>4 DEF SameCell, Cell
  <2> QED
    BY <2>3, <2>4, <2>6, <2>7 DEF InPlace, Current, SameCell
<1>4. ASSUME Examining("set"), ~Absent(Step) PROVE ~LacksAddress(Step)
  <2>1. Active /\ Step.do = "set"
    BY <1>4 DEF Examining, Active
  <2> DEFINE names == given \cup
        (Step.optional \ Names(Target, {j \in DOMAIN Target : j >= script.at}))
  <2>2. Step.contract \in names /\ AtHand(Step.token, names) /\ AtHand(Step.value, names)
    BY <1>1, <2>1 DEF IsOrdered
  <2>3. \A name \in names : name \in DOMAIN deployed
    BY <1>1, <1>4, <2>1 DEF Absent
  <2> HIDE DEF names
  <2> QED
    BY <2>2, <2>3 DEF LacksAddress, Missing, DeploymentOf, AtHand
<1>5. ASSUME Examining("propose"), file = <<>> PROVE FALSE
  <2>1. Active /\ Step.do = "propose" /\ script.doing # "idle"
    BY <1>5 DEF Examining, Active
  <2>2. NoFile # <<>>
    BY DEF NoFile
  <2>3. Unsaved
    BY <1>5, <2>1 DEF EmptyFileOK, Unsaved
  <2>4. PICK s \in DOMAIN Target : Compared(s) /\ script.at <= s
    BY <1>5, <2>1, <2>3 DEF EmptyFileOK, LeftAt
  <2>5. s <= script.at /\ s \in Nat
    BY <1>1, <2>1, <2>4, PlaceFacts DEF IsArranged
  <2>6. s = script.at
    BY <1>1, <2>1, <2>4, <2>5
  <2> QED
    BY <1>1, <2>1, <2>4, <2>6 DEF Compared
<1>6. ASSUME script.doing = "save", ExecutesAtOnce(Step) PROVE Accepts(chain, Tx(Step))
  <2>1. Step = Target[script.at] /\ Compared(script.at)
    BY <1>6, SaveFacts DEF LookUpsOK
  <2>2. ~InPlace(Step)
    BY <1>6 DEF DiffersOK, ExecutesAtOnce, OneByOne
  <2>3. Tx(Step).cell[3] = Step.method
    BY DEF Tx, Cell
  <2> QED
    BY <2>1, <2>2, <2>3, DiffersIsAccepted DEF Accepts, InForce
<1>7. ASSUME script.doing = "send", script.at <= Len(file)
      PROVE  Accepts(chain, file[script.at])
  <2>1. file # NoFile /\ file \in Seq(Transaction) /\ script.at \in Nat \ {0} /\ The.local
    BY <1>7, StartFacts DEF RunOK, FileOK, QuietOK
  <2>2. script.at \in DOMAIN file /\ script.at >= script.at
    BY <1>7, <2>1
  <2> QED
    BY <1>7, <2>1, <2>2 DEF UnsentOK, Accepts, InForce
<1> QED
  BY <1>2, <1>3, <1>4, <1>5, <1>6, <1>7 DEF Throws

\* What is compared is only set again by the batch, by its own step, or by nobody.
LEMMA BatchUnwritten ==
  ASSUME DeploymentInv, WaysOK, QuietOK, UnsavedOK, Unsaved,
         NEW s \in DOMAIN Target, Target[s].do = "set", Target[s].by = "batch"
  PROVE  ~Writes(Cell(Target[s]))
<1>1. ~OneByOne /\ ~The.local /\ ~The.signer
  BY DEF Unsaved, OneByOne
<1>2. ~Send
  BY <1>1 DEF Send, QuietOK
<1>3. ASSUME UpdateNew PROVE Cell(Step) # Cell(Target[s])
  <2>1. script.at \in DOMAIN Target /\ Step = Target[script.at] /\ Step.do = "update"
    BY <1>3, ActiveFacts DEF UpdateNew, Examining, Active
  <2>2. Made(Tx(Target[s]), {"batch"}) /\ Tx(Target[s]).cell = Cell(Target[s])
    BY StartFacts, StepIsMade DEF Tx
  <2> QED
    BY <2>1, <2>2, StartFacts, WaysApart
<1>4. ASSUME Execute PROVE Cell(Step) # Cell(Target[s])
  <2>1. /\ script.at \in DOMAIN Target /\ Step = Target[script.at] /\ Step.do = "set"
        /\ Target[script.at].by \notin {"batch"}
    BY <1>1, <1>4, SaveFacts DEF Execute, ExecutesAtOnce
  <2>2. Made(Tx(Target[s]), {"batch"}) /\ Tx(Target[s]).cell = Cell(Target[s])
    BY StartFacts, StepIsMade DEF Tx
  <2> QED
    BY <2>1, <2>2, StartFacts, WaysApart
<1>5. ASSUME Confirm, NEW i \in DOMAIN Head(queue)
      PROVE  Head(queue)[i].cell # Cell(Target[s])
  <2>1. 1 \in DOMAIN queue /\ queue[1] = Head(queue)
    BY <1>5, StartFacts, Dequeued DEF Confirm
  <2>2. Made(Head(queue)[i], {"atOnce"})
    BY <1>5, <2>1 DEF UnsavedOK
  <2>3. Target[s].by \notin {"atOnce"}
    OBVIOUS
  <2> QED
    BY <2>2, <2>3, StartFacts, WaysApart
<1> QED
  BY <1>2, <1>3, <1>4, <1>5 DEF Writes

LEMMA LeftStays ==
  ASSUME DeploymentInv, LookUpInv, [Next]_vars, Unsaved, file = <<>>, file' = file,
         NEW s, LeftAt(s)
  PROVE  LeftAt(s)'
<1>1. ~CheckOut /\ Target' = Target
  BY KeptFileSameProgram, SameProgram DEF Unsaved
<1>2. s \in DOMAIN Target /\ s \in Nat \ {0} /\ Target[s].do = "set"
  BY PlaceFacts DEF LeftAt, Compared
<1>3. Compared(s)' /\ (InPlace(Target[s])' <=> InPlace(Target[s]))
  <2>1. ~Writes(Cell(Target[s]))
    BY <1>2, BatchUnwritten DEF LeftAt, LookUpInv
  <2> QED
    BY <1>1, <2>1, ComparedStays, InPlaceStays DEF LeftAt, LookUpInv
<1>4. ASSUME Active' PROVE script'.at <= s
  <2>1. ~Stops /\ script'.doing \in {"read", "save"}
    BY <1>4, RunForms DEF Active, Stops
  <2>2. CASE Start /\ script' = Reading(1)
    BY <1>2, <2>2, RunForms
  <2>3. CASE Proceeds /\ (DeployContract \/ UpdateNew \/ Require \/ Read \/ Execute \/ Save)
    <3>1. /\ script.at \in Nat /\ Step = Target[script.at] /\ IsArranged(Target)
          /\ script.at \in DOMAIN Target /\ script.at <= s
      BY <2>3, ActiveFacts DEF Proceeds, LeftAt
    <3>2. ~Save
      BY SaveFacts, SavedIsAFile, StartFacts DEF Save
    <3>3. CASE DeployContract \/ UpdateNew \/ Require \/ Execute
      <4>1. script'.at = script.at + 1
        <5>1. ~Read
          BY <3>3 DEF Read, DeployContract, UpdateNew, Require, Execute, Examining
        <5> QED
          BY <2>3, <5>1 DEF Proceeds
      <4>2. script.at # s
        <5>1. Execute => Step.by # "batch"
          BY DEF Execute, ExecutesAtOnce, Unsaved, OneByOne
        <5> QED
          BY <1>2, <3>1, <3>3, <5>1 DEF DeployContract, UpdateNew, Require, Examining, LeftAt
      <4> QED
        BY <1>2, <3>1, <4>1, <4>2
    <3>4. CASE Read
      <4>1. Step.do = "set" /\ script' # Saving(script.at)
        BY <2>3, <3>4, RunForms DEF Read, Examining, Proceeds
      <4>2. PassOver /\ (Absent(Step) \/ InPlace(Step)) /\ Step.nested \in {0, 1}
        BY <3>1, <3>4, <4>1 DEF Read, IsArranged
      <4>3. script'.at = script.at + 1 + Step.nested
        BY <4>2, RunForms DEF PassOver
      <4>4. script.at # s
        BY <3>1, <4>2 DEF LeftAt, Compared
      <4>5. Step.nested = 1 => script.at + 1 # s
        BY <3>1, <4>1 DEF LeftAt, Nested
      <4> QED
        BY <1>2, <3>1, <4>2, <4>3, <4>4, <4>5
    <3> QED
      BY <2>3, <3>2, <3>3, <3>4
  <2>4. CASE Read /\ script.doing = "read" /\ script' = Saving(script.at)
    BY <2>4, RunForms DEF LeftAt, Active
  <2>5. CASE Confirm \/ Reject \/ UNCHANGED vars
    <3>1. script' = script
      BY <2>5 DEF Confirm, Reject, vars
    <3> QED
      BY <2>1, <3>1 DEF LeftAt, Active
  <2> QED
    BY <1>1, <2>1, <2>2, <2>3, <2>4, <2>5, WhereRunsGo
<1> QED
  BY <1>1, <1>2, <1>3, <1>4 DEF LeftAt, Nested

LEMMA EmptyFileStay ==
  ASSUME DeploymentInv, LookUpInv, [Next]_vars
  PROVE  EmptyFileOK'
<1>0. NoFile # <<>> /\ The' = The /\ OneByOne' = OneByOne
  BY SameDeployer DEF NoFile
<1>1. ASSUME The.local, ~The.removesFile, script'.doing = "idle" PROVE file' = NoFile
  <2>1. ~CheckOut
    BY <1>1, KeptFileSameProgram
  <2>2. ~Start /\ ~Proceeds /\ script' # Saving(script.at)
    BY <1>1, RunForms DEF Start, Proceeds
  <2>3. ~Kill
    <3>1. The.kills = 0 /\ kills \in 0..The.kills
      BY <1>1, StartFacts, ProcedureAssumption DEF CommitOK, The
    <3> QED
      BY <3>1, RunsDoNotThrow DEF Kill
  <2>4. ~ProposeAtOnce
    BY <1>1 DEF ProposeAtOnce, ExecutesAtOnce
  <2>5. CASE Propose
    <3>1. script' # Sending(1)
      BY <1>1, RunForms
    <3> QED
      BY <1>1, <2>5, <3>1 DEF Propose
  <2>6. CASE Send
    <3>1. script' # Sending(script.at + 1)
      BY <1>1, RunForms
    <3> QED
      BY <2>6, <3>1 DEF Send
  <2>7. CASE Confirm \/ Reject \/ UNCHANGED vars
    BY <1>1, <2>7 DEF Confirm, Reject, vars, EmptyFileOK, LookUpInv
  <2> QED
    BY <1>1, <2>1, <2>2, <2>3, <2>4, <2>5, <2>6, <2>7, WhereRunsGo
<1>2. ASSUME script'.doing # "idle", The.removesFile \/ OneByOne PROVE file' # <<>>
  <2>1. CASE Start
    <3>1. script.doing = "idle"
      BY <2>1, RunForms DEF Start
    <3>2. ~The.removesFile => file = NoFile
      BY <1>2, <3>1 DEF OneByOne, LookUpInv, EmptyFileOK, QuietOK
    <3> QED
      BY <1>0, <2>1, <3>2 DEF Start
  <2>2. CASE script.doing # "idle"
    <3>1. file # <<>>
      BY <1>2, <2>2 DEF LookUpInv, EmptyFileOK
    <3>2. Save => file' # <<>>
      BY SaveFacts, SavedIsAFile, StartFacts DEF Save
    <3>3. ~Kill
      BY <1>2, RunForms DEF Kill
    <3> QED
      BY <1>0, <3>1, <3>2, <3>3, FileChanges
  <2>3. CASE ~Start /\ script.doing = "idle"
    <3>1. ~Proceeds /\ ~(Propose \/ Send) /\ ~Stops /\ ~CheckOut
      BY <1>2, <2>3, RunForms DEF Proceeds, Active, Propose, Send, Examining, Stops, CheckOut
    <3>2. ~Confirm /\ ~Reject /\ ~(UNCHANGED vars)
      BY <1>2, <2>3 DEF Confirm, Reject, vars
    <3> QED
      BY <2>3, <3>1, <3>2, WhereRunsGo
  <2> QED
    BY <2>1, <2>2, <2>3
<1>3. ASSUME Unsaved', file' = <<>> PROVE \E s : LeftAt(s)'
  <2>1. ~OneByOne /\ ~The.removesFile /\ ~CheckOut
    BY <1>0, <1>3, KeptFileSameProgram DEF Unsaved
  <2>2. CASE file' = file
    <3>1. Unsaved /\ file = <<>>
      BY <1>3, <2>1, <2>2 DEF Unsaved
    <3>2. PICK s : LeftAt(s)
      BY <3>1 DEF LookUpInv, EmptyFileOK, LeftAt
    <3>3. LeftAt(s)'
      BY <2>2, <3>1, <3>2, LeftStays
    <3> QED
      BY <3>3
  <2>3. CASE Kill /\ script.doing = "save" /\ Step.by = "batch" /\ file = NoFile
    <3>1. Unsaved
      BY <2>1, <2>3 DEF Unsaved
    <3>2. /\ Active /\ script.at \in DOMAIN Target /\ Step = Target[script.at]
          /\ Compared(script.at)
      BY <2>3, SaveFacts DEF LookUpInv, LookUpsOK
    <3>3. ~InPlace(Step) /\ ~Nested(script.at)
      BY <2>3, <3>1, <3>2 DEF LookUpInv, DiffersOK, NestedOK
    <3>4. UNCHANGED <<deployer, deployed, chain, commit>> /\ script' = Idle
      BY <2>3 DEF Kill
    <3>5. PICK s : s = script.at
      OBVIOUS
    <3>6. Target' = Target /\ ~InPlace(Target[s])' /\ Compared(s)' /\ ~Nested(s)'
      BY <3>2, <3>3, <3>4, <3>5, StandingSettings DEF Nested
    <3>7. ~Active'
      BY <3>4, RunForms DEF Active
    <3>8. LeftAt(s)'
      BY <2>3, <3>2, <3>5, <3>6, <3>7 DEF LeftAt
    <3> QED
      BY <3>8
  <2>4. ~Save
    BY <1>3, SaveFacts, SavedIsAFile, StartFacts DEF Save
  <2> QED
    BY <1>0, <1>3, <2>2, <2>3, <2>4, FileChanges
<1>4. (\E s : LeftAt(s))' <=> \E s : LeftAt(s)'
  OBVIOUS
<1> QED
  BY <1>0, <1>1, <1>2, <1>3, <1>4 DEF EmptyFileOK, LeftAt

LEMMA ExecutedInPlace ==
  ASSUME DeploymentInv, Execute, NEW s, s = script.at, Compared(s), Target[s].by = "atOnce"
  PROVE  InPlace(Target[s])'
<1> DEFINE step == Target[s]
<1>1. /\ s \in DOMAIN Target /\ Step = step /\ step.do = "set"
      /\ UNCHANGED <<deployer, deployed, commit>>
      /\ chain' = Apply(chain, Tx(step))
  BY SaveFacts DEF Execute
<1>2. /\ step.compared = getAddress(step.value) /\ step.value \in Value
      /\ step.value.kind # "zero"
  BY <1>1, ProgramFacts, StartFacts DEF IsOrdered, IsProgram, IsSetting
<1>3. ~Missing(step.value) /\ step.value.kind # "undefined"
  BY DEF Compared, LacksAddress, Missing
<1>4. Resolved(step.compared) = getAddress(Resolved(step.value))
  BY <1>2, <1>3, StartFacts, ResolvedValue
<1>5. /\ Target' = Target /\ Cell(step)' = Cell(step)
      /\ Resolved(step.compared)' = Resolved(step.compared)
  BY <1>1 DEF Target, The, Cell, Resolved
<1>6. Cell(step) \in DOMAIN chain' /\ chain'[Cell(step)] = getAddress(Resolved(step.value))
  <2>1. Tx(step).cell = Cell(step) /\ Tx(step).value = getAddress(Resolved(step.value))
    BY DEF Tx
  <2> QED
    BY <1>1, <2>1, ApplyHere
<1> QED
  BY <1>4, <1>5, <1>6 DEF InPlace, Current

\* What was proposed at once was compared, and nothing else sets it.
LEMMA AtOnceFacts ==
  ASSUME DeploymentInv, LookUpsOK, QuietOK, AtOnceOK, Active, Waits,
         NEW j \in DOMAIN Target, j < script.at, Target[j].do = "set", Target[j].by = "atOnce"
  PROVE  Compared(j) /\ InPlace(Target[j]) /\ ~Writes(Cell(Target[j]))
<1>1. /\ script.at \in DOMAIN Target /\ script.at \in Nat /\ j \in Nat /\ j < script.at
      /\ Step = Target[script.at] /\ Settled(script.at)
  BY ActiveFacts, PlaceFacts DEF LookUpsOK
<1>2. ~LacksAddress(Target[j]) /\ InPlace(Target[j])
  BY DEF AtOnceOK
<1>3. Compared(j)
  <2>1. ~Absent(Target[j])
    BY ProgramFacts, StartFacts DEF IsOrdered, Absent
  <2>2. Settled(j)
    BY <1>1, PlaceFacts DEF Settled
  <2> QED
    BY <1>2, <2>1, <2>2 DEF Compared
<1>4. ~Send /\ ~Confirm
  <2>1. queue = <<>>
    BY DEF QuietOK, Active, Waits
  <2> QED
    BY <2>1 DEF Send, Confirm, Active
<1>5. ASSUME UpdateNew PROVE Cell(Step) # Cell(Target[j])
  <2>1. Step.do = "update"
    BY <1>5 DEF UpdateNew, Examining
  <2>2. Made(Tx(Target[j]), {"atOnce"}) /\ Tx(Target[j]).cell = Cell(Target[j])
    BY StartFacts, StepIsMade DEF Tx
  <2> QED
    BY <1>1, <2>1, <2>2, StartFacts, WaysApart
<1>6. ASSUME Execute PROVE Cell(Step) # Cell(Target[j])
  <2>1. Step.do = "set"
    BY <1>6, SaveFacts DEF Execute
  <2>2. ASSUME Cell(Step) = Cell(Target[j]) PROVE FALSE
    <3>1. SameCell(Step, Target[j])
      BY <2>2 DEF Cell, SameCell
    <3>2. script.at = j
      BY <1>1, <2>1, <3>1, ProgramFacts, StartFacts DEF IsOrdered
    <3> QED
      BY <1>1, <3>2
  <2> QED
    BY <2>2
<1> QED
  BY <1>2, <1>3, <1>4, <1>5, <1>6 DEF Writes

LEMMA AtOnceStay ==
  ASSUME DeploymentInv, LookUpInv, [Next]_vars
  PROVE  AtOnceOK'
<1> SUFFICES ASSUME Active', Waits,
                    NEW j \in DOMAIN Target', j < script'.at,
                    Target'[j].do = "set", Target'[j].by = "atOnce"
             PROVE  ~LacksAddress(Target[j])' /\ InPlace(Target[j])'
  BY SameDeployer DEF AtOnceOK, Waits
<1> USE DEF LookUpInv
<1>1. ~CheckOut /\ ~Stops /\ script'.doing \in {"read", "save"}
  BY RunForms DEF Active, CheckOut, Stops
<1>2. Target' = Target /\ j \in Nat \ {0} /\ j < script'.at
  BY <1>1, SameProgram, PlaceFacts
<1>3. CASE Start /\ script' = Reading(1)
  BY <1>2, <1>3, RunForms
<1>4. ASSUME Active, j < script.at
      PROVE  ~LacksAddress(Target[j])' /\ InPlace(Target[j])'
  <2>1. Compared(j) /\ InPlace(Target[j]) /\ ~Writes(Cell(Target[j]))
    BY <1>2, <1>4, AtOnceFacts
  <2> QED
    BY <1>1, <1>2, <2>1, ComparedStays, InPlaceStays DEF Compared
<1>5. CASE Proceeds /\ (DeployContract \/ UpdateNew \/ Require \/ Read \/ Execute \/ Save)
           /\ ~(j < script.at)
  <2>1. /\ script.at \in Nat /\ Step = Target[script.at] /\ IsArranged(Target)
        /\ script.at \in DOMAIN Target
    BY <1>5, ActiveFacts DEF Proceeds
  <2>2. CASE DeployContract \/ UpdateNew \/ Require \/ Save \/ Execute
    <3>1. script'.at = script.at + 1
      <4>1. ~Read
        BY <2>2 DEF Read, DeployContract, UpdateNew, Require, Execute, Save, Examining
      <4> QED
        BY <1>5, <4>1 DEF Proceeds
    <3>2. j = script.at
      BY <1>2, <1>5, <2>1, <3>1
    <3>3. Execute
      BY <1>2, <2>1, <2>2, <3>2 DEF DeployContract, UpdateNew, Require, Save, Examining
    <3>4. Compared(j)
      BY <3>2, <3>3 DEF Execute, LookUpsOK
    <3> QED
      BY <1>1, <1>2, <3>2, <3>3, <3>4, ExecutedInPlace, ComparedStays DEF Compared
  <2>3. CASE Read
    <3>1. Step.do = "set" /\ script' # Saving(script.at)
      BY <1>5, <2>3, RunForms DEF Read, Examining, Proceeds
    <3>2. /\ PassOver /\ (Absent(Step) \/ (~LacksAddress(Step) /\ InPlace(Step)))
          /\ Step.nested \in {0, 1}
          /\ Step.nested = 1 => Target[script.at + 1].by # "atOnce"
          /\ UNCHANGED <<deployer, deployed, chain, commit>>
      BY <2>1, <2>3, <3>1 DEF Read, IsArranged
    <3>3. script'.at = script.at + 1 + Step.nested
      BY <3>2, RunForms DEF PassOver
    <3>4. j = script.at
      BY <1>2, <1>5, <2>1, <3>2, <3>3
    <3>5. ~Absent(Step)
      BY <1>2, <2>1, <3>4, ProgramFacts, StartFacts DEF IsOrdered, Absent
    <3>6. ~LacksAddress(Target[j]) /\ InPlace(Target[j])
      BY <2>1, <3>2, <3>4, <3>5
    <3>7. InPlace(Target[j])'
      BY <3>2, <3>6, StandingSettings
    <3> QED
      BY <1>2, <3>2, <3>6, <3>7 DEF LacksAddress, Missing
  <2> QED
    BY <1>5, <2>2, <2>3
<1>6. CASE Read /\ script.doing = "read" /\ script' = Saving(script.at)
  BY <1>4, <1>6, RunForms DEF Active
<1>7. CASE Confirm \/ Reject \/ UNCHANGED vars
  BY <1>1, <1>4, <1>7 DEF Confirm, Reject, vars, Active
<1> QED
  BY <1>1, <1>3, <1>4, <1>5, <1>6, <1>7, WhereRunsGo DEF Proceeds

LEMMA InitEstablishesLookUps == Init => LookUpInv
<1> SUFFICES ASSUME Init PROVE LookUpInv
  OBVIOUS
<1>1. /\ script.doing = "idle" /\ queue = <<>> /\ file = NoFile /\ deployed = The.deployed
      /\ file # <<>>
  BY RunForms DEF Init, NoFile
<1> QED
  BY <1>1 DEF LookUpInv, LookUpsOK, WaysOK, QuietOK, UnsavedOK, DiffersOK, UnsentOK, NestedOK,
     EmptyFileOK, AtOnceOK, Active

LEMMA NextKeepsLookUps ==
  ASSUME DeploymentInv, LookUpInv, [Next]_vars
  PROVE  LookUpInv'
<1>1. LookUpsOK' /\ WaysOK' /\ QuietOK' /\ UnsavedOK'
  BY LookUpsStay, WaysStay, QuietStays, UnsavedStays DEF LookUpInv
<1>2. DiffersOK' /\ UnsentOK' /\ NestedOK'
  BY DiffersStay, UnsentStay, NestedStay DEF LookUpInv
<1> QED
  BY <1>1, <1>2, EmptyFileStay, AtOnceStay DEF LookUpInv

\* What a run has come past is recorded and in place, what it found to differ still
\* differs when it is executed, and a file that was left empty is filled before the
\* proposal: in every reachable state.
THEOREM LookUpInvariance == Spec => []LookUpInv
BY DeploymentInvariance, InitEstablishesLookUps, NextKeepsLookUps, PTL DEF Spec

LEMMA LookUpsSuffice == DeploymentInv /\ LookUpInv => NoRunFails
BY RunsDoNotThrow DEF NoRunFails

\* No run of a deployment throws: what it looks up is recorded or in the address book,
\* what it requires is in place, what it executes is not refused and the file that it
\* proposes parses, for all scripts, records, commits and runs that are killed.
THEOREM NoRunEverFails == Spec => []NoRunFails
BY DeploymentInvariance, LookUpInvariance, LookUpsSuffice, PTL

-----------------------------------------------------------------------------
(***************************************************************************)
(* Routes and feeds.                                                         *)
(***************************************************************************)

LEMMA FedByMore ==
  ASSUME NEW tx, NEW cells, NEW more, cells \subseteq more, Fed(tx, cells)
  PROVE  Fed(tx, more)
BY DEF Fed

\* The step after a route that needs a feed is the setting of that feed.
LEMMA FeedFollows ==
  ASSUME DeploymentInv, NEW s, NEW tx, Routes(s, tx), ~Fed(tx, {})
  PROVE  /\ s \in DOMAIN Target /\ s \in Nat /\ s + 1 \in DOMAIN Target
         /\ Target[s + 1].do = "set" /\ ~Absent(Target[s + 1])
         /\ InPlace(Target[s + 1]) => Cell(Target[s + 1]) \in DOMAIN chain
         /\ \A cells : Cell(Target[s + 1]) \in cells => Fed(tx, cells)
<1> DEFINE step == Target[s]
           next == Target[s + 1]
<1>1. /\ s \in DOMAIN Target /\ s \in Nat /\ step.do = "set" /\ step.method = "oracles"
      /\ ~Absent(step) /\ tx = Tx(step) /\ ~LacksAddress(step)
  BY PlaceFacts DEF Routes, Compared
<1>2. s + 1 \in DOMAIN Target
  BY <1>1, StartFacts, GoesOn
<1>3. tx.cell = Cell(step) /\ tx.cell[4] = step.token.id
  BY <1>1 DEF Tx, Cell
<1>4. tx.value = getAddress(Resolved(step.value)) /\ step.value \in Value
  BY <1>1, StartFacts DEF Tx, IsProgram, IsSetting
<1>5. tx.value.id = step.value.id
  BY <1>4 DEF getAddress, Resolved, Value
<1>6. step.value.id \in DOMAIN NeedsFeed
  BY <1>5 DEF Fed
<1>7. /\ step.value.kind = "deployment" /\ next.do = "set" /\ next.contract = step.value.id
      /\ next.method = NeedsFeed[step.value.id]
      /\ next.method \notin {"oracles", "stalePeriodOf"}
      /\ next.token.id = step.token.id /\ next.optional \subseteq step.optional
  BY <1>1, <1>6, ProgramFacts, StartFacts DEF HasFeeds
<1>8. tx.value.nth = deployed[step.value.id].nth
  BY <1>4, <1>7 DEF getAddress, Resolved, Value
<1>9. Cell(next) = <<tx.value.id, tx.value.nth, NeedsFeed[tx.value.id], tx.cell[4]>>
  BY <1>3, <1>5, <1>7, <1>8 DEF Cell
<1>10. ~Absent(next)
  BY <1>1, <1>7 DEF Absent
<1>11. ASSUME InPlace(next) PROVE Cell(next) \in DOMAIN chain
  <2>1. /\ next.value \in Value /\ next.value.kind # "zero"
        /\ next.compared \in {next.value, getAddress(next.value)}
    BY <1>2, <1>7, ProgramFacts, StartFacts DEF IsProgram, IsSetting, IsArranged
  <2>2. Resolved(next.compared).kind # "zero"
    BY <2>1 DEF Resolved, getAddress, Value
  <2>3. Resolved(next.compared) # AddressZero
    BY <2>2 DEF AddressZero
  <2> QED
    BY <1>7, <1>11, <2>3 DEF InPlace, Current
<1> QED
  BY <1>1, <1>2, <1>7, <1>9, <1>10, <1>11 DEF Fed

LEMMA RoutesStand ==
  ASSUME DeploymentInv, [Next]_vars, ~CheckOut, LookUpsOK, NEW s, NEW tx, Routes(s, tx)
  PROVE  Routes(s, tx)'
BY ComparedStays, SameProgram DEF Routes

\* A run proceeds to the step after the setting that it is at, unless that is in place.
LEMMA Beyond ==
  ASSUME DeploymentInv, [Next]_vars, Proceeds,
         DeployContract \/ UpdateNew \/ Require \/ Read \/ Execute \/ Save
  PROVE  /\ script.at \in DOMAIN Target /\ script.at \in Nat /\ Step = Target[script.at]
         /\ \/ script'.at = script.at + 1
            \/ script'.at = script.at + 2 /\ Read
         /\ Step.do = "set" => Read \/ Execute \/ Save
         /\ Read => /\ UNCHANGED <<chain, deployed, file>>
                    /\ Absent(Step) \/ InPlace(Step)
<1>1. /\ script.at \in DOMAIN Target /\ script.at \in Nat /\ Step = Target[script.at]
      /\ IsArranged(Target)
  BY ActiveFacts DEF Proceeds
<1>2. Step.do = "set" => Read \/ Execute \/ Save
  BY DEF DeployContract, UpdateNew, Require, Examining
<1>3. ASSUME Read
      PROVE  /\ UNCHANGED <<chain, deployed, file>>
             /\ Absent(Step) \/ InPlace(Step)
             /\ Step.nested \in {0, 1}
  <2>1. script' # Saving(script.at)
    BY RunForms DEF Proceeds
  <2> QED
    BY <1>1, <1>3, <2>1 DEF Read, IsArranged, Examining
<1> QED
  BY <1>1, <1>2, <1>3 DEF Proceeds

LEMMA Unkilled ==
  ASSUME DeploymentInv, LookUpInv, [Next]_vars, ~OneByOne \/ kills' = 0
  PROVE  /\ ~OneByOne \/ kills = 0
         /\ OneByOne => ~Kill
<1>1. kills \in Nat
  BY StartFacts, DeployersAssumption DEF CommitOK, The
<1>2. Kill => kills' = kills + 1
  BY RunsDoNotThrow DEF Kill
<1>3. ~Kill => kills' = kills
  BY DEF Next, vars, CheckOut, Start, RunSteps, DeployContract, UpdateNew, Require, Read,
     Execute, Save, ProposeAtOnce, Propose, Send, Confirm, Reject
<1> QED
  BY <1>1, <1>2, <1>3

\* What is set is what was there, or is a route only in a transaction sent.
LEMMA ChainBecomes ==
  ASSUME DeploymentInv, [Next]_vars, NEW cell \in DOMAIN chain'
  PROVE  \/ cell \in DOMAIN chain /\ Setting(cell)' = Setting(cell)
         \/ cell[3] # "oracles"
         \/ Execute /\ Setting(cell)' = Tx(Step)
         \/ Send /\ script.at \in DOMAIN file /\ Setting(cell)' = file[script.at]
         \/ Confirm /\ \E i \in DOMAIN Head(queue) : Setting(cell)' = Head(queue)[i]
<1>1. ASSUME cell \in DOMAIN chain, chain'[cell] = chain[cell]
      PROVE  Setting(cell)' = Setting(cell)
  BY <1>1 DEF Setting
<1>2. ASSUME NEW tx \in Transaction, tx.cell = cell, chain'[cell] = tx.value
      PROVE  Setting(cell)' = tx
  BY <1>2 DEF Setting, Transaction
<1>3. CASE UNCHANGED chain
  BY <1>1, <1>3
<1>4. CASE Redeploys
  <2> DEFINE nth == IF Step.name \in DOMAIN deployed THEN deployed[Step.name].nth + 1 ELSE 1
             constructed ==
               [i \in DOMAIN Step.sets |->
                  [cell |-> <<Step.name, nth, Step.sets[i].method, Step.sets[i].token.id>>,
                   value |-> getAddress(Resolved(Step.sets[i].value))]]
  <2>1. chain' = After(chain, constructed)
    BY <1>4 DEF Redeploys, DeployContract
  <2>2. /\ script.at \in DOMAIN Target /\ Step = Target[script.at] /\ Step.do = "deploy"
        /\ HasFeeds(Target) /\ IsProgram(Target)
    BY <1>4, RedeployFacts, ActiveFacts
  <2>3. PICK n \in Nat : DOMAIN Step.sets = 1..n
    BY <2>2 DEF IsProgram
  <2>4. \A j \in DOMAIN Step.sets : Step.sets[j].method # "oracles"
    BY <2>2 DEF HasFeeds
  <2>5. DOMAIN constructed = 1..n
        /\ \A i \in DOMAIN constructed : constructed[i].cell[3] # "oracles"
    BY <2>3, <2>4
  <2> HIDE DEF nth, constructed
  <2>6. \/ cell \in DOMAIN chain /\ chain'[cell] = chain[cell]
        \/ \E i \in DOMAIN constructed : constructed[i].cell = cell
    BY <2>1, <2>5, AfterValue
  <2> QED
    BY <1>1, <2>5, <2>6
<1>5. CASE UpdateNew /\ script.newly
  <2>1. /\ script.at \in DOMAIN Target /\ Step = Target[script.at] /\ Step.do = "update"
        /\ HasFeeds(Target)
    BY <1>5, ActiveFacts DEF UpdateNew, Examining, Active
  <2>2. Step.method # "oracles"
    BY <2>1 DEF HasFeeds
  <2>3. chain' = Apply(chain, Tx(Step)) /\ Tx(Step).cell[3] = Step.method
    BY <1>5 DEF UpdateNew, Tx, Cell
  <2> QED
    BY <1>1, <2>2, <2>3, ApplyValue
<1>6. CASE Execute
  <2>1. chain' = Apply(chain, Tx(Step)) /\ Tx(Step) \in Transaction
    BY <1>6, SaveFacts DEF Execute
  <2> QED
    BY <1>1, <1>2, <1>6, <2>1, ApplyValue
<1>7. CASE Send /\ ~(script.at > Len(file))
  <2>1. file \in Seq(Transaction) /\ script.at \in Nat \ {0}
    BY <1>7, StartFacts DEF Send, RunOK, FileOK
  <2>2. script.at \in DOMAIN file /\ chain' = Apply(chain, file[script.at])
    BY <1>7, <2>1 DEF Send
  <2>3. file[script.at] \in Transaction
    BY <2>1, <2>2
  <2> QED
    BY <1>1, <1>2, <1>7, <2>2, <2>3, ApplyValue
<1>8. CASE Confirm
  <2>1. Head(queue) \in Seq(Transaction) /\ chain' = After(chain, Head(queue))
    BY <1>8, StartFacts, HeadIsABatch DEF Confirm
  <2>2. PICK n \in Nat : DOMAIN Head(queue) = 1..n
    BY <2>1
  <2>3. \/ cell \in DOMAIN chain /\ chain'[cell] = chain[cell]
        \/ \E i \in DOMAIN Head(queue) :
             Head(queue)[i].cell = cell /\ chain'[cell] = Head(queue)[i].value
    BY <2>1, <2>2, AfterValue
  <2>4. \A i \in DOMAIN Head(queue) : Head(queue)[i] \in Transaction
    BY <2>1
  <2> QED
    BY <1>1, <1>2, <1>8, <2>3, <2>4
<1> QED
  BY <1>3, <1>4, <1>5, <1>6, <1>7, <1>8
  DEF Redeploys, Next, vars, CheckOut, Start, RunSteps, DeployContract, UpdateNew, Require,
      Read, Save, ProposeAtOnce, Propose, Send, Kill, Reject

\* What a transaction lacked is there once the step after its route is done.
LEMMA FedOnward ==
  ASSUME DeploymentInv, [Next]_vars, Proceeds, ~Save,
         DeployContract \/ UpdateNew \/ Require \/ Read \/ Execute,
         NEW s, NEW tx, Routes(s, tx), script.at = s + 1
  PROVE  Fed(tx, DOMAIN chain')
<1> SUFFICES ASSUME ~Fed(tx, {}) PROVE Fed(tx, DOMAIN chain')
  BY FedByMore
<1>1. /\ s + 1 \in DOMAIN Target /\ Target[s + 1].do = "set" /\ ~Absent(Target[s + 1])
      /\ InPlace(Target[s + 1]) => Cell(Target[s + 1]) \in DOMAIN chain
      /\ \A cells : Cell(Target[s + 1]) \in cells => Fed(tx, cells)
  BY FeedFollows
<1>2. /\ Step = Target[script.at] /\ (Step.do = "set" => Read \/ Execute \/ Save)
      /\ Read => UNCHANGED chain /\ (Absent(Step) \/ InPlace(Step))
  BY Beyond
<1>3. CASE Read
  BY <1>1, <1>2, <1>3
<1>4. CASE Execute
  <2>1. chain' = Apply(chain, Tx(Step)) /\ Tx(Step).cell = Cell(Step)
    BY <1>4 DEF Execute, Tx
  <2>2. Cell(Step) \in DOMAIN chain'
    BY <2>1, ApplyHere
  <2> QED
    BY <1>1, <1>2, <2>2
<1> QED
  BY <1>1, <1>2, <1>3, <1>4

\* A setting that stays on the chain.
LEMMA KeptIsFed ==
  ASSUME DeploymentInv, LookUpInv, [Next]_vars, AllFed, OneByOne => ~Kill,
         NEW cell \in DOMAIN chain, Setting(cell)' = Setting(cell)
  PROVE  \/ Fed(Setting(cell), DOMAIN chain')
         \/ The.signer /\ Active' /\ \E s \in DOMAIN Target' :
              Routes(s, Setting(cell))' /\ script'.at = s + 1
         \/ script'.doing = "send" /\ Fed(Setting(cell), CellsOf(file'))
<1> DEFINE tx == Setting(cell)
<1>1. DOMAIN chain \subseteq DOMAIN chain'
  BY CellsStay
<1>2. CASE Fed(tx, DOMAIN chain)
  BY <1>1, <1>2, FedByMore
<1>3. ASSUME The.signer, Active, NEW s \in DOMAIN Target, Routes(s, tx), script.at = s + 1,
             ~Fed(tx, DOMAIN chain')
      PROVE  Active' /\ \E q \in DOMAIN Target' :
               Routes(q, Setting(cell))' /\ script'.at = q + 1
  <2>1. OneByOne /\ queue = <<>> /\ script # Idle
    BY <1>3, RunForms DEF OneByOne, LookUpInv, QuietOK, Active
  <2>2. ~CheckOut /\ ~Confirm /\ ~Reject /\ ~Kill /\ ~Save /\ ~Send /\ ~ProposeAtOnce
    BY <1>3, <2>1
    DEF CheckOut, Confirm, Reject, Save, Send, Active, ProposeAtOnce, ExecutesAtOnce
  <2>3. ~Propose
    <3>1. Target[s + 1].do = "set"
      BY <1>3, FeedFollows, FedByMore
    <3> QED
      BY <1>3, <3>1, ActiveFacts DEF Propose, Examining
  <2>4. ~(Proceeds /\ (DeployContract \/ UpdateNew \/ Require \/ Read \/ Execute \/ Save))
    BY <1>3, <2>2, FedOnward
  <2>5. CASE Read /\ script' = Saving(script.at)
    <3>1. script'.at = script.at /\ Active'
      BY <2>5, RunForms DEF Active
    <3>2. s \in DOMAIN Target' /\ Routes(s, tx)'
      BY <1>3, <2>2, RoutesStand, SameProgram DEF LookUpInv
    <3> QED
      BY <1>3, <3>1, <3>2
  <2>6. CASE UNCHANGED vars
    <3>1. s \in DOMAIN Target' /\ Routes(s, tx)' /\ Active' /\ script' = script
      BY <1>3, <2>2, <2>6, RoutesStand, SameProgram DEF LookUpInv, Active, vars
    <3> QED
      BY <1>3, <3>1
  <2> QED
    BY <2>1, <2>2, <2>3, <2>4, <2>5, <2>6, WhereRunsGo
<1>4. ASSUME script.doing = "send", Fed(tx, CellsOf(file)), ~Fed(tx, DOMAIN chain')
      PROVE  script'.doing = "send" /\ Fed(tx, CellsOf(file'))
  <2>1. OneByOne /\ queue = <<>> /\ script # Idle
    BY <1>4, RunForms DEF OneByOne, LookUpInv, QuietOK
  <2>2. ~CheckOut /\ ~Start /\ ~Confirm /\ ~Reject /\ ~Kill /\ ~Active
    BY <1>4, <2>1 DEF CheckOut, Start, Confirm, Reject, Active
  <2>3. ~ProposeAtOnce /\ ~Propose /\ ~Read
    BY <1>4 DEF ProposeAtOnce, Propose, Read, Examining
  <2>4. CASE UNCHANGED vars
    BY <1>4, <2>4 DEF vars
  <2>5. CASE Send
    <3>1. file \in Seq(Transaction) /\ file # NoFile /\ script.at \in Nat
      BY <1>4, StartFacts DEF RunOK, FileOK
    <3>2. ~(script.at > Len(file))
      <4>1. ASSUME script.at > Len(file) PROVE FALSE
        <5>1. \A i \in DOMAIN file : file[i].cell \in DOMAIN chain
          BY <1>4, <3>1, <4>1 DEF AllFed, SentOK
        <5>2. CellsOf(file) \subseteq DOMAIN chain'
          BY <1>1, <5>1 DEF CellsOf
        <5> QED
          BY <1>4, <5>2, FedByMore
      <4> QED
        BY <4>1
    <3>3. script' = Sending(script.at + 1) /\ file' = file
      BY <2>5, <3>2 DEF Send
    <3> QED
      BY <1>4, <3>3, RunForms
  <2> QED
    BY <2>2, <2>3, <2>4, <2>5, WhereRunsGo DEF Proceeds
<1>5. \/ Fed(tx, DOMAIN chain)
      \/ The.signer /\ Active /\ \E s \in DOMAIN Target : Routes(s, tx) /\ script.at = s + 1
      \/ script.doing = "send" /\ Fed(tx, CellsOf(file))
  BY DEF AllFed, ChainFed
<1> QED
  BY <1>2, <1>3, <1>4, <1>5

LEMMA ChainStaysFed ==
  ASSUME DeploymentInv, LookUpInv, [Next]_vars, AllFed, OneByOne => ~Kill
  PROVE  ChainFed'
<1> SUFFICES ASSUME NEW cell \in DOMAIN chain'
             PROVE  \/ Fed(Setting(cell)', DOMAIN chain')
                    \/ The.signer /\ Active' /\ \E s \in DOMAIN Target' :
                         Routes(s, Setting(cell))' /\ script'.at = s + 1
                    \/ script'.doing = "send" /\ Fed(Setting(cell)', CellsOf(file'))
  BY SameDeployer DEF ChainFed, Fed, CellsOf
<1>1. DOMAIN chain \subseteq DOMAIN chain'
  BY CellsStay
<1>2. CASE cell \in DOMAIN chain /\ Setting(cell)' = Setting(cell)
  BY <1>2, KeptIsFed
<1>3. CASE cell[3] # "oracles"
  BY <1>3 DEF Fed, Setting
<1>4. CASE Execute /\ Setting(cell)' = Tx(Step)
  <2>1. /\ Step = Target[script.at] /\ script.at \in DOMAIN Target /\ Step.do = "set"
        /\ Compared(script.at)
    BY <1>4, SaveFacts DEF Execute, LookUpInv, LookUpsOK
  <2>2. CASE Step.method # "oracles"
    BY <1>4, <2>2 DEF Fed, Tx, Cell
  <2>3. CASE Step.method = "oracles"
    <3>1. The.signer
      BY <1>4, <2>1, <2>3, ProgramFacts, StartFacts DEF HasFeeds, Execute, ExecutesAtOnce
    <3>2. PICK s : s = script.at
      OBVIOUS
    <3>3. script' = Reading(script.at + 1) /\ ~CheckOut
      <4>1. script.doing # "idle"
        BY <1>4 DEF Execute
      <4> QED
        BY <1>4, <4>1, RunForms DEF Execute, GoOn, CheckOut
    <3>4. Compared(s)' /\ Tx(Target[s])' = Tx(Target[s]) /\ Target' = Target
      BY <2>1, <3>2, <3>3, ComparedStays, SameProgram DEF LookUpInv
    <3>5. Routes(s, Setting(cell))'
      BY <1>4, <2>1, <2>3, <3>2, <3>4 DEF Routes
    <3>6. Active' /\ script'.at = s + 1
      BY <3>2, <3>3, RunForms DEF Active
    <3> QED
      BY <2>1, <3>1, <3>2, <3>4, <3>5, <3>6
  <2> QED
    BY <2>2, <2>3
<1>5. CASE Send /\ script.at \in DOMAIN file /\ Setting(cell)' = file[script.at]
  <2>1. file # NoFile /\ file \in Seq(Transaction) /\ script.doing = "send"
    BY <1>5, StartFacts DEF Send, RunOK, FileOK
  <2>2. Fed(file[script.at], DOMAIN chain \cup CellsOf(file))
    BY <1>5, <2>1 DEF AllFed, FileFed
  <2>3. file' = file /\ script'.doing = "send"
    BY <1>5, <2>1, RunForms DEF Send
  <2> QED
    BY <1>1, <1>5, <2>2, <2>3 DEF Fed
<1>6. ASSUME Confirm, NEW i \in DOMAIN Head(queue), Setting(cell)' = Head(queue)[i]
      PROVE  Fed(Setting(cell)', DOMAIN chain')
  <2>1. 1 \in DOMAIN queue /\ queue[1] = Head(queue)
    BY <1>6, StartFacts, Dequeued DEF Confirm
  <2>2. Fed(Head(queue)[i], DOMAIN chain \cup CellsOf(Head(queue)))
    BY <1>6, <2>1 DEF AllFed, QueueFed
  <2>3. DOMAIN chain' = DOMAIN chain \cup CellsOf(Head(queue))
    BY <1>6, AfterDomain DEF Confirm, CellsOf
  <2> QED
    BY <1>6, <2>2, <2>3
<1> QED
  BY <1>2, <1>3, <1>4, <1>5, <1>6, ChainBecomes

\* A run that comes to the proposal has saved the feeds of its routes.
LEMMA FileIsFed ==
  ASSUME DeploymentInv, LookUpInv, AllFed, Propose, file # NoFile, NEW i \in DOMAIN file
  PROVE  Fed(file[i], DOMAIN chain \cup CellsOf(file))
<1>1. script.doing = "read" /\ Step.do = "propose" /\ Active
  BY DEF Propose, Examining, Active
<1>2. SUFFICES ASSUME NEW s \in DOMAIN Target, Routes(s, file[i]), script.at <= s + 1,
                      ~Fed(file[i], {})
               PROVE  FALSE
  BY <1>1, FedByMore DEF AllFed, FileFed, Pending
<1>3. s \in Nat /\ s + 1 \in DOMAIN Target /\ Target[s + 1].do = "set"
  BY <1>2, FeedFollows
<1>4. /\ script.at \in DOMAIN Target /\ script.at \in Nat /\ Step = Target[script.at]
      /\ IsArranged(Target)
  BY <1>1, ActiveFacts
<1>5. s + 1 <= script.at
  BY <1>1, <1>3, <1>4 DEF IsArranged
<1>6. script.at = s + 1
  BY <1>2, <1>3, <1>4, <1>5
<1> QED
  BY <1>1, <1>3, <1>4, <1>6

LEMMA QueueStaysFed ==
  ASSUME DeploymentInv, LookUpInv, [Next]_vars, AllFed
  PROVE  QueueFed'
<1> SUFFICES ASSUME NEW k \in DOMAIN queue', NEW i \in DOMAIN queue'[k]
             PROVE  Fed(queue'[k][i], DOMAIN chain' \cup CellsOf(queue'[k]))
  BY DEF QueueFed, Fed, CellsOf
<1>1. DOMAIN chain \subseteq DOMAIN chain'
  BY CellsStay
<1>2. ASSUME NEW n \in DOMAIN queue, queue'[k] = queue[n]
      PROVE  Fed(queue'[k][i], DOMAIN chain' \cup CellsOf(queue'[k]))
  <2>1. Fed(queue[n][i], DOMAIN chain \cup CellsOf(queue[n]))
    BY <1>2 DEF AllFed, QueueFed
  <2> QED
    BY <1>1, <1>2, <2>1 DEF Fed
<1>3. CASE queue' = queue
  BY <1>2, <1>3
<1>4. CASE ProposeAtOnce /\ queue' = Append(queue, <<Tx(Step)>>)
  <2>1. /\ script.at \in DOMAIN Target /\ Step = Target[script.at] /\ Step.do = "set"
        /\ Step.by = "atOnce"
    BY <1>4, SaveFacts DEF ProposeAtOnce
  <2>2. Step.method # "oracles"
    BY <2>1, ProgramFacts, StartFacts DEF HasFeeds
  <2>3. Tx(Step).cell[3] # "oracles"
    BY <2>2 DEF Tx, Cell
  <2>4. queue'[k] = <<Tx(Step)>> \/ (k \in DOMAIN queue /\ queue'[k] = queue[k])
    BY <1>4, StartFacts, Queued
  <2>5. i \in DOMAIN <<Tx(Step)>> => <<Tx(Step)>>[i] = Tx(Step)
    OBVIOUS
  <2> QED
    BY <1>2, <2>3, <2>4, <2>5 DEF Fed
<1>5. CASE Propose /\ file # NoFile /\ queue' = Append(queue, file)
  <2>1. queue'[k] = file \/ (k \in DOMAIN queue /\ queue'[k] = queue[k])
    BY <1>5, StartFacts, Queued
  <2>2. ASSUME queue'[k] = file PROVE Fed(queue'[k][i], DOMAIN chain \cup CellsOf(queue'[k]))
    BY <1>5, <2>2, FileIsFed
  <2> QED
    BY <1>1, <1>2, <2>1, <2>2 DEF Fed
<1>6. CASE queue # <<>> /\ queue' = Tail(queue)
  BY <1>2, <1>6, StartFacts, Dequeued
<1> QED
  BY <1>3, <1>4, <1>5, <1>6, QueueChanges

LEMMA SentStays ==
  ASSUME DeploymentInv, LookUpInv, [Next]_vars, AllFed
  PROVE  SentOK'
<1> SUFFICES ASSUME script'.doing = "send", NEW i \in DOMAIN file', i < script'.at
             PROVE  file'[i].cell \in DOMAIN chain'
  BY DEF SentOK
<1>1. DOMAIN chain \subseteq DOMAIN chain'
  BY CellsStay
<1>2. /\ ~Stops /\ ~Proceeds
      /\ script' # Reading(1) /\ script' # Saving(script.at) /\ script' # Idle
  BY RunForms DEF Stops, Proceeds
<1>3. CASE Propose
  <2>1. file' = file /\ file # NoFile /\ script' = Sending(1)
    BY <1>2, <1>3 DEF Propose
  <2>2. file \in Seq(Transaction)
    BY <2>1, StartFacts DEF FileOK
  <2>3. i \in Nat \ {0} /\ i < 1
    BY <2>1, <2>2, RunForms
  <2> QED
    BY <2>3
<1>4. CASE Send
  <2>1. file # NoFile /\ file \in Seq(Transaction) /\ script.doing = "send" /\ script.at \in Nat
    BY <1>4, StartFacts DEF Send, RunOK, FileOK
  <2>2. /\ file' = file /\ script' = Sending(script.at + 1)
        /\ chain' = Apply(chain, file[script.at])
    BY <1>2, <1>4 DEF Send
  <2>3. i \in Nat /\ i \in DOMAIN file /\ i < script.at + 1
    BY <2>1, <2>2, RunForms
  <2>4. CASE i < script.at
    BY <1>1, <2>1, <2>2, <2>3, <2>4 DEF AllFed, SentOK
  <2>5. CASE i = script.at
    BY <2>2, <2>5, ApplyHere
  <2> QED
    BY <2>1, <2>3, <2>4, <2>5
<1>5. CASE Confirm \/ Reject \/ UNCHANGED vars
  <2>1. script' = script /\ file' = file
    BY <1>5 DEF Confirm, Reject, vars
  <2> QED
    BY <1>1, <2>1 DEF AllFed, SentOK
<1> QED
  BY <1>2, <1>3, <1>4, <1>5, WhereRunsGo

LEMMA RouteInPlace ==
  ASSUME DeploymentInv, NEW s, NEW tx, Routes(s, tx), ~Fed(tx, {}), InPlace(Target[s])
  PROVE  tx.cell \in DOMAIN chain /\ Setting(tx.cell) = tx
<1> DEFINE step == Target[s]
<1>1. /\ s \in DOMAIN Target /\ step.do = "set" /\ step.method = "oracles" /\ tx = Tx(step)
  BY DEF Routes, Compared
<1>2. /\ tx = [cell |-> Cell(step), value |-> getAddress(Resolved(step.value))]
      /\ tx.cell = Cell(step) /\ tx.value = getAddress(Resolved(step.value))
  BY <1>1 DEF Tx
<1>3. /\ step.value \in Value /\ step.value.kind # "zero"
      /\ step.compared \in {step.value, getAddress(step.value)}
  BY <1>1, ProgramFacts, StartFacts DEF IsProgram, IsSetting, IsArranged
<1>4. tx.value.id = step.value.id
  BY <1>2, <1>3 DEF getAddress, Resolved, Value
<1>5. step.value.kind = "deployment" /\ step.value.checksummed
  BY <1>1, <1>4, ProgramFacts, StartFacts DEF HasFeeds, Fed
<1>6. step.value = [kind |-> step.value.kind, id |-> step.value.id, nth |-> step.value.nth,
                    checksummed |-> TRUE]
  BY <1>3, <1>5 DEF Value
<1>7. /\ getAddress(step.value) = step.value
      /\ getAddress(Resolved(step.value)) = Resolved(step.value)
  BY <1>5, <1>6 DEF getAddress, Resolved
<1>8. Resolved(step.compared) = tx.value
  BY <1>2, <1>3, <1>7
<1>9. tx.value.kind # "zero"
  BY <1>2, <1>3 DEF getAddress, Resolved, Value
<1>10. tx.value # AddressZero
  BY <1>9 DEF AddressZero
<1>11. Cell(step) \in DOMAIN chain /\ chain[Cell(step)] = tx.value
  BY <1>1, <1>8, <1>10 DEF InPlace, Current
<1> QED
  BY <1>2, <1>11 DEF Setting

LEMMA PendingStays ==
  ASSUME DeploymentInv, LookUpInv, [Next]_vars, ~CheckOut, AllFed,
         file # NoFile, script.doing # "send",
         NEW s, NEW tx, Pending(s, tx), ~Fed(tx, DOMAIN chain' \cup CellsOf(file'))
  PROVE  Routes(s, tx)' /\ script'.doing # "send" /\ (Active' => script'.at <= s + 1)
<1>1. /\ ~Fed(tx, {}) /\ ~Fed(tx, DOMAIN chain')
      /\ ~Fed(tx, DOMAIN chain) /\ ~Fed(tx, CellsOf(file'))
  BY CellsStay, FedByMore
<1>2. /\ Routes(s, tx) /\ s \in DOMAIN Target /\ s \in Nat
      /\ s + 1 \in DOMAIN Target /\ Target[s + 1].do = "set"
      /\ \A cells : Cell(Target[s + 1]) \in cells => Fed(tx, cells)
  BY <1>1, FeedFollows DEF Pending
<1>3. Routes(s, tx)'
  BY <1>2, RoutesStand DEF LookUpInv
<1>4. ASSUME Active
      PROVE  /\ script.at \in DOMAIN Target /\ script.at \in Nat /\ Step = Target[script.at]
             /\ script.at <= s + 1 /\ IsArranged(Target)
  BY <1>4, ActiveFacts DEF Pending
<1>5. ~Send /\ ~Propose
  <2>1. ASSUME Propose PROVE FALSE
    <3>1. Active /\ Step.do = "propose"
      BY <2>1 DEF Propose, Examining, Active
    <3>2. s + 1 <= script.at
      BY <1>2, <1>4, <3>1 DEF IsArranged
    <3>3. script.at = s + 1
      BY <1>2, <1>4, <3>1, <3>2
    <3> QED
      BY <1>2, <1>4, <3>1, <3>3
  <2> QED
    BY <2>1 DEF Send
<1>6. CASE Start /\ script' = Reading(1)
  BY <1>2, <1>3, <1>6, RunForms
<1>7. CASE Proceeds /\ (DeployContract \/ UpdateNew \/ Require \/ Read \/ Execute \/ Save)
  <2>1. /\ script.at \in Nat /\ script.at <= s + 1 /\ Step = Target[script.at]
        /\ script'.at = script.at + 1 \/ (script'.at = script.at + 2 /\ Read)
        /\ Read => Absent(Step) \/ InPlace(Step)
    BY <1>4, <1>7, Beyond DEF Proceeds
  <2>2. script.at # s + 1
    <3>1. CASE Save
      <4>1. /\ Step = Target[script.at] /\ IsRecorded(Tx(Step).cell, deployed)
            /\ file' = Saved(Tx(Step))
        BY <3>1, SaveFacts DEF Save
      <4>2. \E n \in DOMAIN file' : file'[n] = Tx(Step)
        BY <4>1, StartFacts, SavedIsAFile
      <4>3. Cell(Step) \in CellsOf(file')
        BY <4>2 DEF CellsOf, Tx
      <4> QED
        BY <1>1, <1>2, <4>1, <4>3
    <3>2. CASE ~Save
      BY <1>1, <1>2, <1>7, <3>2, FedOnward
    <3> QED
      BY <3>1, <3>2
  <2>3. ASSUME Read, script.at = s PROVE FALSE
    <3>1. InPlace(Target[s])
      BY <1>2, <2>1, <2>3 DEF Routes, Compared
    <3>2. tx.cell \in DOMAIN chain /\ Setting(tx.cell) = tx
      BY <1>1, <1>2, <3>1, RouteInPlace
    <3>3. ~The.signer
      BY DEF LookUpInv, QuietOK
    <3> QED
      BY <1>1, <3>2, <3>3 DEF AllFed, ChainFed
  <2>4. script'.at <= s + 1 /\ script'.doing = "read"
    BY <1>2, <1>7, <2>1, <2>2, <2>3 DEF Proceeds
  <2> QED
    BY <1>3, <2>4
<1>8. CASE Read /\ script.doing = "read" /\ script' = Saving(script.at)
  BY <1>3, <1>4, <1>8, RunForms DEF Active
<1>9. CASE Stops
  BY <1>3, <1>9, RunForms DEF Stops, Active
<1>10. CASE Confirm \/ Reject \/ UNCHANGED vars
  <2>1. script' = script
    BY <1>10 DEF Confirm, Reject, vars
  <2> QED
    BY <1>3, <2>1 DEF Pending, Active
<1> QED
  BY <1>5, <1>6, <1>7, <1>8, <1>9, <1>10, WhereRunsGo

LEMMA OnlyStartStarts ==
  ASSUME DeploymentInv, [Next]_vars, script.doing = "idle", script'.doing # "idle"
  PROVE  Start
<1>1. ~Proceeds /\ ~(Propose \/ Send) /\ ~Stops /\ ~CheckOut
  BY RunForms DEF Proceeds, Active, Propose, Send, Examining, Stops, CheckOut
<1>2. ~Confirm /\ ~Reject /\ ~(UNCHANGED vars)
  BY DEF Confirm, Reject, vars
<1> QED
  BY <1>1, <1>2, WhereRunsGo

LEMMA FileStaysFed ==
  ASSUME DeploymentInv, LookUpInv, [Next]_vars, AllFed
  PROVE  FileFed'
<1> SUFFICES ASSUME file' # NoFile, script'.doing # "idle" \/ ~The.removesFile,
                    NEW i \in DOMAIN file',
                    ~Fed(file'[i], DOMAIN chain' \cup CellsOf(file'))
             PROVE  /\ script'.doing # "send"
                    /\ \E s \in DOMAIN Target' :
                         Routes(s, file[i])' /\ (Active' => script'.at <= s + 1)
  BY SameDeployer DEF FileFed, Pending, Fed, CellsOf
<1>1. PICK tx : tx = file'[i]
  OBVIOUS
<1>2. ~CheckOut /\ Target' = Target
  <2>1. CheckOut => script'.doing = "idle"
    BY RunForms DEF CheckOut
  <2> QED
    BY <2>1, KeptFileSameProgram, SameProgram
<1>3. ASSUME file # NoFile, i \in DOMAIN file, file[i] = tx,
             CellsOf(file) \subseteq CellsOf(file')
      PROVE  /\ script'.doing # "send"
             /\ \E s \in DOMAIN Target' :
                  Routes(s, tx)' /\ (Active' => script'.at <= s + 1)
  <2>1. script.doing # "idle" \/ ~The.removesFile
    <3>1. Start /\ The.removesFile => file' = NoFile
      BY DEF Start
    <3> QED
      BY <3>1, OnlyStartStarts
  <2>2. ~Fed(tx, DOMAIN chain \cup CellsOf(file)) /\ ~Fed(tx, DOMAIN chain' \cup CellsOf(file'))
    BY <1>1, <1>3, CellsStay DEF Fed
  <2>3. script.doing # "send" /\ \E s \in DOMAIN Target : Pending(s, tx)
    BY <1>3, <2>1, <2>2 DEF AllFed, FileFed, Pending
  <2>4. PICK s \in DOMAIN Target : Pending(s, tx)
    BY <2>3
  <2>5. Routes(s, tx)' /\ script'.doing # "send" /\ (Active' => script'.at <= s + 1)
    BY <1>2, <1>3, <2>2, <2>3, <2>4, PendingStays
  <2> QED
    BY <1>2, <2>5
<1>4. ASSUME Save, tx = Tx(Step)
      PROVE  /\ script'.doing # "send"
             /\ \E s \in DOMAIN Target' :
                  Routes(s, tx)' /\ (Active' => script'.at <= s + 1)
  <2>1. /\ script.at \in DOMAIN Target /\ script.at \in Nat /\ Step = Target[script.at]
        /\ Compared(script.at)
    BY <1>4, SaveFacts, StartFacts DEF Save, LookUpInv, LookUpsOK
  <2>2. Step.method = "oracles"
    BY <1>1, <1>4 DEF Fed, Tx, Cell
  <2>3. PICK s : s = script.at
    OBVIOUS
  <2>4. Routes(s, tx)
    BY <1>4, <2>1, <2>2, <2>3 DEF Routes
  <2>5. Routes(s, tx)'
    BY <1>2, <2>4, RoutesStand DEF LookUpInv
  <2>6. script'.at = s + 1 /\ script'.doing = "read"
    BY <1>4, <2>3, RunForms DEF Save, GoOn
  <2> QED
    BY <1>2, <2>1, <2>3, <2>5, <2>6
<1>5. CASE file' = file
  BY <1>1, <1>3, <1>5
<1>6. CASE Save /\ file' = Saved(Tx(Step))
  <2>1. IsRecorded(Tx(Step).cell, deployed)
    BY <1>6, SaveFacts DEF Save
  <2>2. \/ tx = Tx(Step)
        \/ file # NoFile /\ i \in DOMAIN file /\ file[i] = tx
    BY <1>1, <1>6, <2>1, StartFacts, SavedIsAFile
  <2>3. file # NoFile => CellsOf(file) \subseteq CellsOf(file')
    <3>1. file # NoFile => \A n \in DOMAIN file : n \in DOMAIN file' /\ file'[n] = file[n]
      BY <1>6, <2>1, StartFacts, SavedIsAFile
    <3> QED
      BY <3>1 DEF CellsOf
  <2> QED
    BY <1>1, <1>3, <1>4, <1>6, <2>2, <2>3
<1> QED
  BY <1>5, <1>6, FileChanges

LEMMA InitEstablishesFed == Init => FedInv
<1> SUFFICES ASSUME Init PROVE FedInv
  OBVIOUS
<1>1. script.doing = "idle" /\ queue = <<>> /\ file = NoFile /\ IsFed(chain)
  BY RunForms, ProgramsAssumption DEF Init, The
<1>2. ChainFed
  BY <1>1 DEF ChainFed, IsFed, Fed, Setting
<1> QED
  BY <1>1, <1>2 DEF FedInv, AllFed, QueueFed, FileFed, SentOK

LEMMA NextKeepsFed ==
  ASSUME DeploymentInv, LookUpInv, FedInv, [Next]_vars
  PROVE  FedInv'
<1> SUFFICES ASSUME ~OneByOne \/ kills' = 0
             PROVE  ChainFed' /\ QueueFed' /\ FileFed' /\ SentOK'
  BY SameDeployer DEF FedInv, AllFed
<1>1. AllFed /\ (OneByOne => ~Kill)
  BY Unkilled DEF FedInv
<1> QED
  BY <1>1, ChainStaysFed, QueueStaysFed, FileStaysFed, SentStays

\* A route that lacks its feed is followed by it: in the batch that has both, in the
\* file that the run is to complete, or in the next step of a run that executes one by
\* one: in every reachable state.
THEOREM FedInvariance == Spec => []FedInv
BY DeploymentInvariance, LookUpInvariance, InitEstablishesFed, NextKeepsFed, PTL DEF Spec

LEMMA FedSuffices == LookUpInv /\ FedInv => RoutedTokensHaveFeeds
<1> SUFFICES ASSUME LookUpInv, FedInv,
                    (script = Idle /\ kills = 0) \/ ~OneByOne
             PROVE  IsFed(chain)
  BY DEF RoutedTokensHaveFeeds, OneByOne
<1>1. ChainFed
  BY DEF FedInv, AllFed
<1>2. ~(The.signer /\ Active) /\ script.doing # "send"
  BY RunForms DEF LookUpInv, QuietOK, OneByOne, Active
<1> QED
  BY <1>1, <1>2 DEF ChainFed, Fed, Setting, IsFed

\* A token is never routed to a token oracle that has no feed for it, whatever run was
\* killed, confirmed or repeated; where settings are executed one by one, not after a
\* run that was not killed.
THEOREM RoutesAreFed == Spec => []RoutedTokensHaveFeeds
BY LookUpInvariance, FedInvariance, FedSuffices, PTL
=============================================================================
