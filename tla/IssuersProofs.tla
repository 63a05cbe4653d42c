---------------------------- MODULE IssuersProofs ----------------------------
(***************************************************************************)
(* The programs around the IssuerRegistry, for any accounts, delays and    *)
(* bounds: the scripts that hand it to the timelock keep their books       *)
(* through interruptions, the page of the issuers' programme shows stakes  *)
(* the registry confirmed, and the directory of the backend serves what    *)
(* the registry said, whichever request finished first.                    *)
(***************************************************************************)
EXTENDS IssuerRegistryProofs, GovernanceHandoff, IssuerProgram, IssuerDirectory,
        SequenceTheorems, FiniteSetTheorems

-----------------------------------------------------------------------------
(* The handoff scripts.                                                    *)

Operation == [call : {"slash", "grant"}, ready : Nat, done : BOOLEAN]
Contract == [deployed : BOOLEAN, proposers : SUBSET {Deployer, Safe},
             cancellers : SUBSET {Deployer, Safe}, ops : Seq(Operation)]

(* What the timelock says of itself: nobody acts on it before it exists,   *)
(* afterwards the deployer may propose, and a grant executed has taken     *)
(* effect.                                                                 *)
TimelockSound ==
    /\ ~timelock.deployed => timelock.proposers = {} /\ timelock.cancellers = {} /\ timelock.ops = <<>>
    /\ timelock.deployed => Deployer \in timelock.proposers
    /\ \A op \in DOMAIN timelock.ops :
          timelock.ops[op].call = "grant" /\ timelock.ops[op].done =>
              Safe \in timelock.proposers /\ Safe \in timelock.cancellers

(* What a script may still rely on of what it checked or sent: no other    *)
(* script ran since.                                                       *)
ScriptSound ==
    /\ script.step = "checked" =>
          /\ script.name # "none"
          /\ script.name = "deploy-timelock" => ~timelock.deployed
          /\ script.name \in {"handoff-slashing", "handoff-ownership"} => timelock.deployed
          /\ script.name = "execute-test" => records.test # 0
          /\ script.name = "execute-grant" => records.grant # 0
    /\ script.step = "sent" =>
          /\ script.name \in {"deploy-timelock", "deploy-registry", "schedule-test", "schedule-grant"}
          /\ script.name = "deploy-timelock" => timelock.deployed
          /\ script.name = "schedule-test" => script.op \in DOMAIN timelock.ops
                                              /\ timelock.ops[script.op].call = "slash"
          /\ script.name = "schedule-grant" => script.op \in DOMAIN timelock.ops
                                               /\ timelock.ops[script.op].call = "grant"

HandoffIInv ==
    /\ day \in Nat
    /\ timelock \in Contract
    /\ records.timelock => timelock.deployed
    /\ TimelockSound
    /\ ScriptSound
    /\ HandoffInv

(* The timelock of the next state has kept everything of the present one.  *)
TimelockGrows ==
    /\ timelock' \in Contract
    /\ timelock.deployed => timelock'.deployed
    /\ timelock.proposers \subseteq timelock'.proposers
    /\ timelock.cancellers \subseteq timelock'.cancellers
    /\ \A op \in DOMAIN timelock.ops :
          op \in DOMAIN timelock'.ops /\ timelock'.ops[op].call = timelock.ops[op].call
    /\ Len(timelock'.ops) <= MaxOps

(* Types of the records that the lemmas below read.                        *)
ScriptTypes == [name : Scripts \cup {"none"}, step : {"none", "checked", "sent"}, op : 0..MaxOps]
RecordTypes == [timelock : BOOLEAN, registry : BOOLEAN, test : 0..MaxOps, grant : 0..MaxOps]

LEMMA NotRunningIsScript == NotRunning \in ScriptTypes /\ NotRunning.step = "none"
BY HandoffAssumption DEF NotRunning, ScriptTypes

LEMMA HandoffInitially == RegistryInit /\ HandoffInit => HandoffIInv
<1> SUFFICES ASSUME RegistryInit, HandoffInit PROVE HandoffIInv
  OBVIOUS
<1> USE DEF HandoffInit
<1>1. day \in Nat /\ owner = Deployer /\ slashingAuthority = Deployer
  BY DEF RegistryInit
<1>2. timelock \in Contract
  BY DEF Contract
<1>3. TimelockSound
  BY DEF TimelockSound
<1>4. script \in ScriptTypes /\ script.step = "none"
  BY NotRunningIsScript
<1>5. ScriptSound
  BY <1>4 DEF ScriptSound
<1>6. HandoffTypeOK
  <2>1. timelock.proposers \cup timelock.cancellers \subseteq {Deployer, Safe}
    OBVIOUS
  <2>2. records \in RecordTypes
    BY HandoffAssumption DEF RecordTypes
  <2>3. successor \in [owner : Governors, slashing : Governors, deployed : BOOLEAN]
    BY RegistryAssumption DEF NotDeployed
  <2>4. timelock.ops \in Seq(Operation) /\ Len(timelock.ops) <= MaxOps
    BY HandoffAssumption
  <2> QED BY <1>4, <2>1, <2>2, <2>3, <2>4 DEF HandoffTypeOK, ScriptTypes, RecordTypes, Operation
<1>7. RecordsScheduled
  BY DEF RecordsScheduled
<1>8. NeverBricked
  BY <1>1, HandoffAssumption DEF NeverBricked
<1>9. GrantComplete
  BY DEF GrantComplete
<1> QED BY <1>1, <1>2, <1>3, <1>5, <1>6, <1>7, <1>8, <1>9 DEF HandoffIInv, HandoffInv

(* A step that lets the timelock only grow and writes no record keeps what *)
(* the records and the roles rest on.                                      *)
LEMMA GrowthKeepsTheRest ==
    ASSUME HandoffIInv, TimelockGrows, TimelockSound', ScriptSound',
           day' \in Nat, script' \in ScriptTypes,
           records' \in RecordTypes, records'.timelock => timelock'.deployed,
           RecordsScheduled', NeverBricked', GrantComplete',
           successor' \in [owner : Governors, slashing : Governors, deployed : BOOLEAN],
           outcome' \subseteq Scripts
    PROVE  HandoffIInv'
<1>1. timelock' \in Contract /\ Len(timelock'.ops) <= MaxOps
  BY DEF TimelockGrows
<1>2. /\ timelock'.deployed \in BOOLEAN
      /\ timelock'.proposers \cup timelock'.cancellers \subseteq {Deployer, Safe}
      /\ timelock'.ops \in Seq(Operation)
  BY <1>1 DEF Contract
<1>3. HandoffTypeOK'
  BY <1>1, <1>2 DEF HandoffTypeOK, ScriptTypes, RecordTypes, Operation
<1> QED BY <1>1, <1>3 DEF HandoffIInv, HandoffInv

LEMMA GrowthKeepsRecords ==
    ASSUME HandoffIInv, TimelockGrows, UNCHANGED records
    PROVE  /\ RecordsScheduled'
           /\ records' \in RecordTypes
           /\ records'.timelock => timelock'.deployed
<1>1. RecordsScheduled /\ records \in RecordTypes
  BY DEF HandoffIInv, HandoffInv, HandoffTypeOK, RecordTypes
<1>2. RecordsScheduled'
  BY <1>1 DEF RecordsScheduled, TimelockGrows
<1> QED BY <1>1, <1>2 DEF HandoffIInv, TimelockGrows

LEMMA GrowthKeepsRoles ==
    ASSUME HandoffIInv, TimelockGrows, TimelockSound',
           Timelock \in {owner', slashingAuthority'} =>
               timelock.deployed \/ Timelock \in {owner, slashingAuthority}
    PROVE  NeverBricked'
<1>1. Timelock \in {owner', slashingAuthority'} => timelock.deployed
  BY DEF HandoffIInv, HandoffInv, NeverBricked
<1> QED BY <1>1 DEF NeverBricked, TimelockGrows, TimelockSound

LEMMA GrowthKeepsGrant ==
    ASSUME HandoffIInv, TimelockGrows,
           "execute-grant" \in outcome' =>
               \/ "execute-grant" \in outcome
               \/ Safe \in timelock'.proposers /\ Safe \in timelock'.cancellers
    PROVE  GrantComplete'
BY DEF HandoffIInv, HandoffInv, GrantComplete, TimelockGrows

(* A timelock left alone has grown, and stays sound.                       *)
LEMMA TimelockStays ==
    ASSUME HandoffIInv, UNCHANGED timelock
    PROVE  TimelockGrows /\ TimelockSound'
<1>1. timelock \in Contract /\ Len(timelock.ops) <= MaxOps
  BY DEF HandoffIInv, HandoffInv, HandoffTypeOK
<1> QED BY <1>1 DEF HandoffIInv, TimelockSound, TimelockGrows


(* An operation that takes effect.                                         *)
LEMMA PerformGrows ==
    ASSUME HandoffIInv, NEW op \in DOMAIN timelock.ops, Perform(op)
    PROVE  /\ TimelockGrows
           /\ TimelockSound'
           /\ timelock'.deployed = timelock.deployed
           /\ UNCHANGED <<owner, slashingAuthority, day>>
           /\ timelock.ops[op].call = "grant" =>
                  Safe \in timelock'.proposers /\ Safe \in timelock'.cancellers
<1>1. timelock \in Contract /\ Len(timelock.ops) <= MaxOps /\ TimelockSound
  BY DEF HandoffIInv, HandoffInv, HandoffTypeOK
<1>2. timelock.ops \in Seq(Operation) /\ timelock.ops[op] \in Operation
  BY <1>1 DEF Contract
<1> DEFINE rec == [timelock.ops[op] EXCEPT !.done = TRUE]
           done == [timelock.ops EXCEPT ![op] = rec]
<1>3. rec \in Operation /\ rec.call = timelock.ops[op].call
  BY <1>2 DEF Operation
<1>4. /\ done \in Seq(Operation)
      /\ Len(done) = Len(timelock.ops)
      /\ DOMAIN done = DOMAIN timelock.ops
      /\ done[op] = rec
      /\ \A p \in DOMAIN timelock.ops : p # op => done[p] = timelock.ops[p]
  <2> HIDE DEF rec
  <2> QED BY <1>2, <1>3
<1>5. \A p \in DOMAIN timelock.ops : done[p].call = timelock.ops[p].call
  BY <1>3, <1>4
<1> HIDE DEF done
<1>6. CASE /\ timelock.ops[op].call = "slash"
           /\ Slash(Timelock, Deployer, 0)
           /\ timelock' = [timelock EXCEPT !.ops[op].done = TRUE]
  <2>1. timelock' = [timelock EXCEPT !.ops = done]
    BY <1>1, <1>6 DEF Contract, done
  <2>2. /\ timelock' \in Contract
        /\ timelock'.deployed = timelock.deployed
        /\ timelock'.proposers = timelock.proposers
        /\ timelock'.cancellers = timelock.cancellers
        /\ timelock'.ops = done
    BY <1>1, <1>4, <2>1 DEF Contract
  <2>3. UNCHANGED <<owner, slashingAuthority, day>>
    BY <1>6 DEF Slash, roleVars
  <2>4. TimelockGrows
    BY <1>1, <1>4, <1>5, <2>2 DEF TimelockGrows
  <2>5. TimelockSound'
    BY <1>1, <1>3, <1>4, <1>6, <2>2 DEF TimelockSound
  <2> QED BY <1>6, <2>2, <2>3, <2>4, <2>5
<1>7. CASE /\ timelock.ops[op].call = "grant"
           /\ timelock' = [GrantBatch(timelock) EXCEPT !.ops[op].done = TRUE]
           /\ UNCHANGED registryVars
  <2>1. timelock' = [timelock EXCEPT !.proposers = @ \cup {Safe}, !.cancellers = @ \cup {Safe},
                                     !.ops = done]
    BY <1>1, <1>7 DEF Contract, GrantBatch, done
  <2>2. /\ timelock' \in Contract
        /\ timelock'.deployed = timelock.deployed
        /\ timelock'.proposers = timelock.proposers \cup {Safe}
        /\ timelock'.cancellers = timelock.cancellers \cup {Safe}
        /\ timelock'.ops = done
    BY <1>1, <1>4, <2>1 DEF Contract
  <2>3. UNCHANGED <<owner, slashingAuthority, day>>
    BY <1>7 DEF registryVars
  <2>4. TimelockGrows
    BY <1>1, <1>4, <1>5, <2>2 DEF TimelockGrows
  <2>5. timelock.ops # <<>>
    BY <1>2
  <2>6. TimelockSound'
    BY <1>1, <1>4, <2>2, <2>5 DEF TimelockSound
  <2> QED BY <2>2, <2>3, <2>4, <2>6
<1> QED BY <1>6, <1>7 DEF Perform

(* A step after which the script rests, writes no record and has not       *)
(* touched the timelock or the roles.                                      *)
LEMMA ScriptStepKeeps ==
    ASSUME HandoffIInv, TimelockGrows, TimelockSound', ScriptSound', UNCHANGED records,
           day' \in Nat, script' \in ScriptTypes,
           Timelock \in {owner', slashingAuthority'} =>
               timelock.deployed \/ Timelock \in {owner, slashingAuthority},
           successor' \in [owner : Governors, slashing : Governors, deployed : BOOLEAN],
           outcome' \subseteq Scripts,
           "execute-grant" \in outcome' =>
               \/ "execute-grant" \in outcome
               \/ Safe \in timelock'.proposers /\ Safe \in timelock'.cancellers
    PROVE  HandoffIInv'
BY GrowthKeepsTheRest, GrowthKeepsRecords, GrowthKeepsRoles, GrowthKeepsGrant

LEMMA RestIsSound ==
    ASSUME script'= NotRunning
    PROVE  ScriptSound' /\ script' \in ScriptTypes
BY NotRunningIsScript DEF ScriptSound

LEMMA HandoffTypes ==
    ASSUME HandoffIInv
    PROVE  /\ script \in ScriptTypes
           /\ records \in RecordTypes
           /\ successor \in [owner : Governors, slashing : Governors, deployed : BOOLEAN]
           /\ outcome \subseteq Scripts
           /\ day \in Nat
           /\ timelock \in Contract
           /\ timelock.ops \in Seq(Operation)
           /\ Len(timelock.ops) <= MaxOps
BY DEF HandoffIInv, HandoffInv, HandoffTypeOK, ScriptTypes, RecordTypes, Contract

LEMMA StartKeeps ==
    ASSUME HandoffIInv, NEW n \in Scripts, Start(n)
    PROVE  HandoffIInv'
<1> USE HandoffTypes
<1>1. /\ script = NotRunning
      /\ script' = [script EXCEPT !.name = n, !.step = "checked"]
      /\ UNCHANGED <<timelock, records, successor, outcome>>
      /\ UNCHANGED <<owner, slashingAuthority, day>>
      /\ Checks(n)
  BY DEF Start, registryVars
<1>2. script' \in ScriptTypes /\ script'.name = n /\ script'.step = "checked"
  BY <1>1 DEF ScriptTypes
<1>3. TimelockGrows /\ TimelockSound'
  BY <1>1, TimelockStays
<1>4. n # "none"
  BY DEF Scripts
<1>5. /\ n = "deploy-timelock" => ~timelock.deployed
      /\ n \in {"handoff-slashing", "handoff-ownership"} => timelock.deployed
      /\ n = "execute-test" => records.test # 0
      /\ n = "execute-grant" => records.grant # 0
  BY <1>1 DEF Checks, DeployTimelock, HandoffSlashing, HandoffOwnership, ExecuteTest, ExecuteGrant,
              HandoffIInv
<1>6. ScriptSound'
  BY <1>1, <1>2, <1>4, <1>5 DEF ScriptSound
<1> QED BY <1>1, <1>2, <1>3, <1>6, ScriptStepKeeps

LEMMA AlreadyDoneKeeps ==
    ASSUME HandoffIInv, NEW n \in Scripts, AlreadyDone(n)
    PROVE  HandoffIInv'
<1> USE HandoffTypes
<1>1. /\ UNCHANGED <<script, timelock, records, successor>>
      /\ UNCHANGED <<owner, slashingAuthority, day>>
      /\ outcome' = outcome \cup {n}
  BY DEF AlreadyDone, registryVars
<1>2. n = "execute-grant" => records.grant # 0 /\ timelock.ops[records.grant].done
  BY DEF AlreadyDone
<1>3. n = "execute-grant" => Safe \in timelock.proposers /\ Safe \in timelock.cancellers
  BY <1>2 DEF HandoffIInv, HandoffInv, RecordsScheduled, TimelockSound
<1>4. TimelockGrows /\ TimelockSound'
  BY <1>1, TimelockStays
<1>5. ScriptSound'
  BY <1>1 DEF HandoffIInv, ScriptSound
<1> QED BY <1>1, <1>3, <1>4, <1>5, ScriptStepKeeps

LEMMA SendDeployTimelockKeeps ==
    ASSUME HandoffIInv, SendDeployTimelock
    PROVE  HandoffIInv'
<1> USE HandoffTypes
<1>1. /\ UNCHANGED <<records, successor, outcome>>
      /\ UNCHANGED <<owner, slashingAuthority, day>>
      /\ script.name = "deploy-timelock" /\ script.step = "checked"
      /\ script' = [script EXCEPT !.step = "sent", !.op = 0]
      /\ timelock' = [timelock EXCEPT !.deployed = TRUE, !.proposers = {Deployer},
                                      !.cancellers = {Deployer}]
  BY DEF SendDeployTimelock, registryVars, Running, Sent
<1>2. timelock.proposers = {} /\ timelock.cancellers = {} /\ timelock.ops = <<>>
  BY <1>1 DEF HandoffIInv, TimelockSound, ScriptSound
<1>3. /\ timelock' \in Contract
      /\ timelock'.deployed = TRUE
      /\ timelock'.proposers = {Deployer} /\ timelock'.cancellers = {Deployer}
      /\ timelock'.ops = timelock.ops
  BY <1>1 DEF Contract
<1>4. TimelockGrows /\ TimelockSound'
  BY <1>2, <1>3 DEF TimelockGrows, TimelockSound
<1>5. script' \in ScriptTypes /\ script'.name = "deploy-timelock" /\ script'.step = "sent"
  <2>1. script \in ScriptTypes /\ 0 \in 0..MaxOps
    BY HandoffAssumption
  <2> QED BY <1>1, <2>1 DEF ScriptTypes
<1>6. ScriptSound'
  BY <1>3, <1>5 DEF ScriptSound
<1> QED BY <1>1, <1>4, <1>5, <1>6, ScriptStepKeeps

LEMMA SendDeployRegistryKeeps ==
    ASSUME HandoffIInv, SendDeployRegistry
    PROVE  HandoffIInv'
<1> USE HandoffTypes
<1>1. /\ UNCHANGED <<timelock, records, outcome>>
      /\ UNCHANGED <<owner, slashingAuthority, day>>
      /\ script.name = "deploy-registry" /\ script.step = "checked"
      /\ script' = [script EXCEPT !.step = "sent", !.op = 0]
      /\ successor' = [NotDeployed EXCEPT !.deployed = TRUE]
  BY DEF SendDeployRegistry, registryVars, Running, Sent
<1>2. successor' \in [owner : Governors, slashing : Governors, deployed : BOOLEAN]
  BY <1>1, RegistryAssumption DEF NotDeployed
<1>3. TimelockGrows /\ TimelockSound'
  BY <1>1, TimelockStays
<1>4. script' \in ScriptTypes /\ script'.name = "deploy-registry" /\ script'.step = "sent"
  <2>1. script \in ScriptTypes /\ 0 \in 0..MaxOps
    BY HandoffAssumption
  <2> QED BY <1>1, <2>1 DEF ScriptTypes
<1>5. ScriptSound'
  BY <1>4 DEF ScriptSound
<1> QED BY <1>1, <1>2, <1>3, <1>4, <1>5, ScriptStepKeeps

LEMMA SendHandoffKeeps ==
    ASSUME HandoffIInv, SendHandoff
    PROVE  HandoffIInv'
<1> USE HandoffTypes
<1>1. /\ UNCHANGED <<timelock, records, successor>>
      /\ script' = NotRunning /\ outcome' = outcome \cup {script.name}
      /\ script.name \in {"handoff-slashing", "handoff-ownership"} /\ script.step = "checked"
      /\ UNCHANGED day
  BY DEF SendHandoff, Ended, Running, SetSlashingAuthority, TransferOwnership
<1>2. timelock.deployed
  BY <1>1 DEF HandoffIInv, ScriptSound
<1>3. TimelockGrows /\ TimelockSound'
  BY <1>1, TimelockStays
<1>4. outcome' \subseteq Scripts /\ ("execute-grant" \in outcome' => "execute-grant" \in outcome)
  BY <1>1 DEF Scripts
<1> QED BY <1>1, <1>2, <1>3, <1>4, RestIsSound, ScriptStepKeeps

LEMMA SendScheduleKeeps ==
    ASSUME HandoffIInv, SendSchedule
    PROVE  HandoffIInv'
<1> USE HandoffTypes
<1>1. PICK c \in {"slash", "grant"} :
         /\ Running(IF c = "slash" THEN "schedule-test" ELSE "schedule-grant")
         /\ Schedule(Deployer, c)
         /\ Sent(Len(timelock.ops) + 1)
         /\ UNCHANGED <<records, successor, outcome, registryVars>>
  BY DEF SendSchedule
<1>2. /\ UNCHANGED <<records, successor, outcome>>
      /\ UNCHANGED <<owner, slashingAuthority, day>>
  BY <1>1 DEF registryVars
<1> DEFINE op == [call |-> c, ready |-> day + MinDelay, done |-> FALSE]
           n == Len(timelock.ops) + 1
<1>3. op \in Operation
  BY HandoffAssumption DEF Operation
<1>4. timelock' = [timelock EXCEPT !.ops = Append(timelock.ops, op)] /\ Len(timelock.ops) < MaxOps
  BY <1>1 DEF Schedule, Contract
<1>5. op.call = c /\ op.done = FALSE
  OBVIOUS
<1> HIDE DEF op
<1>6. /\ Append(timelock.ops, op) \in Seq(Operation)
      /\ Len(Append(timelock.ops, op)) = n
      /\ \A p \in DOMAIN timelock.ops : p \in DOMAIN Append(timelock.ops, op)
                                        /\ Append(timelock.ops, op)[p] = timelock.ops[p]
      /\ \A p \in DOMAIN Append(timelock.ops, op) : p \in DOMAIN timelock.ops \/ p = n
      /\ n \in DOMAIN Append(timelock.ops, op)
      /\ Append(timelock.ops, op)[n] = op
      /\ n \in 0..MaxOps
  BY <1>3, <1>4, HandoffAssumption
<1>7. /\ timelock' \in Contract
      /\ timelock'.deployed = timelock.deployed
      /\ timelock'.proposers = timelock.proposers /\ timelock'.cancellers = timelock.cancellers
      /\ timelock'.ops = Append(timelock.ops, op)
  BY <1>4, <1>6 DEF Contract
<1>8. Deployer \in timelock.proposers
  BY <1>1 DEF Schedule
<1>9. TimelockGrows
  BY <1>6, <1>7 DEF TimelockGrows
<1>10. TimelockSound'
  BY <1>5, <1>6, <1>7, <1>8 DEF TimelockSound, HandoffIInv
<1>11. /\ script' \in ScriptTypes /\ script'.step = "sent" /\ script'.op = n
       /\ script'.name = IF c = "slash" THEN "schedule-test" ELSE "schedule-grant"
  BY <1>1, <1>6 DEF Sent, Running, ScriptTypes
<1>12. ScriptSound'
  BY <1>5, <1>6, <1>7, <1>11 DEF ScriptSound
<1> QED BY <1>2, <1>9, <1>10, <1>11, <1>12, ScriptStepKeeps

LEMMA ExecutionMinedKeeps ==
    ASSUME HandoffIInv, ExecutionMined
    PROVE  HandoffIInv'
<1> USE HandoffTypes
<1>1. /\ script.name = "execute-test" /\ script.step = "checked"
      /\ Perform(records.test)
      /\ script' = NotRunning
      /\ UNCHANGED <<records, successor>>
      /\ outcome' = outcome \cup {"execute-test"}
  BY DEF ExecutionMined, SendExecute, Running
<1>2. records.test \in DOMAIN timelock.ops
  BY <1>1 DEF HandoffIInv, HandoffInv, ScriptSound, RecordsScheduled
<1>3. TimelockGrows /\ TimelockSound' /\ UNCHANGED <<owner, slashingAuthority, day>>
  BY <1>1, <1>2, PerformGrows
<1>4. outcome' \subseteq Scripts /\ ("execute-grant" \in outcome' => "execute-grant" \in outcome)
  BY <1>1 DEF Scripts
<1> QED BY <1>1, <1>3, <1>4, RestIsSound, ScriptStepKeeps

LEMMA GrantMinedKeeps ==
    ASSUME HandoffIInv, GrantMined
    PROVE  HandoffIInv'
<1> USE HandoffTypes
<1>1. /\ script.name = "execute-grant" /\ script.step = "checked"
      /\ Perform(records.grant)
      /\ script' = NotRunning
      /\ UNCHANGED <<records, successor>>
      /\ outcome' = IF Safe \in timelock'.proposers \cap timelock'.cancellers
                    THEN outcome \cup {"execute-grant"} ELSE outcome
  BY DEF GrantMined, SendExecute, Running
<1>2. records.grant \in DOMAIN timelock.ops
  BY <1>1 DEF HandoffIInv, HandoffInv, ScriptSound, RecordsScheduled
<1>3. TimelockGrows /\ TimelockSound' /\ UNCHANGED <<owner, slashingAuthority, day>>
  BY <1>1, <1>2, PerformGrows
<1>4. outcome' \subseteq Scripts
  BY <1>1 DEF Scripts
<1>5. "execute-grant" \in outcome' =>
          \/ "execute-grant" \in outcome
          \/ Safe \in timelock'.proposers /\ Safe \in timelock'.cancellers
  BY <1>1
<1> QED BY <1>1, <1>3, <1>4, <1>5, RestIsSound, ScriptStepKeeps

LEMMA ScriptGivesUpKeeps ==
    ASSUME HandoffIInv, Abandoned \/ RecordLost
    PROVE  HandoffIInv'
<1> USE HandoffTypes
<1>1. /\ script' = NotRunning
      /\ UNCHANGED <<timelock, records, successor, outcome>>
      /\ UNCHANGED <<owner, slashingAuthority, day>>
  BY DEF Abandoned, RecordLost, registryVars
<1>2. TimelockGrows /\ TimelockSound'
  BY <1>1, TimelockStays
<1> QED BY <1>1, <1>2, RestIsSound, ScriptStepKeeps

LEMMA WriteRecordKeeps ==
    ASSUME HandoffIInv, WriteRecord
    PROVE  HandoffIInv'
<1> USE HandoffTypes
<1>1. /\ script.step = "sent"
      /\ script' = NotRunning /\ outcome' = outcome \cup {script.name}
      /\ records' = [records EXCEPT
            !.timelock = @ \/ script.name = "deploy-timelock",
            !.registry = @ \/ script.name = "deploy-registry",
            !.test = IF script.name = "schedule-test" THEN script.op ELSE @,
            !.grant = IF script.name = "schedule-grant" THEN script.op ELSE @]
      /\ UNCHANGED <<timelock, successor>>
      /\ UNCHANGED <<owner, slashingAuthority, day>>
  BY DEF WriteRecord, Ended, registryVars
<1>2. /\ script.name \in {"deploy-timelock", "deploy-registry", "schedule-test", "schedule-grant"}
      /\ script.name = "deploy-timelock" => timelock.deployed
      /\ script.name = "schedule-test" => script.op \in DOMAIN timelock.ops
                                          /\ timelock.ops[script.op].call = "slash"
      /\ script.name = "schedule-grant" => script.op \in DOMAIN timelock.ops
                                           /\ timelock.ops[script.op].call = "grant"
  BY <1>1 DEF HandoffIInv, ScriptSound
<1>3. script.op \in 0..MaxOps
  BY DEF ScriptTypes
<1>4. /\ records' \in RecordTypes
      /\ records'.timelock = (records.timelock \/ script.name = "deploy-timelock")
      /\ records'.test = IF script.name = "schedule-test" THEN script.op ELSE records.test
      /\ records'.grant = IF script.name = "schedule-grant" THEN script.op ELSE records.grant
  BY <1>1, <1>3 DEF RecordTypes
<1>5. TimelockGrows /\ TimelockSound'
  BY <1>1, TimelockStays
<1>6. records'.timelock => timelock'.deployed
  BY <1>1, <1>2, <1>4 DEF HandoffIInv
<1>7. RecordsScheduled
  BY DEF HandoffIInv, HandoffInv
<1>8. RecordsScheduled'
  BY <1>1, <1>2, <1>4, <1>7 DEF RecordsScheduled
<1>9. NeverBricked'
  BY <1>1, <1>5, GrowthKeepsRoles DEF HandoffIInv, HandoffInv, NeverBricked
<1>10. outcome' \subseteq Scripts /\ ("execute-grant" \in outcome' => "execute-grant" \in outcome)
  BY <1>1, <1>2 DEF Scripts
<1>11. GrantComplete'
  BY <1>5, <1>10, GrowthKeepsGrant
<1> QED BY <1>1, <1>4, <1>5, <1>6, <1>8, <1>9, <1>10, <1>11, RestIsSound, GrowthKeepsTheRest

LEMMA ExecuteByHandKeeps ==
    ASSUME HandoffIInv, ExecuteByHand
    PROVE  HandoffIInv'
<1> USE HandoffTypes
<1>1. PICK op \in DOMAIN timelock.ops : Perform(op)
  BY DEF ExecuteByHand
<1>2. UNCHANGED <<script, records, successor, outcome>>
  BY DEF ExecuteByHand
<1>3. /\ TimelockGrows /\ TimelockSound'
      /\ UNCHANGED <<owner, slashingAuthority, day>>
      /\ timelock'.deployed = timelock.deployed
  BY <1>1, PerformGrows
<1>4. ScriptSound
  BY DEF HandoffIInv
<1>5. ScriptSound'
  BY <1>2, <1>3, <1>4 DEF ScriptSound, TimelockGrows
<1> QED BY <1>2, <1>3, <1>5, ScriptStepKeeps

LEMMA ChainMovesKeeps ==
    ASSUME HandoffIInv,
           \/ TakeBackSlashing \/ DeployerIsIssuer
           \/ RegistryNext /\ UNCHANGED <<owner, slashingAuthority, handoffVars>>
           \/ UNCHANGED <<registryVars, handoffVars>>
    PROVE  HandoffIInv'
<1> USE HandoffTypes
<1>1. UNCHANGED <<script, timelock, records, successor, outcome>>
  BY DEF TakeBackSlashing, DeployerIsIssuer, handoffVars
<1>2. /\ owner' = owner
      /\ slashingAuthority' \in {slashingAuthority, Deployer}
      /\ day' \in Nat
  <2>1. CASE TakeBackSlashing
    BY <2>1 DEF TakeBackSlashing, SetSlashingAuthority
  <2>2. CASE DeployerIsIssuer
    BY <2>2 DEF DeployerIsIssuer, StakeAndRegister, RequestUnstake, WithdrawStake, NextDay, roleVars
  <2>3. CASE UNCHANGED <<registryVars, handoffVars>>
    BY <2>3 DEF registryVars
  <2>4. CASE RegistryNext /\ UNCHANGED <<owner, slashingAuthority, handoffVars>>
    <3>1. day' = day \/ day' = day + 1
      BY <2>4 DEF RegistryNext, StakeAndRegister, RequestUnstake, WithdrawStake, SetMetadataURI, Report, Slash,
                  WithdrawTreasury, SetStakeRequirements, SetSlashingAuthority, SetReporter,
                  TransferOwnership, NextDay
    <3>2. day \in Nat
      BY DEF HandoffIInv
    <3> QED BY <2>4, <3>1, <3>2
  <2> QED BY <2>1, <2>2, <2>3, <2>4
<1>3. Timelock # Deployer
  BY HandoffAssumption
<1>4. TimelockGrows /\ TimelockSound'
  BY <1>1, TimelockStays
<1>5. ScriptSound'
  BY <1>1 DEF HandoffIInv, ScriptSound
<1> QED BY <1>1, <1>2, <1>3, <1>4, <1>5, ScriptStepKeeps

LEMMA HandoffStep ==
    HandoffIInv /\ [HandoffNext \/ (RegistryNext /\ UNCHANGED <<owner, slashingAuthority, handoffVars>>)]_<<registryVars, handoffVars>>
        => HandoffIInv'
<1> SUFFICES ASSUME HandoffIInv,
                    [HandoffNext \/ (RegistryNext /\ UNCHANGED <<owner, slashingAuthority, handoffVars>>)]_<<registryVars, handoffVars>>
             PROVE  HandoffIInv'
  OBVIOUS
<1>1. CASE \E n \in Scripts : Start(n)
  BY <1>1, StartKeeps
<1>2. CASE \E n \in Scripts : AlreadyDone(n)
  BY <1>2, AlreadyDoneKeeps
<1>3. CASE SendDeployTimelock
  BY <1>3, SendDeployTimelockKeeps
<1>4. CASE SendDeployRegistry
  BY <1>4, SendDeployRegistryKeeps
<1>5. CASE SendHandoff
  BY <1>5, SendHandoffKeeps
<1>6. CASE SendSchedule
  BY <1>6, SendScheduleKeeps
<1>7. CASE ExecutionMined
  BY <1>7, ExecutionMinedKeeps
<1>8. CASE GrantMined
  BY <1>8, GrantMinedKeeps
<1>9. CASE Abandoned \/ RecordLost
  BY <1>9, ScriptGivesUpKeeps
<1>10. CASE WriteRecord
  BY <1>10, WriteRecordKeeps
<1>11. CASE ExecuteByHand
  BY <1>11, ExecuteByHandKeeps
<1>12. CASE \/ TakeBackSlashing \/ DeployerIsIssuer
            \/ RegistryNext /\ UNCHANGED <<owner, slashingAuthority, handoffVars>>
            \/ UNCHANGED <<registryVars, handoffVars>>
  BY <1>12, ChainMovesKeeps
<1> QED
  BY <1>1, <1>2, <1>3, <1>4, <1>5, <1>6, <1>7, <1>8, <1>9, <1>10, <1>11, <1>12 DEF HandoffNext

(* Wherever the scripts stop: a record of an operation names one that is   *)
(* scheduled with the call it stands for, the roles are never given to a   *)
(* timelock that cannot use them, and a grant reported as done is done.    *)
THEOREM HandoffAlwaysRecoverable == HandoffSpec => []HandoffInv
<1>1. HandoffIInv => HandoffInv
  BY DEF HandoffIInv
<1> QED BY HandoffInitially, HandoffStep, <1>1, PTL DEF HandoffSpec

-----------------------------------------------------------------------------
(* The onboarding page.                                                    *)

StakeAmounts == (Amounts \cup {0}) \ {TooLarge}

LEMMA StakeAmountsAreNumbers == \A v \in StakeAmounts : v \in Nat \ {TooLarge}
BY RegistryAssumption DEF StakeAmounts

StakeCall == [pc : {"idle", "connecting", "balance", "sending"}, amount : StakeAmounts,
              uri : URIs \cup {NoURI}, account : Applicants \cup {NoAccount},
              signer : Applicants \cup {NoAccount}]

(* What a stake under way has been checked for: an amount and a URI of the *)
(* form, the account the page shows, and, once reconnected, the same       *)
(* account in the wallet.                                                  *)
CallSound ==
    /\ stakeCall \in StakeCall
    /\ stakeCall.pc # "idle" => /\ stakeCall.amount \in Amounts
                                /\ stakeCall.uri \in URIs
                                /\ stakeCall.account \in Applicants
    /\ stakeCall.pc \in {"balance", "sending"} => stakeCall.signer = stakeCall.account

ProgramIInv ==
    /\ RegistryIInv
    /\ CallSound
    /\ ProgramInv

(* The check of the page is that of the backend: for every form.           *)
LEMMA PageCheckSuffices == GeneratedAccepted
BY DEF GeneratedAccepted, FullForm, BuildMetadataJSON, ValidateMetadata, NotesGiven

LEMMA NoCallTypes == NoCall \in StakeCall /\ NoCall.pc = "idle"
BY ProgramAssumption DEF NoCall, StakeCall, StakeAmounts

LEMMA NoCallSound ==
    ASSUME stakeCall' = NoCall
    PROVE  CallSound'
BY NoCallTypes DEF CallSound

LEMMA ProgramInitially == RegistryInit /\ ProgramInit => ProgramIInv
<1> SUFFICES ASSUME RegistryInit, ProgramInit PROVE ProgramIInv
  OBVIOUS
<1> USE DEF ProgramInit
<1>1. RegistryIInv
  BY RegistryAssumption, RegistryStarts
<1>2. CallSound
  BY NoCallTypes DEF CallSound
<1>3. stakeCall.pc = "idle" /\ stakeCall.amount \in Nat \ {TooLarge}
  BY ProgramAssumption DEF NoCall
<1>4. form \in Form
  BY DEF Form, Methods, AmountTexts
<1>5. /\ NoStake.amount = 0 /\ NoStake.signer = NoAccount /\ NoStake.account = NoAccount
      /\ NoStake.new = FALSE /\ NoStake.tier \in Tiers /\ NoStake.got \in Tiers
  BY DEF NoStake, Tiers
<1>6. ProgramTypeOK
  <2>1. /\ wallet \in Applicants
        /\ shown \in [step : {"build", "host", "stake"}, address : Applicants \cup {NoAccount}]
    OBVIOUS
  <2>2. lastStake = NoStake
    OBVIOUS
  <2>3. /\ lastStake.amount \in Nat
        /\ {lastStake.tier, lastStake.got} \subseteq Tiers
    <3> HIDE DEF ProgramInit
    <3>1. NoStake.amount \in Nat
      BY <1>5
    <3> QED BY <1>5, <2>2, <3>1
  <2>4. /\ stakeCall.pc \in {"idle", "connecting", "balance", "sending"}
        /\ stakeCall.amount \in Nat \ {TooLarge}
    BY <1>3
  <2> HIDE DEF ProgramInit
  <2> QED BY <1>4, <2>1, <2>3, <2>4, Zenon DEF ProgramTypeOK, Tiers
<1>7. StakedAsConfirmed /\ TierAsShown
  <2>1. lastStake = NoStake
    OBVIOUS
  <2> HIDE DEF ProgramInit
  <2>2. StakedAsConfirmed
    BY <1>5, <2>1 DEF StakedAsConfirmed
  <2>3. TierAsShown
    BY <1>5, <2>1 DEF TierAsShown
  <2> QED BY <2>2, <2>3
<1> QED BY <1>1, <1>2, <1>6, <1>7, PageCheckSuffices DEF ProgramIInv, ProgramInv

(* The types the call brings to the invariant of the page.                 *)
LEMMA CallTypes ==
    ASSUME CallSound
    PROVE  /\ stakeCall.pc \in {"idle", "connecting", "balance", "sending"}
           /\ stakeCall.amount \in Nat \ {TooLarge}
<1>1. stakeCall \in StakeCall
  BY DEF CallSound
<1>2. stakeCall.amount \in StakeAmounts
  BY <1>1 DEF StakeCall
<1> QED BY <1>1, <1>2, StakeAmountsAreNumbers DEF StakeCall

(* A step of the page that sends nothing.                                  *)
LEMMA PageStepKeeps ==
    ASSUME ProgramIInv, RegistryIInv', UNCHANGED lastStake, CallSound',
           wallet' \in Applicants, form' \in Form,
           shown' \in [step : {"build", "host", "stake"}, address : Applicants \cup {NoAccount}]
    PROVE  ProgramIInv'
<1>1. /\ stakeCall'.pc \in {"idle", "connecting", "balance", "sending"}
      /\ stakeCall'.amount \in Nat \ {TooLarge}
  <2>1. stakeCall' \in StakeCall
    BY DEF CallSound
  <2>2. stakeCall'.amount \in StakeAmounts
    BY <2>1 DEF StakeCall
  <2> QED BY <2>1, <2>2, StakeAmountsAreNumbers DEF StakeCall
<1>2. ProgramTypeOK'
  BY <1>1 DEF ProgramTypeOK, ProgramIInv, ProgramInv
<1>3. StakedAsConfirmed' /\ TierAsShown'
  BY DEF StakedAsConfirmed, TierAsShown, RoundedAcross, ProgramIInv, ProgramInv
<1>4. GeneratedAccepted'
  BY DEF GeneratedAccepted, ProgramIInv, ProgramInv, FullForm, BuildMetadataJSON, ValidateMetadata, NotesGiven
<1> QED BY <1>2, <1>3, <1>4 DEF ProgramIInv, ProgramInv

LEMMA ProgramTypes ==
    ASSUME ProgramIInv
    PROVE  /\ RegistryIInv /\ CallSound
           /\ wallet \in Applicants /\ form \in Form
           /\ shown \in [step : {"build", "host", "stake"}, address : Applicants \cup {NoAccount}]
           /\ stakeCall \in StakeCall
BY DEF ProgramIInv, ProgramInv, ProgramTypeOK, CallSound

LEMMA QuietRegistry ==
    ASSUME RegistryIInv, UNCHANGED registryVars
    PROVE  RegistryIInv'
BY RegistryAssumption, RegistryStep

LEMMA UpdateKeeps ==
    ASSUME ProgramIInv, Update
    PROVE  ProgramIInv'
<1>1. UNCHANGED <<wallet, shown, stakeCall, lastStake>> /\ UNCHANGED registryVars
  BY DEF Update
<1>2. form \in Form
  BY ProgramTypes
<1>3. form' \in Form
  BY <1>2 DEF Update, Form, AmountTexts
<1>4. CallSound'
  BY <1>1, ProgramTypes DEF CallSound
<1> QED BY <1>1, <1>3, <1>4, ProgramTypes, QuietRegistry, PageStepKeeps

LEMMA ShowKeeps ==
    ASSUME ProgramIInv, SetStep \/ HandleConnect
    PROVE  ProgramIInv'
<1>1. UNCHANGED <<wallet, form, stakeCall, lastStake>> /\ UNCHANGED registryVars
  BY DEF SetStep, HandleConnect
<1>2. /\ shown \in [step : {"build", "host", "stake"}, address : Applicants \cup {NoAccount}]
      /\ wallet \in Applicants
  BY ProgramTypes
<1>3. shown' \in [step : {"build", "host", "stake"}, address : Applicants \cup {NoAccount}]
  BY <1>2 DEF SetStep, HandleConnect, ConnectWallet
<1>4. CallSound'
  BY <1>1, ProgramTypes DEF CallSound
<1> QED BY <1>1, <1>3, <1>4, ProgramTypes, QuietRegistry, PageStepKeeps

LEMMA HandleStakeKeeps ==
    ASSUME ProgramIInv, HandleStake
    PROVE  ProgramIInv'
<1>1. /\ UNCHANGED <<wallet, form, shown, lastStake>> /\ UNCHANGED registryVars
      /\ stakeCall' = [pc |-> "connecting", amount |-> form.amount, uri |-> form.uri,
                       account |-> shown.address, signer |-> NoAccount]
  BY DEF HandleStake
<1>2. /\ shown.address \in Applicants
      /\ form.uri \in URIs
      /\ form.amount \in Amounts \ {TooLarge}
  BY ProgramTypes, ProgramAssumption DEF HandleStake, Form, AmountTexts
<1>3. CallSound'
  BY <1>1, <1>2 DEF CallSound, StakeCall, StakeAmounts
<1> QED BY <1>1, <1>3, ProgramTypes, QuietRegistry, PageStepKeeps

LEMMA CallStepKeeps ==
    ASSUME ProgramIInv, Reconnected \/ BalanceRead \/ SendFails
    PROVE  ProgramIInv'
<1>1. UNCHANGED <<wallet, form, shown, lastStake>> /\ UNCHANGED registryVars
  BY DEF Reconnected, BalanceRead, SendFails
<1>2. CallSound /\ stakeCall \in StakeCall /\ wallet \in Applicants
  BY ProgramTypes
<1>3. CASE stakeCall' = NoCall
  BY <1>1, <1>3, NoCallSound, ProgramTypes, QuietRegistry, PageStepKeeps
<1>4. CASE /\ stakeCall.pc = "connecting" /\ ConnectWallet = stakeCall.account
           /\ stakeCall' = [stakeCall EXCEPT !.pc = "balance", !.signer = ConnectWallet]
  <2>1. CallSound'
    BY <1>2, <1>4 DEF CallSound, StakeCall, ConnectWallet
  <2> QED BY <1>1, <2>1, ProgramTypes, QuietRegistry, PageStepKeeps
<1>5. CASE stakeCall.pc = "balance" /\ stakeCall' = [stakeCall EXCEPT !.pc = "sending"]
  <2>1. CallSound'
    BY <1>2, <1>5 DEF CallSound, StakeCall
  <2> QED BY <1>1, <2>1, ProgramTypes, QuietRegistry, PageStepKeeps
<1> QED BY <1>3, <1>4, <1>5 DEF Reconnected, BalanceRead, SendFails

(* A threshold between an amount and its double.                           *)
Across(v, d) == \E p \in {DeployedReqs.provider, DeployedReqs.institutional} : v < p /\ p <= d

(* Under the requirements of the deployment the label of the double is the *)
(* tier of the amount, but for an amount lifted across a threshold.        *)
LEMMA LabelOfDouble ==
    ASSUME NEW v \in Amounts, stakeReqs = DeployedReqs
    PROVE  TierLabel(NumberOf[v]) = TierForStake(v) <=> ~Across(v, NumberOf[v])
<1> DEFINE d == NumberOf[v]
           p == DeployedReqs.provider
           q == DeployedReqs.institutional
<1>1. v \in Nat /\ d \in Nat /\ p \in Nat /\ q \in Nat /\ p <= q
  BY RegistryAssumption, RoundingAssumption
<1>2. (v >= p => d >= p) /\ (v >= q => d >= q)
  BY RoundingAssumption
<1>3. TierForStake(v) = IF v >= q THEN "Institutional" ELSE IF v >= p THEN "KYCProvider" ELSE "Community"
  BY DEF TierForStake
<1>4. TierLabel(d) = IF d >= q THEN "Institutional" ELSE IF d >= p THEN "KYCProvider" ELSE "Community"
  BY DEF TierLabel
<1>5. Across(v, d) <=> (v < p /\ p <= d) \/ (v < q /\ q <= d)
  BY DEF Across
<1> HIDE DEF d, p, q
<1>6. ASSUME v >= q PROVE (TierLabel(d) = TierForStake(v)) <=> ~Across(v, d)
  <2>1. d >= q /\ ~(v < p) /\ ~(v < q)
    BY <1>1, <1>2, <1>6
  <2>2. TierLabel(d) = TierForStake(v)
    BY <1>3, <1>4, <1>6, <2>1
  <2> QED BY <1>5, <2>1, <2>2
<1>7. ASSUME ~(v >= q), d >= q PROVE (TierLabel(d) = TierForStake(v)) <=> ~Across(v, d)
  <2>1. v < q /\ q <= d
    BY <1>1, <1>7
  <2>2. TierLabel(d) # TierForStake(v)
    BY <1>3, <1>4, <1>7
  <2> QED BY <1>5, <2>1, <2>2
<1>8. ASSUME ~(v >= q), ~(d >= q) PROVE (TierLabel(d) = TierForStake(v)) <=> ~Across(v, d)
  <2>1. ~(q <= d)
    BY <1>1, <1>8
  <2>2. CASE v < p /\ p <= d
    <3>1. d >= p /\ ~(v >= p)
      BY <1>1, <2>2
    <3>2. TierLabel(d) # TierForStake(v)
      BY <1>3, <1>4, <1>8, <3>1
    <3> QED BY <1>5, <2>2, <3>2
  <2>3. CASE ~(v < p /\ p <= d)
    <3>1. d >= p <=> v >= p
      BY <1>1, <1>2, <2>3
    <3>2. TierLabel(d) = TierForStake(v)
      BY <1>3, <1>4, <1>8, <3>1
    <3> QED BY <1>5, <2>1, <2>3, <3>2
  <2> QED BY <2>2, <2>3
<1>9. TierLabel(d) = TierForStake(v) <=> ~Across(v, d)
  BY <1>6, <1>7, <1>8
<1> USE DEF d
<1> QED BY <1>9

LEMMA SendKeeps ==
    ASSUME ProgramIInv, Send
    PROVE  ProgramIInv'
<1> USE ProgramTypes
<1> DEFINE a == stakeCall.signer
           v == stakeCall.amount
<1>1. /\ stakeCall.pc = "sending"
      /\ StakeAndRegister(a, v, stakeCall.uri)
      /\ UNCHANGED <<wallet, form, shown>>
      /\ stakeCall' = NoCall
      /\ lastStake' = [signer |-> a, account |-> stakeCall.account, amount |-> v,
                       confirmed |-> NumberOf[v], reqs |-> stakeReqs, new |-> a \notin registered,
                       tier |-> TierLabel(NumberOf[v]), got |-> issuers'[a].tier]
  BY DEF Send, SentWith
<1>2. a \in Issuers /\ v \in Amounts /\ stakeCall.uri \in URIs /\ a = stakeCall.account
  BY <1>1, ProgramAssumption DEF CallSound
<1>3. RegistryNext
  BY <1>1, <1>2 DEF RegistryNext
<1>4. RegistryIInv'
  BY <1>3, RegistryAssumption, RegistryStep
<1>5. CallSound'
  BY <1>1, NoCallSound
<1>6. /\ issuers \in [Issuers -> IssuerRecord] /\ issuers' \in [Issuers -> IssuerRecord]
      /\ (a \notin registered => issuers[a] = NoIssuer)
  BY <1>2, <1>4 DEF RegistryIInv, RegistryInv, RegistryTypeOK, ListedOnce
<1>7. issuers'[a].tier = TierForStake(issuers[a].stake + v)
  <2>1. /\ issuers[a] \in IssuerRecord
        /\ issuers' = [issuers EXCEPT ![a] = Staked(a, v)]
           \/ issuers' = [issuers EXCEPT ![a] = [Staked(a, v) EXCEPT !.metadataURI = stakeCall.uri]]
    BY <1>1, <1>2, <1>6 DEF StakeAndRegister
  <2>2. /\ Staked(a, v).tier = TierForStake(issuers[a].stake + v)
        /\ [Staked(a, v) EXCEPT !.metadataURI = stakeCall.uri].tier = TierForStake(issuers[a].stake + v)
    BY <2>1 DEF Staked, IssuerRecord
  <2> QED BY <1>2, <1>6, <2>1, <2>2
<1>8. a \notin registered => issuers'[a].tier = TierForStake(v)
  <2>1. a \notin registered => issuers[a].stake = 0
    BY <1>6 DEF NoIssuer
  <2>2. v \in Nat
    BY <1>2, RegistryAssumption
  <2> QED BY <1>7, <2>1, <2>2
<1>9. TierLabel(NumberOf[v]) \in Tiers /\ issuers'[a].tier \in Tiers /\ v \in Nat
  <2>1. issuers'[a] \in IssuerRecord
    BY <1>2, <1>6
  <2> QED BY <1>2, <2>1, RegistryAssumption DEF TierLabel, Tiers, IssuerRecord
<1>10. stakeCall'.pc = "idle" /\ stakeCall'.amount \in Nat \ {TooLarge}
  BY <1>1, ProgramAssumption DEF NoCall
<1>11. ProgramTypeOK'
  BY <1>1, <1>9, <1>10 DEF ProgramTypeOK
<1>12. StakedAsConfirmed' /\ TierAsShown'
  <2>1. StakedAsConfirmed'
    BY <1>1, <1>2 DEF StakedAsConfirmed
  <2>2. a \notin registered /\ stakeReqs = DeployedReqs
            => (TierLabel(NumberOf[v]) = issuers'[a].tier <=> ~Across(v, NumberOf[v]))
    BY <1>2, <1>8, LabelOfDouble
  <2>3. RoundedAcross' <=> Across(v, NumberOf[v])
    BY <1>1 DEF RoundedAcross, Across
  <2> QED BY <1>1, <2>1, <2>2, <2>3 DEF TierAsShown
<1>13. GeneratedAccepted'
  BY PageCheckSuffices DEF GeneratedAccepted, FullForm, BuildMetadataJSON, ValidateMetadata, NotesGiven
<1> QED BY <1>4, <1>5, <1>11, <1>12, <1>13 DEF ProgramIInv, ProgramInv

LEMMA OthersKeep ==
    ASSUME ProgramIInv,
           \/ WalletChanges
           \/ RegistryNext /\ UNCHANGED programVars
           \/ UNCHANGED <<registryVars, programVars>>
    PROVE  ProgramIInv'
<1>1. /\ UNCHANGED <<form, shown, stakeCall, lastStake>>
      /\ wallet' \in Applicants
      /\ [RegistryNext]_registryVars
  BY ProgramTypes DEF WalletChanges, programVars, registryVars
<1>2. RegistryIInv'
  BY <1>1, RegistryAssumption, RegistryStep, ProgramTypes
<1>3. CallSound'
  BY <1>1, ProgramTypes DEF CallSound
<1> QED BY <1>1, <1>2, <1>3, ProgramTypes, PageStepKeeps

LEMMA ProgramStep ==
    ProgramIInv /\ [ProgramNext \/ (RegistryNext /\ UNCHANGED programVars)]_<<registryVars, programVars>>
        => ProgramIInv'
BY UpdateKeeps, ShowKeeps, HandleStakeKeeps, CallStepKeeps, SendKeeps, OthersKeep DEF ProgramNext

(* For every form, wallet, rounding and requirements set later: what is    *)
(* sent comes from the account shown and is an amount whose double was     *)
(* confirmed, however the wallet moves in between; and under the           *)
(* requirements of the deployment a new issuer gets the tier the page      *)
(* named, unless only the double of its amount reaches the threshold.      *)
THEOREM StakesAsConfirmed == ProgramSpec => []ProgramInv
<1>1. ProgramIInv => ProgramInv
  BY DEF ProgramIInv
<1> QED BY ProgramInitially, ProgramStep, <1>1, PTL DEF ProgramSpec

-----------------------------------------------------------------------------
(* The directory: its cache of metadata.                                   *)

CacheEntry == [uri : URIs, doc : Metadata \cup {"none"}, at : Nat]

(* A URI has one entry, and none was written in the future.                *)
EntriesSound(cache, now) ==
    /\ cache \in Seq(CacheEntry)
    /\ \A i, j \in DOMAIN cache : cache[i].uri = cache[j].uri => i = j
    /\ \A i \in DOMAIN cache : cache[i].at <= now

CacheSound(cache, now) == EntriesSound(cache, now) /\ Len(cache) <= CacheMax

(* Removing the element at a position.                                     *)
LEMMA RemoveAtElements ==
    ASSUME NEW S, NEW s \in Seq(S), NEW k \in 1..Len(s)
    PROVE  /\ RemoveAt(s, k) \in Seq(S)
           /\ Len(RemoveAt(s, k)) = Len(s) - 1
           /\ \A i \in 1..(k - 1) : RemoveAt(s, k)[i] = s[i]
           /\ \A i \in k..(Len(s) - 1) : RemoveAt(s, k)[i] = s[i + 1]
<1>1. Len(s) \in Nat /\ k - 1 \in 0..Len(s) /\ k + 1 \in 1..(Len(s) + 1)
  OBVIOUS
<1> DEFINE a == SubSeq(s, 1, k - 1)
           b == SubSeq(s, k + 1, Len(s))
<1>2. /\ a \in Seq(S) /\ Len(a) = k - 1
      /\ \A i \in 1..(k - 1) : a[i] = s[i]
  BY <1>1
<1>3. /\ b \in Seq(S) /\ Len(b) = Len(s) - k
      /\ \A i \in 1..(Len(s) - k) : b[i] = s[i + k]
  <2>1. PICK m \in Int : m = k + 1
    BY <1>1
  <2>2. PICK n \in Int : n = Len(s)
    BY <1>1
  <2>3. \A i \in m..n : s[i] \in S
    BY <1>1, <2>1, <2>2
  <2>4. /\ SubSeq(s, m, n) \in Seq(S)
        /\ Len(SubSeq(s, m, n)) = IF m <= n THEN n - m + 1 ELSE 0
        /\ \A i \in 1..(n - m + 1) : SubSeq(s, m, n)[i] = s[m + i - 1]
    BY <2>3, SubSeqProperties
  <2>5. b = SubSeq(s, m, n)
    BY <2>1, <2>2
  <2>6. n - m + 1 = Len(s) - k /\ (IF m <= n THEN n - m + 1 ELSE 0) = Len(s) - k
    BY <1>1, <2>1, <2>2
  <2>7. \A i \in 1..(Len(s) - k) : m + i - 1 = i + k
    BY <1>1, <2>1
  <2> HIDE DEF b
  <2> QED BY <2>4, <2>5, <2>6, <2>7
<1>4. RemoveAt(s, k) = a \o b
  BY DEF RemoveAt
<1> HIDE DEF a, b
<1>5. /\ a \o b \in Seq(S) /\ Len(a \o b) = Len(a) + Len(b)
      /\ \A i \in 1..Len(a) + Len(b) : (a \o b)[i] = IF i <= Len(a) THEN a[i] ELSE b[i - Len(a)]
  BY <1>2, <1>3, ConcatProperties
<1>6. Len(a \o b) = Len(s) - 1
  BY <1>1, <1>2, <1>3, <1>5
<1>7. \A i \in 1..(k - 1) : (a \o b)[i] = s[i]
  BY <1>1, <1>2, <1>5, <1>6
<1>8. ASSUME NEW i \in k..(Len(s) - 1) PROVE (a \o b)[i] = s[i + 1]
  <2>1. i \in 1..Len(a \o b) /\ ~ (i <= Len(a)) /\ i - Len(a) = i - k + 1 /\ i - k + 1 \in 1..(Len(s) - k)
    BY <1>1, <1>2, <1>6
  <2>2. b[i - k + 1] = s[i - k + 1 + k] /\ i - k + 1 + k = i + 1
    BY <1>1, <1>3, <2>1
  <2> QED BY <1>5, <2>1, <2>2
<1> QED BY <1>4, <1>5, <1>6, <1>7, <1>8

LEMMA WithoutSound ==
    ASSUME EntriesSound(metadataCache, time), NEW uri \in URIs
    PROVE  /\ EntriesSound(Without(uri), time)
           /\ \A i \in DOMAIN Without(uri) : Without(uri)[i].uri # uri
           /\ Len(Without(uri)) = IF Entry(uri) = {} THEN Len(metadataCache) ELSE Len(metadataCache) - 1
<1>1. metadataCache \in Seq(CacheEntry)
  BY DEF EntriesSound
<1>2. CASE Entry(uri) = {}
  BY <1>2 DEF Without, Entry
<1>3. CASE Entry(uri) # {}
  <2> DEFINE s == metadataCache
             k == At(uri)
             t == RemoveAt(metadataCache, k)
  <2>1. k \in Entry(uri)
    BY <1>3 DEF At
  <2>2. k \in 1..Len(s) /\ s[k].uri = uri
    BY <1>1, <2>1 DEF Entry
  <2>3. /\ t \in Seq(CacheEntry) /\ Len(t) = Len(s) - 1
        /\ \A i \in 1..(k - 1) : t[i] = s[i]
        /\ \A i \in k..(Len(s) - 1) : t[i] = s[i + 1]
    <3> HIDE DEF k
    <3> QED BY <1>1, <2>2, RemoveAtElements
  <2> DEFINE from(i) == IF i < k THEN i ELSE i + 1
  <2> HIDE DEF t, k
  <2>4. \A i \in DOMAIN t : /\ from(i) \in DOMAIN s /\ from(i) # k
                            /\ t[i] = s[from(i)]
    <3> TAKE i \in DOMAIN t
    <3>1. Len(s) \in Nat /\ i \in 1..(Len(s) - 1)
      BY <1>1, <2>3
    <3>2. CASE i < k
      BY <1>1, <2>2, <2>3, <3>1, <3>2
    <3>3. CASE ~ (i < k)
      BY <1>1, <2>2, <2>3, <3>1, <3>3
    <3> QED BY <3>2, <3>3
  <2>5. \A i, j \in DOMAIN t : from(i) = from(j) => i = j
    BY <2>2, <2>3
  <2> HIDE DEF from
  <2>6. \A i, j \in DOMAIN s : s[i].uri = s[j].uri => i = j
    BY DEF EntriesSound
  <2>7. \A i, j \in DOMAIN t : t[i].uri = t[j].uri => i = j
    BY <2>4, <2>5, <2>6
  <2>8. \A i \in DOMAIN t : t[i].uri # uri
    BY <1>1, <2>2, <2>4, <2>6
  <2>9. \A i \in DOMAIN t : t[i].at <= time
    BY <2>4 DEF EntriesSound
  <2>10. Without(uri) = t
    BY <1>3 DEF Without, t, k
  <2> QED BY <1>3, <2>3, <2>7, <2>8, <2>9, <2>10 DEF EntriesSound
<1> QED BY <1>2, <1>3

LEMMA AppendEntrySound ==
    ASSUME NEW s, NEW now, EntriesSound(s, now), NEW e \in CacheEntry, e.at <= now,
           \A i \in DOMAIN s : s[i].uri # e.uri
    PROVE  EntriesSound(Append(s, e), now) /\ Len(Append(s, e)) = Len(s) + 1
<1> DEFINE t == Append(s, e)
<1>1. s \in Seq(CacheEntry)
  BY DEF EntriesSound
<1>2. /\ t \in Seq(CacheEntry) /\ Len(t) = Len(s) + 1
      /\ \A i \in 1..Len(s) : t[i] = s[i]
      /\ t[Len(s) + 1] = e
  BY <1>1, AppendProperties
<1>3. DOMAIN t = 1..(Len(s) + 1) /\ DOMAIN s = 1..Len(s) /\ Len(s) \in Nat
  BY <1>1, <1>2
<1> HIDE DEF t
<1>4. \A i \in DOMAIN t : \/ i \in DOMAIN s /\ t[i] = s[i]
                          \/ i = Len(s) + 1 /\ t[i] = e
  BY <1>2, <1>3
<1>5. /\ \A i, j \in DOMAIN s : s[i].uri = s[j].uri => i = j
      /\ \A i \in DOMAIN s : s[i].at <= now
  BY DEF EntriesSound
<1>6. \A i, j \in DOMAIN t : t[i].uri = t[j].uri => i = j
  BY <1>4, <1>5
<1>7. \A i \in DOMAIN t : t[i].at <= now
  BY <1>4, <1>5
<1> QED BY <1>2, <1>6, <1>7 DEF EntriesSound, t

LEMMA TailSound ==
    ASSUME NEW s, NEW now, EntriesSound(s, now), s # <<>>
    PROVE  EntriesSound(Tail(s), now) /\ Len(Tail(s)) = Len(s) - 1
<1>1. s \in Seq(CacheEntry)
  BY DEF EntriesSound
<1>2. /\ Tail(s) \in Seq(CacheEntry) /\ Len(Tail(s)) = Len(s) - 1
      /\ \A i \in 1..Len(Tail(s)) : Tail(s)[i] = s[i + 1]
  BY <1>1, HeadTailProperties
<1> DEFINE t == Tail(s)
<1> HIDE DEF t
<1>3. \A i \in DOMAIN t : i + 1 \in DOMAIN s /\ t[i] = s[i + 1] /\ i \in Nat
  BY <1>1, <1>2 DEF t
<1>4. /\ \A i, j \in DOMAIN s : s[i].uri = s[j].uri => i = j
      /\ \A i \in DOMAIN s : s[i].at <= now
  BY DEF EntriesSound
<1>5. \A i, j \in DOMAIN t : t[i].uri = t[j].uri => i = j
  <2> TAKE i, j \in DOMAIN t
  <2> HAVE t[i].uri = t[j].uri
  <2>1. i + 1 = j + 1
    BY <1>3, <1>4
  <2> QED BY <1>3, <2>1
<1>6. \A i \in DOMAIN t : t[i].at <= now
  BY <1>3, <1>4
<1> QED BY <1>2, <1>5, <1>6 DEF EntriesSound, t

(* Reading moves an entry to the end; writing drops the oldest one when    *)
(* the cache is full.                                                      *)
LEMMA CacheGetSound ==
    ASSUME CacheSound(metadataCache, time), NEW uri \in URIs
    PROVE  CacheSound(CacheGet(uri), time)
<1>1. CASE Entry(uri) = {}
  BY <1>1 DEF CacheGet
<1>2. CASE Entry(uri) # {}
  <2> DEFINE e == metadataCache[At(uri)]
  <2>1. At(uri) \in Entry(uri) /\ metadataCache \in Seq(CacheEntry)
    BY <1>2 DEF At, CacheSound, EntriesSound
  <2>2. e \in CacheEntry /\ e.uri = uri /\ e.at <= time
    BY <2>1 DEF Entry, CacheSound, EntriesSound
  <2> HIDE DEF e
  <2>3. /\ EntriesSound(Without(uri), time)
        /\ \A i \in DOMAIN Without(uri) : Without(uri)[i].uri # e.uri
        /\ Len(Without(uri)) = Len(metadataCache) - 1
    BY <1>2, <2>2, WithoutSound DEF CacheSound
  <2>4. EntriesSound(Append(Without(uri), e), time) /\ Len(Append(Without(uri), e)) = Len(metadataCache)
    <3>1. Len(metadataCache) \in Nat
      BY <2>1
    <3> QED BY <2>2, <2>3, <3>1, AppendEntrySound
  <2> QED BY <1>2, <2>4 DEF CacheGet, CacheSound, e
<1> QED BY <1>1, <1>2

LEMMA CacheSetSound ==
    ASSUME CacheSound(metadataCache, time), time \in Nat, NEW uri \in URIs, NEW doc \in Metadata \cup {"none"}
    PROVE  CacheSound(CacheSet(uri, doc), time)
<1> DEFINE e == [uri |-> uri, doc |-> doc, at |-> time]
           full == CacheSetOnly(uri, doc)
<1>1. e \in CacheEntry /\ e.uri = uri /\ e.at <= time
  BY DEF CacheEntry
<1> HIDE DEF e
<1>2. metadataCache \in Seq(CacheEntry) /\ Len(metadataCache) \in Nat /\ Len(metadataCache) <= CacheMax
  BY DEF CacheSound, EntriesSound
<1>3. /\ EntriesSound(Without(uri), time)
      /\ \A i \in DOMAIN Without(uri) : Without(uri)[i].uri # e.uri
      /\ Len(Without(uri)) <= CacheMax
      /\ Len(Without(uri)) \in Nat
  <2>1. Entry(uri) # {} => Len(metadataCache) # 0
    BY <1>2 DEF Entry
  <2>2. EntriesSound(metadataCache, time)
    BY DEF CacheSound
  <2>3. Len(Without(uri)) = IF Entry(uri) = {} THEN Len(metadataCache) ELSE Len(metadataCache) - 1
    BY <2>2, WithoutSound
  <2>4. CacheMax \in Nat
    BY DirectoryAssumption
  <2>5. Len(Without(uri)) <= CacheMax /\ Len(Without(uri)) \in Nat
    BY <1>2, <2>1, <2>3, <2>4
  <2> QED BY <1>1, <2>2, <2>5, WithoutSound
<1>4. full = Append(Without(uri), e)
  BY DEF CacheSetOnly, e
<1>5. EntriesSound(full, time) /\ Len(full) = Len(Without(uri)) + 1
  BY <1>1, <1>3, <1>4, AppendEntrySound
<1> HIDE DEF full
<1>6. CASE Len(full) > CacheMax
  <2>1. full # <<>>
    BY <1>3, <1>5
  <2>2. EntriesSound(Tail(full), time) /\ Len(Tail(full)) = Len(full) - 1
    BY <1>5, <2>1, TailSound
  <2>3. CacheMax \in Nat
    BY DirectoryAssumption
  <2>4. Len(Tail(full)) <= CacheMax
    BY <1>3, <1>5, <2>2, <2>3
  <2> QED BY <1>6, <2>2, <2>4 DEF CacheSet, CacheSound, full
<1>7. CASE ~ (Len(full) > CacheMax)
  <2>1. CacheMax \in Nat
    BY DirectoryAssumption
  <2>2. Len(full) <= CacheMax
    BY <1>3, <1>5, <1>7, <2>1
  <2> QED BY <1>5, <1>7, <2>2 DEF CacheSet, CacheSound, full
<1> QED BY <1>6, <1>7

-----------------------------------------------------------------------------
(* The directory: one load of the list.                                    *)

Load == [pc : {"idle", "chain", "list", "rows", "failed"}, list : Seq(Issuers), cursor : Nat,
         work : SUBSET Item, rows : Seq(SUBSET Row), since : Nat]

(* Metadata was fetched after the record, or was young when it was read.   *)
FoundSound(got, readAt, now) ==
    got.doc # "none" => got.at <= now /\ (readAt <= got.at \/ readAt < got.at + MetadataTTL)

RowSound(row, addr, since, now) ==
    /\ row \in Row
    /\ row.addr = addr
    /\ since <= row.readAt /\ row.readAt <= now
    /\ FoundSound(row.meta, row.readAt, now)

WorkSound(w, c, now) ==
    /\ w.i \in 1..c.cursor
    /\ w.row.addr = c.list[w.i]
    /\ w.step = "record" => w.row.meta.doc = "none"
    /\ w.step = "metadata" => w.uri \in URIs /\ c.since <= w.row.readAt /\ w.row.readAt <= now

(* A load works on a prefix of the registry's list, every place up to the  *)
(* cursor is filled or at work, and it began at most LoadBound ago.        *)
LoadSound(c, list, now) ==
    /\ c \in Load
    /\ Len(c.list) <= Len(list) /\ \A i \in 1..Len(c.list) : c.list[i] = list[i]
    /\ c.cursor <= Len(c.list)
    /\ Len(c.rows) = Len(c.list)
    /\ c.since <= now
    /\ c.pc # "idle" => now <= c.since + LoadBound
    /\ IsFiniteSet(c.work) /\ Cardinality(c.work) <= Concurrency
    /\ \A w \in c.work : WorkSound(w, c, now)
    /\ \A i \in 1..Len(c.list) :
          c.rows[i] = {} \/ \E row : c.rows[i] = {row} /\ RowSound(row, c.list[i], c.since, now)
    /\ c.pc = "rows" =>
          /\ \A i \in 1..c.cursor : c.rows[i] # {} \/ \E w \in c.work : w.i = i
          /\ c.work = {} => c.cursor = Len(c.list)

LEMMA BoundsAreNumbers ==
    /\ ListTTL \in Nat /\ MetadataTTL \in Nat /\ LoadBound \in Nat /\ GovernanceTTL \in Nat
    /\ Concurrency \in Nat \ {0} /\ MaxTime \in Nat \ {0}
BY DirectoryAssumption

LEMMA LoadFacts ==
    ASSUME NEW c, NEW list, NEW now \in Nat, LoadSound(c, list, now)
    PROVE  /\ c.pc \in {"idle", "chain", "list", "rows", "failed"}
           /\ c.list \in Seq(Issuers) /\ Len(c.list) \in Nat
           /\ c.cursor \in Nat /\ c.since \in Nat
           /\ c.rows \in Seq(SUBSET Row)
           /\ c.work \in SUBSET Item
BY DEF LoadSound, Load

LEMMA NewItemSound ==
    ASSUME NEW list \in Seq(Issuers), NEW i \in 1..Len(list)
    PROVE  /\ NewItem(list, i) \in Item
           /\ NewItem(list, i).i = i /\ NewItem(list, i).step = "record"
           /\ NewItem(list, i).row.addr = list[i] /\ NewItem(list, i).row.meta.doc = "none"
BY DEF NewItem, Item, Row, Found, NoMetadata

(* A result stored: what was at work is filled, and the next place, if     *)
(* any, is at work.                                                        *)
LEMMA FinishedSound ==
    ASSUME NEW c, NEW list, NEW now \in Nat, LoadSound(c, list, now),
           NEW w \in c.work, NEW row, RowSound(row, c.list[w.i], c.since, now)
    PROVE  LoadSound(Finished(c, w, row), list, now)
<1> DEFINE n == Len(c.list)
           more == c.cursor < n
           item == NewItem(c.list, c.cursor + 1)
           work == IF more THEN (c.work \ {w}) \cup {item} ELSE c.work \ {w}
           cursor == IF more THEN c.cursor + 1 ELSE c.cursor
           filled == [c.rows EXCEPT ![w.i] = {row}]
           d == [c EXCEPT !.work = work, !.cursor = cursor, !.rows = filled]
<1>1. /\ c \in Load /\ c.list \in Seq(Issuers) /\ n \in Nat
      /\ c.cursor \in Nat /\ c.since \in Nat /\ c.cursor <= n
      /\ c.rows \in Seq(SUBSET Row) /\ Len(c.rows) = n
      /\ c.work \in SUBSET Item
      /\ WorkSound(w, c, now)
  BY LoadFacts DEF LoadSound
<1>2. w.i \in 1..c.cursor /\ w.i \in 1..n /\ row \in Row
  BY <1>1 DEF WorkSound, RowSound
<1>3. more => /\ item \in Item /\ item.i = c.cursor + 1 /\ item.step = "record"
              /\ item.row.addr = c.list[c.cursor + 1] /\ item.row.meta.doc = "none"
  <2>1. more => c.cursor + 1 \in 1..n
    BY <1>1
  <2> QED BY <1>1, <2>1, NewItemSound
<1> HIDE DEF item
<1>4. work \in SUBSET Item /\ cursor \in Nat /\ cursor <= n /\ c.cursor <= cursor
  BY <1>1, <1>3
<1>5. /\ filled \in Seq(SUBSET Row) /\ Len(filled) = n
      /\ filled[w.i] = {row}
      /\ \A i \in 1..n : i # w.i => filled[i] = c.rows[i]
  BY <1>1, <1>2
<1>6. Finished(c, w, row) = d
  <2>1. CASE more
    BY <1>1, <2>1 DEF Finished, Load, item
  <2>2. CASE ~more
    BY <1>1, <2>2 DEF Finished, Load
  <2> QED BY <2>1, <2>2
<1>7. IsFiniteSet(work) /\ Cardinality(work) <= Concurrency
  <2>1. IsFiniteSet(c.work) /\ Cardinality(c.work) <= Concurrency /\ Cardinality(c.work) \in Nat
    BY FS_CardinalityType DEF LoadSound
  <2>2. IsFiniteSet(c.work \ {w}) /\ Cardinality(c.work \ {w}) = Cardinality(c.work) - 1
    BY <2>1, FS_RemoveElement
  <2>3. /\ IsFiniteSet((c.work \ {w}) \cup {item})
        /\ Cardinality((c.work \ {w}) \cup {item}) =
              IF item \in c.work \ {w} THEN Cardinality(c.work \ {w}) ELSE Cardinality(c.work \ {w}) + 1
    BY <2>2, FS_AddElement
  <2>4. Concurrency \in Nat
    BY DirectoryAssumption
  <2> QED BY <2>1, <2>2, <2>3, <2>4
<1>11. more => work = (c.work \ {w}) \cup {item} /\ cursor = c.cursor + 1
  OBVIOUS
<1>12. ~more => work = c.work \ {w} /\ cursor = c.cursor
  OBVIOUS
<1>8. \A v \in work : (v \in c.work /\ v # w) \/ (more /\ v = item)
  <2> HIDE DEF work, more
  <2> QED BY <1>11, <1>12
<1>9. \A v \in c.work : v # w => v \in work
  <2> HIDE DEF work, more
  <2> QED BY <1>11, <1>12
<1>10. work = {} => ~more
  <2> HIDE DEF work, more
  <2> QED BY <1>11
<1> HIDE DEF work, cursor, filled
<1>13. /\ d \in Load /\ d.pc = c.pc /\ d.list = c.list /\ d.since = c.since
       /\ d.work = work /\ d.cursor = cursor /\ d.rows = filled
  BY <1>1, <1>4, <1>5 DEF Load
<1> HIDE DEF d
<1>14. ASSUME NEW v \in d.work PROVE WorkSound(v, d, now)
  <2>1. CASE v \in c.work
    <3>1. WorkSound(v, c, now)
      BY <2>1 DEF LoadSound
    <3>2. v.i \in 1..cursor
      BY <1>1, <1>4, <3>1 DEF WorkSound
    <3> QED BY <1>13, <3>1, <3>2 DEF WorkSound
  <2>2. CASE more /\ v = item
    <3>1. v.i \in 1..cursor
      BY <1>1, <1>3, <1>11, <2>2
    <3> QED BY <1>3, <1>13, <2>2, <3>1 DEF WorkSound
  <2> QED BY <1>8, <1>13, <2>1, <2>2
<1>15. \A i \in 1..Len(d.list) :
          d.rows[i] = {} \/ \E r : d.rows[i] = {r} /\ RowSound(r, d.list[i], d.since, now)
  BY <1>2, <1>5, <1>13 DEF LoadSound
<1>16. ASSUME d.pc = "rows", NEW i \in 1..d.cursor
       PROVE  d.rows[i] # {} \/ \E v \in d.work : v.i = i
  <2>1. CASE i = w.i
    BY <1>5, <1>13, <2>1
  <2>2. CASE i # w.i /\ i \in 1..c.cursor
    <3>1. i \in 1..n
      BY <1>1, <2>2
    <3>2. c.rows[i] # {} \/ \E v \in c.work : v.i = i
      BY <1>13, <1>16, <2>2 DEF LoadSound
    <3> QED BY <1>5, <1>9, <1>13, <2>2, <3>1, <3>2
  <2>3. CASE i \notin 1..c.cursor
    <3>1. more /\ i = c.cursor + 1
      BY <1>1, <1>4, <1>11, <1>12, <1>13, <2>3
    <3> QED BY <1>3, <1>11, <1>13, <3>1
  <2> QED BY <2>1, <2>2, <2>3
<1>17. d.pc = "rows" /\ d.work = {} => d.cursor = Len(d.list)
  BY <1>1, <1>10, <1>12, <1>13
<1>18. LoadSound(d, list, now)
  BY <1>5, <1>7, <1>4, <1>13, <1>14, <1>15, <1>16, <1>17 DEF LoadSound
<1> QED BY <1>6, <1>18

(* Time passes, and the registry's list grows.                             *)
LEMMA LoadLater ==
    ASSUME NEW c, NEW list, NEW now \in Nat, LoadSound(c, list, now),
           c.pc # "idle" => now < c.since + LoadBound
    PROVE  LoadSound(c, list, now + 1)
<1>1. c.since \in Nat /\ c.list \in Seq(Issuers) /\ c.work \in SUBSET Item
  BY LoadFacts
<1>2. \A row, addr : RowSound(row, addr, c.since, now) => RowSound(row, addr, c.since, now + 1)
  <2> TAKE row, addr
  <2> HAVE RowSound(row, addr, c.since, now)
  <2>1. row.readAt \in Nat /\ row.meta.at \in Nat
    BY DEF RowSound, Row, Found
  <2> QED BY <2>1 DEF RowSound, FoundSound
<1>3. \A w \in c.work : WorkSound(w, c, now + 1)
  <2> TAKE w \in c.work
  <2>1. w.row.readAt \in Nat
    BY <1>1 DEF Item, Row
  <2>2. WorkSound(w, c, now)
    BY DEF LoadSound
  <2> QED BY <2>1, <2>2 DEF WorkSound
<1>4. c.pc # "idle" => now + 1 <= c.since + LoadBound
  BY <1>1, BoundsAreNumbers
<1>5. c.since <= now + 1
  BY <1>1 DEF LoadSound
<1>6. \A i \in 1..Len(c.list) :
          c.rows[i] = {} \/ \E row : c.rows[i] = {row} /\ RowSound(row, c.list[i], c.since, now + 1)
  BY <1>2 DEF LoadSound
<1> QED BY <1>3, <1>4, <1>5, <1>6 DEF LoadSound

LEMMA LoadOnGrownList ==
    ASSUME NEW c, NEW list \in Seq(Issuers), NEW more \in Seq(Issuers), NEW now \in Nat,
           LoadSound(c, list, now),
           Len(list) <= Len(more), \A i \in 1..Len(list) : more[i] = list[i]
    PROVE  LoadSound(c, more, now)
<1>1. c.list \in Seq(Issuers) /\ Len(c.list) \in Nat /\ Len(list) \in Nat /\ Len(more) \in Nat
  BY LoadFacts
<1>2. Len(c.list) <= Len(list) /\ \A i \in 1..Len(c.list) : c.list[i] = list[i]
  BY DEF LoadSound
<1>3. Len(c.list) <= Len(more) /\ \A i \in 1..Len(c.list) : c.list[i] = more[i]
  BY <1>1, <1>2
<1> QED BY <1>3 DEF LoadSound

(* A request that rests or has only begun.                                 *)
LEMMA RestingSound ==
    ASSUME NEW list \in Seq(Issuers), NEW now \in Nat, NEW c \in Load,
           c.pc # "rows", c.pc # "idle" => now <= c.since + LoadBound, c.since <= now,
           c.list = <<>>, c.cursor = 0, c.work = {}, c.rows = <<>>
    PROVE  LoadSound(c, list, now)
<1>1. Len(c.list) = 0 /\ Len(c.rows) = 0 /\ Len(list) \in Nat
  OBVIOUS
<1>2. IsFiniteSet({}) /\ Cardinality({}) = 0
  BY FS_EmptySet
<1> QED BY <1>1, <1>2, BoundsAreNumbers DEF LoadSound

LEMMA IdleSound ==
    ASSUME NEW list \in Seq(Issuers), NEW now \in Nat
    PROVE  /\ LoadSound(Idle, list, now)
           /\ Idle \in Load /\ Idle.pc = "idle"
           /\ Idle.list = <<>> /\ Idle.cursor = 0 /\ Idle.work = {} /\ Idle.rows = <<>>
<1>1. <<>> \in Seq(Issuers) /\ <<>> \in Seq(SUBSET Row) /\ {} \in SUBSET Item
  OBVIOUS
<1>2. /\ Idle \in Load /\ Idle.pc = "idle" /\ Idle.since = 0
      /\ Idle.list = <<>> /\ Idle.cursor = 0 /\ Idle.work = {} /\ Idle.rows = <<>>
  BY <1>1 DEF Idle, Load
<1> QED BY <1>2, RestingSound

(* The workers that start with a list just read.                           *)
LEMMA WorkersStart ==
    ASSUME NEW list \in Seq(Issuers), NEW n \in 0..Len(list), n <= Concurrency
    PROVE  LET work == {NewItem(list, i) : i \in 1..n}
           IN  IsFiniteSet(work) /\ Cardinality(work) <= Concurrency
<1> DEFINE work == {NewItem(list, i) : i \in 1..n}
           f == [i \in 1..n |-> NewItem(list, i)]
<1>1. f \in Surjection(1..n, work)
  BY DEF Surjection
<1>2. n \in Int /\ 1 \in Int
  OBVIOUS
<1>3. IsFiniteSet(1..n) /\ Cardinality(1..n) = IF 1 > n THEN 0 ELSE n - 1 + 1
  BY <1>2, FS_Interval
<1>4. Cardinality(1..n) = n
  BY <1>3
<1> HIDE DEF work, f
<1>5. IsFiniteSet(work) /\ Cardinality(work) <= Cardinality(1..n)
  BY <1>1, <1>3, FS_Surjection
<1>6. Cardinality(work) \in Nat /\ Concurrency \in Nat
  BY <1>5, FS_CardinalityType, DirectoryAssumption
<1>7. Cardinality(work) <= Concurrency
  BY <1>4, <1>5, <1>6
<1> QED BY <1>5, <1>7 DEF work

-----------------------------------------------------------------------------
(* The directory: what is served.                                          *)

(* A list stored was read from a prefix of the registry's list at most a   *)
(* load before it was stored.                                              *)
ListSound(l, list, now) ==
    /\ l.at \in 0..MaxTime /\ l.at <= now
    /\ l.rows \in Seq(Row) /\ Len(l.rows) = l.size /\ Len(l.rows) <= Len(list)
    /\ \A i \in 1..Len(l.rows) :
          /\ l.rows[i].addr = list[i]
          /\ l.rows[i].readAt <= l.at /\ l.at <= l.rows[i].readAt + LoadBound
          /\ FoundSound(l.rows[i].meta, l.rows[i].readAt, l.at)

RolesRecord == [owner : Governors, slashing : Governors, ownerIsTimelock : BOOLEAN,
                slashingIsTimelock : BOOLEAN, at : 0..MaxTime]

(* No flag is set before the address it belongs to has been probed.        *)
GovernanceSound ==
    /\ governance \in [pc : GovernanceSteps, since : Nat, payload : RolesRecord]
    /\ governanceCache \in RolesRecord
    /\ governance.since <= time
    /\ governance.pc # "idle" =>
          /\ ~governance.payload.slashingIsTimelock
          /\ governance.payload.ownerIsTimelock =>
                 governance.pc = "probe slashing" /\ governance.payload.owner = RegistryTimelock
    /\ GovernanceHonest

(* Behind an RPC of another chain nobody gets past the check.              *)
CheckedOnce ==
    /\ rpcChain \in {"mainnet", "another"} /\ chainIdChecked \in BOOLEAN
    /\ rpcChain # "mainnet" =>
          /\ ~chainIdChecked
          /\ \A r \in ListCalls : call[r].pc \in {"idle", "chain"}
          /\ governance.pc \in {"idle", "chain"}
          /\ listCache.at = 0 /\ governanceCache.at = 0

LoadsSound ==
    /\ call \in [ListCalls -> Load]
    /\ \A r \in ListCalls : LoadSound(call[r], issuerList, time)

DirectoryIInv ==
    /\ RegistryIInv
    /\ time \in 1..MaxTime /\ site \in [URIs -> Answers]
    /\ CacheSound(metadataCache, time)
    /\ LoadsSound
    /\ ListSound(listCache, issuerList, time)
    /\ GovernanceSound
    /\ CheckedOnce

LEMMA DirectoryFacts ==
    ASSUME DirectoryIInv
    PROVE  /\ time \in Nat /\ time \in 1..MaxTime
           /\ issuerList \in Seq(Issuers)
           /\ issuers \in [Issuers -> IssuerRecord]
           /\ owner \in Governors /\ slashingAuthority \in Governors
           /\ call \in [ListCalls -> Load]
BY DEF DirectoryIInv, RegistryIInv, RegistryInv, RegistryTypeOK, LoadsSound

(* The parts of the invariant the run checks.                              *)
LEMMA DirectoryTyped == DirectoryIInv => DirectoryTypeOK
<1> SUFFICES ASSUME DirectoryIInv PROVE DirectoryTypeOK
  OBVIOUS
<1>1. /\ rpcChain \in {"mainnet", "another"} /\ chainIdChecked \in BOOLEAN
      /\ site \in [URIs -> Answers]
      /\ time \in 1..MaxTime
  BY DEF DirectoryIInv, CheckedOnce
<1>2. /\ listCache.at \in 0..MaxTime
      /\ \A i \in DOMAIN listCache.rows : listCache.rows[i] \in Row
  BY DEF DirectoryIInv, ListSound
<1>3. /\ Len(metadataCache) <= CacheMax
      /\ \A i, j \in DOMAIN metadataCache : metadataCache[i].uri = metadataCache[j].uri => i = j
  BY DEF DirectoryIInv, CacheSound, EntriesSound
<1>4. \A r \in ListCalls :
          /\ call[r].pc \in {"idle", "chain", "list", "rows", "failed"}
          /\ call[r].work \subseteq Item /\ Cardinality(call[r].work) <= Concurrency
  BY DEF DirectoryIInv, LoadsSound, LoadSound, Load
<1>5. governance.pc \in GovernanceSteps /\ governanceCache \in RolesRecord
  BY DEF DirectoryIInv, GovernanceSound
<1> QED BY <1>1, <1>2, <1>3, <1>4, <1>5 DEF DirectoryTypeOK, RolesRecord

LEMMA DirectoryComplete == DirectoryIInv => ListComplete
<1> SUFFICES ASSUME DirectoryIInv PROVE ListComplete
  OBVIOUS
<1>1. ListSound(listCache, issuerList, time) /\ issuerList \in Seq(Issuers)
  BY DirectoryFacts DEF DirectoryIInv
<1>2. Len(listCache.rows) = listCache.size
  BY <1>1 DEF ListSound
<1>3. \A i \in DOMAIN listCache.rows : i <= Len(issuerList) /\ listCache.rows[i].addr = issuerList[i]
  <2>1. /\ DOMAIN listCache.rows = 1..Len(listCache.rows) /\ Len(listCache.rows) \in Nat
        /\ Len(listCache.rows) <= Len(issuerList)
    BY <1>1 DEF ListSound
  <2> QED BY <1>1, <2>1 DEF ListSound
<1>4. ASSUME NEW r \in ListCalls, call[r].pc = "rows", call[r].work = {}, NEW i \in DOMAIN call[r].rows
      PROVE  call[r].rows[i] # {}
  <2>1. LoadSound(call[r], issuerList, time) /\ time \in Nat
    BY DirectoryFacts DEF DirectoryIInv, LoadsSound
  <2>2. call[r].cursor = Len(call[r].rows) /\ call[r].rows \in Seq(SUBSET Row)
    BY <1>4, <2>1, LoadFacts DEF LoadSound
  <2>3. i \in 1..call[r].cursor
    BY <1>4, <2>2
  <2> QED BY <1>4, <2>1, <2>3 DEF LoadSound
<1> QED BY <1>2, <1>3, <1>4 DEF ListComplete

LEMMA DirectoryRecent == DirectoryIInv => ServedRecent
<1> SUFFICES ASSUME DirectoryIInv, NEW i \in DOMAIN listCache.rows, ListFresh
             PROVE  LET row == listCache.rows[i]
                        got == row.meta
                    IN  /\ time - row.readAt < ListTTL + LoadBound
                        /\ got.doc # "none" => time - got.at < MetadataTTL + ListTTL + LoadBound
  BY DEF ServedRecent
<1> DEFINE row == listCache.rows[i]
           got == row.meta
<1>1. ListSound(listCache, issuerList, time) /\ time \in Nat
  BY DirectoryFacts DEF DirectoryIInv
<1>2. i \in 1..Len(listCache.rows) /\ row \in Row
  BY <1>1 DEF ListSound
<1>3. row.readAt \in Nat /\ got.at \in Nat /\ listCache.at \in Nat
  BY <1>1, <1>2 DEF Row, Found, ListSound
<1>4. /\ row.readAt <= listCache.at /\ listCache.at <= row.readAt + LoadBound
      /\ FoundSound(got, row.readAt, listCache.at)
      /\ listCache.at <= time
  BY <1>1, <1>2 DEF ListSound
<1>5. time - listCache.at < ListTTL
  BY DEF ListFresh
<1> HIDE DEF row, got
<1>6. time - row.readAt < ListTTL + LoadBound
  BY <1>1, <1>3, <1>4, <1>5, BoundsAreNumbers
<1>7. ASSUME got.doc # "none" PROVE time - got.at < MetadataTTL + ListTTL + LoadBound
  BY <1>1, <1>3, <1>4, <1>5, <1>7, BoundsAreNumbers DEF FoundSound
<1> QED BY <1>6, <1>7 DEF row, got

LEMMA DirectoryHolds == DirectoryIInv => DirectoryInv
<1> SUFFICES ASSUME DirectoryIInv PROVE DirectoryInv
  OBVIOUS
<1>1. NoOtherChain /\ GovernanceHonest
  BY DEF DirectoryIInv, CheckedOnce, GovernanceSound, NoOtherChain
<1> QED BY <1>1, DirectoryTyped, DirectoryComplete, DirectoryRecent DEF DirectoryInv

LEMMA DirectoryInitially == RegistryInit /\ DirectoryInit => DirectoryIInv
<1> SUFFICES ASSUME RegistryInit, DirectoryInit PROVE DirectoryIInv
  OBVIOUS
<1>1. RegistryIInv
  BY RegistryAssumption, RegistryStarts
<1>2. /\ rpcChain \in {"mainnet", "another"} /\ chainIdChecked = FALSE
      /\ site \in [URIs -> Answers]
      /\ listCache = NoList /\ metadataCache = <<>>
      /\ call = [r \in ListCalls |-> Idle]
      /\ governance = [pc |-> "idle", since |-> 0, payload |-> NoRoles]
      /\ governanceCache = NoRoles
      /\ time = 1
  BY DEF DirectoryInit
<1>3. time \in 1..MaxTime /\ time \in Nat
  BY <1>2, BoundsAreNumbers
<1>4. issuerList \in Seq(Issuers) /\ Len(issuerList) = 0
  BY DEF RegistryInit
<1>5. CacheSound(metadataCache, time)
  <2>1. <<>> \in Seq(CacheEntry) /\ Len(<<>>) = 0 /\ DOMAIN <<>> = {}
    OBVIOUS
  <2>2. CacheMax \in Nat
    BY DirectoryAssumption
  <2> QED BY <1>2, <2>1, <2>2 DEF CacheSound, EntriesSound
<1>6. LoadsSound
  BY <1>2, <1>3, <1>4, IdleSound DEF LoadsSound
<1>7. ListSound(listCache, issuerList, time)
  <2>1. <<>> \in Seq(Row) /\ Len(<<>>) = 0
    OBVIOUS
  <2>2. listCache.at = 0 /\ listCache.rows = <<>> /\ listCache.size = 0
    BY <1>2 DEF NoList
  <2> QED BY <1>3, <1>4, <2>1, <2>2, BoundsAreNumbers DEF ListSound
<1>8. NoRoles \in RolesRecord /\ ~NoRoles.ownerIsTimelock /\ ~NoRoles.slashingIsTimelock /\ NoRoles.at = 0
  BY RegistryAssumption, BoundsAreNumbers DEF NoRoles, RolesRecord
<1>9. GovernanceSound
  BY <1>2, <1>8 DEF GovernanceSound, GovernanceSteps, GovernanceHonest
<1>10. CheckedOnce
  <2>1. \A r \in ListCalls : call[r].pc = "idle"
    BY <1>2, <1>3, <1>4, IdleSound
  <2> QED BY <1>2, <1>8, <2>1 DEF CheckedOnce, NoList
<1> QED BY <1>1, <1>2, <1>3, <1>5, <1>6, <1>7, <1>9, <1>10 DEF DirectoryIInv

(* A step of one load keeps the invariant when the load, the caches and    *)
(* the check of the chain are right afterwards.                            *)
LEMMA CallStep ==
    ASSUME DirectoryIInv, UNCHANGED <<registryVars, time, rpcChain, site, governance, governanceCache>>,
           NEW r \in ListCalls, NEW c \in Load, call' = [call EXCEPT ![r] = c],
           LoadSound(c, issuerList, time),
           CacheSound(metadataCache', time), ListSound(listCache', issuerList, time),
           chainIdChecked' \in BOOLEAN, chainIdChecked' => chainIdChecked \/ rpcChain = "mainnet",
           rpcChain # "mainnet" => c.pc \in {"idle", "chain"} /\ listCache'.at = 0
    PROVE  DirectoryIInv'
<1>1. RegistryIInv'
  BY RegistryAssumption, RegistryStep DEF DirectoryIInv
<1>2. issuerList' = issuerList /\ time' = time
  BY DEF registryVars
<1>3. call \in [ListCalls -> Load] /\ \A q \in ListCalls : LoadSound(call[q], issuerList, time)
  BY DEF DirectoryIInv, LoadsSound
<1>4. \A q \in ListCalls : call'[q] = IF q = r THEN c ELSE call[q]
  BY <1>3
<1>5. LoadsSound'
  <2>1. call' \in [ListCalls -> Load]
    BY <1>3
  <2> QED BY <1>2, <1>3, <1>4, <2>1 DEF LoadsSound
<1>6. GovernanceSound'
  BY <1>2 DEF DirectoryIInv, GovernanceSound, GovernanceHonest
<1>7. CheckedOnce'
  BY <1>4 DEF DirectoryIInv, CheckedOnce
<1>8. time' \in 1..MaxTime /\ site' \in [URIs -> Answers]
  BY DEF DirectoryIInv
<1> QED BY <1>1, <1>2, <1>5, <1>6, <1>7, <1>8 DEF DirectoryIInv

(* What such a step starts from.                                           *)
LEMMA CallFacts ==
    ASSUME DirectoryIInv, NEW r \in ListCalls
    PROVE  /\ LoadSound(call[r], issuerList, time) /\ call[r] \in Load
           /\ CacheSound(metadataCache, time) /\ ListSound(listCache, issuerList, time)
           /\ chainIdChecked \in BOOLEAN
           /\ rpcChain # "mainnet" =>
                 ~chainIdChecked /\ call[r].pc \in {"idle", "chain"} /\ listCache.at = 0
BY DEF DirectoryIInv, LoadsSound, CheckedOnce

LEMMA IdleKeeps ==
    ASSUME DirectoryIInv, NEW r \in ListCalls,
           UNCHANGED <<registryVars, time, rpcChain, site, governance, governanceCache>>,
           UNCHANGED <<metadataCache, chainIdChecked>>,
           call' = [call EXCEPT ![r] = Idle],
           ListSound(listCache', issuerList, time), rpcChain # "mainnet" => listCache'.at = 0
    PROVE  DirectoryIInv'
<1>1. LoadSound(Idle, issuerList, time) /\ Idle.pc = "idle" /\ Idle \in Load
  BY DirectoryFacts, IdleSound
<1> QED BY <1>1, CallFacts, CallStep

LEMMA BeginLoadKeeps ==
    ASSUME DirectoryIInv, UNCHANGED registryVars, NEW r \in ListCalls, BeginLoad(r)
    PROVE  DirectoryIInv'
<1> DEFINE pc == IF chainIdChecked THEN "list" ELSE "chain"
           c == [Idle EXCEPT !.pc = pc, !.since = time]
<1>1. /\ call' = [call EXCEPT ![r] = c]
      /\ UNCHANGED <<time, rpcChain, site, governance, governanceCache>>
      /\ UNCHANGED <<metadataCache, chainIdChecked, listCache>>
  BY DEF BeginLoad
<1>2. time \in Nat /\ time <= time + LoadBound /\ time <= time /\ issuerList \in Seq(Issuers)
  BY DirectoryFacts, BoundsAreNumbers
<1>3. pc \in {"chain", "list"} /\ (rpcChain # "mainnet" => pc = "chain")
  BY CallFacts
<1> HIDE DEF pc
<1>4. /\ Idle \in Load
      /\ Idle.list = <<>> /\ Idle.cursor = 0 /\ Idle.work = {} /\ Idle.rows = <<>>
  BY <1>2, IdleSound
<1>5. /\ c \in Load /\ c.pc = pc /\ c.since = time
      /\ c.list = <<>> /\ c.cursor = 0 /\ c.work = {} /\ c.rows = <<>>
  BY <1>2, <1>3, <1>4 DEF Load
<1> HIDE DEF c
<1>6. LoadSound(c, issuerList, time)
  BY <1>2, <1>3, <1>5, RestingSound
<1> QED BY <1>1, <1>3, <1>5, <1>6, CallFacts, CallStep

(* The same load in another state.                                         *)
LEMMA AtOtherStep ==
    ASSUME NEW c, NEW list, NEW now \in Nat, LoadSound(c, list, now),
           NEW pc \in {"idle", "chain", "list", "failed"}, pc # "idle" => c.pc # "idle"
    PROVE  /\ LoadSound([c EXCEPT !.pc = pc], list, now)
           /\ [c EXCEPT !.pc = pc] \in Load
           /\ [c EXCEPT !.pc = pc].pc = pc
<1> DEFINE d == [c EXCEPT !.pc = pc]
<1>1. c \in Load
  BY DEF LoadSound
<1>2. /\ d \in Load /\ d.pc = pc /\ d.list = c.list /\ d.cursor = c.cursor /\ d.work = c.work
      /\ d.rows = c.rows /\ d.since = c.since
  BY <1>1 DEF Load
<1> HIDE DEF d
<1>3. \A w \in d.work : WorkSound(w, d, now)
  BY <1>2 DEF LoadSound, WorkSound
<1>4. LoadSound(d, list, now)
  BY <1>2, <1>3 DEF LoadSound
<1> QED BY <1>2, <1>4 DEF d

LEMMA ChainAnswersKeeps ==
    ASSUME DirectoryIInv, UNCHANGED registryVars, NEW r \in ListCalls, ChainAnswers(r)
    PROVE  DirectoryIInv'
<1>1. /\ UNCHANGED <<time, rpcChain, site, governance, governanceCache>>
      /\ UNCHANGED <<metadataCache, listCache>>
      /\ call[r].pc = "chain"
  BY DEF ChainAnswers
<1>2. CASE rpcChain = "mainnet"
  <2> DEFINE c == [call[r] EXCEPT !.pc = "list"]
  <2>1. call \in [ListCalls -> Load] /\ time \in Nat
    BY DirectoryFacts
  <2>2. chainIdChecked' = TRUE /\ call' = [call EXCEPT ![r] = c]
    BY <1>2, <2>1 DEF ChainAnswers
  <2>3. LoadSound(c, issuerList, time) /\ c \in Load
    BY <1>1, <2>1, CallFacts, AtOtherStep
  <2> HIDE DEF c
  <2> QED BY <1>1, <1>2, <2>2, <2>3, CallFacts, CallStep
<1>3. CASE rpcChain # "mainnet"
  BY <1>1, <1>3, CallFacts, IdleKeeps DEF ChainAnswers
<1> QED BY <1>2, <1>3

LEMMA ReadListKeeps ==
    ASSUME DirectoryIInv, UNCHANGED registryVars, NEW r \in ListCalls, ReadList(r)
    PROVE  DirectoryIInv'
<1> DEFINE n == IF Len(issuerList) < Concurrency THEN Len(issuerList) ELSE Concurrency
           work == {NewItem(issuerList, i) : i \in 1..n}
           rows == [i \in 1..Len(issuerList) |-> {}]
           c == [call[r] EXCEPT !.pc = "rows", !.list = issuerList, !.cursor = n, !.work = work, !.rows = rows]
<1>1. /\ UNCHANGED <<time, rpcChain, site, governance, governanceCache>>
      /\ UNCHANGED <<metadataCache, listCache, chainIdChecked>>
      /\ call[r].pc = "list"
  BY DEF ReadList
<1>2. call \in [ListCalls -> Load] /\ time \in Nat /\ issuerList \in Seq(Issuers)
  BY DirectoryFacts
<1>3. call' = [call EXCEPT ![r] = c]
  BY <1>2 DEF ReadList
<1>4. n \in 0..Len(issuerList) /\ n <= Concurrency /\ (n < Len(issuerList) => n # 0) /\ n \in Nat
  BY <1>2, BoundsAreNumbers
<1> HIDE DEF n
<1>5. IsFiniteSet(work) /\ Cardinality(work) <= Concurrency
  BY <1>2, <1>4, WorkersStart
<1>6. ASSUME NEW w \in work
      PROVE  /\ w \in Item /\ w.i \in 1..n /\ w.step = "record"
             /\ w.row.addr = issuerList[w.i] /\ w.row.meta.doc = "none"
  <2>1. PICK i \in 1..n : w = NewItem(issuerList, i)
    OBVIOUS
  <2>2. i \in 1..Len(issuerList)
    BY <1>2, <1>4
  <2> QED BY <1>2, <2>1, <2>2, NewItemSound
<1>7. \A i \in 1..n : \E w \in work : w.i = i
  <2> TAKE i \in 1..n
  <2>1. i \in 1..Len(issuerList)
    BY <1>2, <1>4
  <2>2. NewItem(issuerList, i) \in work /\ NewItem(issuerList, i).i = i
    BY <1>2, <2>1, NewItemSound
  <2> QED BY <2>2
<1> HIDE DEF work
<1>8. rows \in Seq(SUBSET Row) /\ Len(rows) = Len(issuerList) /\ \A i \in 1..Len(issuerList) : rows[i] = {}
  <2>1. Len(issuerList) \in Nat
    BY <1>2
  <2>2. rows \in [1..Len(issuerList) -> SUBSET Row]
    OBVIOUS
  <2> QED BY <2>1, <2>2
<1> HIDE DEF rows
<1>9. /\ c \in Load /\ c.pc = "rows" /\ c.list = issuerList /\ c.cursor = n /\ c.work = work
      /\ c.rows = rows /\ c.since = call[r].since
  BY <1>2, <1>4, <1>6, <1>8 DEF Load
<1> HIDE DEF c
<1>10. c.since <= time /\ time <= c.since + LoadBound
  BY <1>1, <1>9, CallFacts DEF LoadSound
<1>11. \A w \in c.work : WorkSound(w, c, time)
  BY <1>6, <1>9 DEF WorkSound
<1>12. c.work = {} => c.cursor = Len(c.list)
  <2> SUFFICES ASSUME c.work = {} PROVE n = Len(issuerList)
    BY <1>9
  <2>1. ~ (1 \in 1..n)
    BY <1>7, <1>9
  <2> QED BY <1>2, <1>4, <2>1
<1>13. Len(c.list) <= Len(issuerList) /\ n <= Len(issuerList)
  BY <1>2, <1>4, <1>9
<1>14. LoadSound(c, issuerList, time)
  BY <1>5, <1>7, <1>8, <1>9, <1>10, <1>11, <1>12, <1>13 DEF LoadSound
<1>15. rpcChain = "mainnet"
  BY <1>1, CallFacts
<1> QED BY <1>1, <1>3, <1>9, <1>14, <1>15, CallFacts, CallStep

(* A worker stores a row and goes on.                                      *)
LEMMA FinishedKeeps ==
    ASSUME DirectoryIInv, UNCHANGED <<registryVars, time, rpcChain, site, governance, governanceCache>>,
           UNCHANGED <<listCache, chainIdChecked>>, CacheSound(metadataCache', time),
           NEW r \in ListCalls, NEW w \in call[r].work,
           NEW row, RowSound(row, call[r].list[w.i], call[r].since, time),
           call' = [call EXCEPT ![r] = Finished(@, w, row)]
    PROVE  DirectoryIInv'
<1> DEFINE c == Finished(call[r], w, row)
<1>1. call \in [ListCalls -> Load] /\ time \in Nat
  BY DirectoryFacts
<1>2. call' = [call EXCEPT ![r] = c]
  BY <1>1
<1>3. LoadSound(c, issuerList, time)
  BY <1>1, CallFacts, FinishedSound
<1>4. c.pc = call[r].pc
  BY <1>1 DEF Finished, Load
<1> HIDE DEF c
<1>5. c \in Load
  BY <1>3 DEF LoadSound
<1> QED BY <1>2, <1>3, <1>4, <1>5, CallFacts, CallStep

LEMMA CachedSound ==
    ASSUME CacheSound(metadataCache, time), time \in Nat, NEW uri, Young(uri) # {}
    PROVE  Cached(uri) \in Found /\ FoundSound(Cached(uri), time, time)
<1> DEFINE k == CHOOSE i \in Young(uri) : TRUE
<1>1. k \in Young(uri)
  OBVIOUS
<1>2. k \in DOMAIN metadataCache /\ time - metadataCache[k].at < MetadataTTL
  BY <1>1 DEF Young, Entry
<1>3. metadataCache[k] \in CacheEntry /\ metadataCache[k].at <= time
  BY <1>2 DEF CacheSound, EntriesSound
<1>4. Cached(uri) = [doc |-> metadataCache[k].doc, at |-> metadataCache[k].at]
  BY DEF Cached
<1> HIDE DEF k
<1>5. metadataCache[k].at \in Nat /\ metadataCache[k].doc \in Metadata \cup {"none"}
  BY <1>3 DEF CacheEntry
<1>6. time < metadataCache[k].at + MetadataTTL
  BY <1>2, <1>5, BoundsAreNumbers
<1> QED BY <1>3, <1>4, <1>5, <1>6 DEF Found, FoundSound

(* What a worker knows of its item.                                        *)
LEMMA WorkFacts ==
    ASSUME DirectoryIInv, NEW r \in ListCalls, NEW w \in call[r].work
    PROVE  /\ w \in Item /\ w.row \in Row
           /\ w.i \in 1..Len(call[r].list) /\ w.row.addr = call[r].list[w.i]
           /\ w.row.addr \in Issuers
           /\ call[r].since <= time /\ call[r].since \in Nat
           /\ WorkSound(w, call[r], time)
<1>1. LoadSound(call[r], issuerList, time) /\ time \in Nat
  BY CallFacts, DirectoryFacts
<1>2. /\ call[r].list \in Seq(Issuers) /\ call[r].cursor \in Nat /\ call[r].work \in SUBSET Item
      /\ call[r].cursor <= Len(call[r].list) /\ call[r].since <= time
      /\ WorkSound(w, call[r], time) /\ call[r].since \in Nat
  BY <1>1, LoadFacts DEF LoadSound
<1>3. w.i \in 1..Len(call[r].list) /\ w.row.addr = call[r].list[w.i]
  BY <1>2 DEF WorkSound
<1>4. w \in Item /\ w.row \in Row
  BY <1>2 DEF Item
<1> QED BY <1>2, <1>3, <1>4

LEMMA ReadRecordKeeps ==
    ASSUME DirectoryIInv, UNCHANGED registryVars, NEW r \in ListCalls, NEW w \in call[r].work, ReadRecord(r, w)
    PROVE  DirectoryIInv'
<1> DEFINE a == w.row.addr
           row == [w.row EXCEPT !.active = issuers[a].active, !.readAt = time]
           uri == issuers[a].metadataURI
<1>1. /\ UNCHANGED <<time, rpcChain, site, governance, governanceCache>>
      /\ UNCHANGED <<listCache, chainIdChecked>>
      /\ w.step = "record"
  BY DEF ReadRecord
<1>2. /\ w \in Item /\ w.row \in Row
      /\ w.i \in 1..Len(call[r].list) /\ a = call[r].list[w.i] /\ a \in Issuers
      /\ call[r].since <= time /\ call[r].since \in Nat
      /\ WorkSound(w, call[r], time)
  BY WorkFacts
<1>3. time \in Nat /\ issuers[a] \in IssuerRecord /\ CacheSound(metadataCache, time)
      /\ call \in [ListCalls -> Load]
  BY <1>2, CallFacts, DirectoryFacts
<1>4. uri \in URIs \cup {NoURI} /\ issuers[a].active \in BOOLEAN
  BY <1>3 DEF IssuerRecord
<1>5. /\ row \in Row /\ row.addr = a /\ row.readAt = time /\ row.meta = w.row.meta
      /\ \A m \in Found : [row EXCEPT !.meta = m] \in Row /\ [row EXCEPT !.meta = m].addr = a
                          /\ [row EXCEPT !.meta = m].readAt = time /\ [row EXCEPT !.meta = m].meta = m
  BY <1>2, <1>3, <1>4 DEF Row
<1>6. ASSUME NEW m \in Found, FoundSound(m, time, time)
      PROVE  RowSound([row EXCEPT !.meta = m], call[r].list[w.i], call[r].since, time)
  <2> DEFINE s == [row EXCEPT !.meta = m]
  <2>1. s \in Row /\ s.addr = a /\ s.readAt = time /\ s.meta = m
    BY <1>5
  <2> HIDE DEF s
  <2>2. RowSound(s, call[r].list[w.i], call[r].since, time)
    BY <1>2, <1>3, <1>6, <2>1 DEF RowSound
  <2> QED BY <2>2 DEF s
<1>7. \/ /\ uri = NoURI
         /\ call' = [call EXCEPT ![r] = Finished(@, w, row)]
         /\ UNCHANGED metadataCache
      \/ /\ uri # NoURI /\ Young(uri) # {}
         /\ call' = [call EXCEPT ![r] = Finished(@, w, [row EXCEPT !.meta = Cached(uri)])]
         /\ metadataCache' = CacheGet(uri)
      \/ /\ uri # NoURI
         /\ call' = [call EXCEPT ![r] =
                Finished(@, w, [row EXCEPT !.meta = [doc |-> "none", at |-> time]])]
         /\ metadataCache' = CacheSet(uri, "none")
      \/ /\ uri # NoURI
         /\ call' = [call EXCEPT ![r].work =
                (@ \ {w}) \cup {[w EXCEPT !.step = "metadata", !.row = row, !.uri = uri]}]
         /\ metadataCache' = CacheGet(uri)
  BY DEF ReadRecord
<1>8. CASE /\ uri = NoURI
           /\ call' = [call EXCEPT ![r] = Finished(@, w, row)]
           /\ UNCHANGED metadataCache
  <2>1. row.meta.doc = "none"
    BY <1>1, <1>2, <1>5 DEF WorkSound
  <2>2. RowSound(row, call[r].list[w.i], call[r].since, time)
    <3> HIDE DEF row
    <3> QED BY <1>2, <1>3, <1>5, <2>1 DEF RowSound, FoundSound
  <2> HIDE DEF row
  <2> QED BY <1>1, <1>3, <1>8, <2>2, FinishedKeeps
<1>9. CASE /\ uri # NoURI /\ Young(uri) # {}
           /\ call' = [call EXCEPT ![r] = Finished(@, w, [row EXCEPT !.meta = Cached(uri)])]
           /\ metadataCache' = CacheGet(uri)
  <2> DEFINE served == [row EXCEPT !.meta = Cached(uri)]
  <2>1. Cached(uri) \in Found /\ FoundSound(Cached(uri), time, time)
    BY <1>3, <1>9, CachedSound
  <2>2. RowSound(served, call[r].list[w.i], call[r].since, time)
    BY <1>6, <2>1
  <2>3. CacheSound(metadataCache', time)
    BY <1>3, <1>4, <1>9, CacheGetSound
  <2>4. call' = [call EXCEPT ![r] = Finished(@, w, served)]
    BY <1>9
  <2> HIDE DEF served
  <2> QED BY <1>1, <2>2, <2>3, <2>4, FinishedKeeps
<1>10. CASE /\ uri # NoURI
            /\ call' = [call EXCEPT ![r] =
                   Finished(@, w, [row EXCEPT !.meta = [doc |-> "none", at |-> time]])]
            /\ metadataCache' = CacheSet(uri, "none")
  <2> DEFINE m == [doc |-> "none", at |-> time]
             served == [row EXCEPT !.meta = m]
  <2>1. m \in Found /\ FoundSound(m, time, time)
    BY <1>3 DEF Found, FoundSound
  <2>2. RowSound(served, call[r].list[w.i], call[r].since, time)
    BY <1>6, <2>1
  <2>3. CacheSound(metadataCache', time)
    BY <1>3, <1>4, <1>10, CacheSetSound
  <2>4. call' = [call EXCEPT ![r] = Finished(@, w, served)]
    BY <1>10
  <2> HIDE DEF served
  <2> QED BY <1>1, <2>2, <2>3, <2>4, FinishedKeeps
<1>11. CASE /\ uri # NoURI
            /\ call' = [call EXCEPT ![r].work =
                   (@ \ {w}) \cup {[w EXCEPT !.step = "metadata", !.row = row, !.uri = uri]}]
            /\ metadataCache' = CacheGet(uri)
  <2> DEFINE v == [w EXCEPT !.step = "metadata", !.row = row, !.uri = uri]
             work == (call[r].work \ {w}) \cup {v}
             c == [call[r] EXCEPT !.work = work]
  <2>1. uri \in URIs /\ CacheSound(metadataCache', time)
    BY <1>3, <1>4, <1>11, CacheGetSound
  <2>2. call' = [call EXCEPT ![r] = c]
    BY <1>3, <1>11
  <2>3. v \in Item /\ v.i = w.i /\ v.step = "metadata" /\ v.row = row /\ v.uri = uri
    BY <1>2, <1>5, <2>1 DEF Item
  <2> HIDE DEF v, row, uri, a
  <2>4. LoadSound(call[r], issuerList, time) /\ call[r] \in Load
    BY CallFacts
  <2>5. work \in SUBSET Item
    BY <2>3, <2>4 DEF Load
  <2>6. IsFiniteSet(work) /\ Cardinality(work) <= Concurrency
    <3>1. IsFiniteSet(call[r].work) /\ Cardinality(call[r].work) <= Concurrency
          /\ Cardinality(call[r].work) \in Nat
      BY <2>4, FS_CardinalityType DEF LoadSound
    <3>2. IsFiniteSet(call[r].work \ {w}) /\ Cardinality(call[r].work \ {w}) = Cardinality(call[r].work) - 1
      BY <3>1, FS_RemoveElement
    <3>3. /\ IsFiniteSet(work)
          /\ Cardinality(work) = IF v \in call[r].work \ {w} THEN Cardinality(call[r].work \ {w})
                                 ELSE Cardinality(call[r].work \ {w}) + 1
      BY <3>2, FS_AddElement
    <3> QED BY <3>1, <3>2, <3>3, BoundsAreNumbers
  <2>7. \A u \in call[r].work : u = w \/ u \in work
    OBVIOUS
  <2>8. \A u \in work : u \in call[r].work \/ u = v
    OBVIOUS
  <2>9. v \in work
    OBVIOUS
  <2> HIDE DEF work
  <2>10. /\ c \in Load /\ c.pc = call[r].pc /\ c.list = call[r].list /\ c.cursor = call[r].cursor
         /\ c.work = work /\ c.rows = call[r].rows /\ c.since = call[r].since
    BY <2>4, <2>5 DEF Load
  <2> HIDE DEF c
  <2>11. WorkSound(v, c, time)
    BY <1>2, <1>3, <1>5, <2>1, <2>3, <2>10 DEF WorkSound
  <2>12. \A u \in c.work : WorkSound(u, c, time)
    BY <2>4, <2>8, <2>10, <2>11 DEF LoadSound, WorkSound
  <2>13. c.pc = "rows" => \A i \in 1..c.cursor : c.rows[i] # {} \/ \E u \in c.work : u.i = i
    BY <2>3, <2>4, <2>7, <2>9, <2>10 DEF LoadSound
  <2>14. c.work # {}
    BY <2>9, <2>10
  <2>15. LoadSound(c, issuerList, time)
    BY <2>4, <2>6, <2>10, <2>12, <2>13, <2>14 DEF LoadSound
  <2> QED BY <1>1, <2>1, <2>2, <2>10, <2>15, CallFacts, CallStep
<1> QED BY <1>7, <1>8, <1>9, <1>10, <1>11

LEMMA FetchMetadataKeeps ==
    ASSUME DirectoryIInv, UNCHANGED registryVars, NEW r \in ListCalls, NEW w \in call[r].work,
           FetchMetadata(r, w)
    PROVE  DirectoryIInv'
<1> DEFINE m == [doc |-> Accepted(site[w.uri]), at |-> time]
           row == [w.row EXCEPT !.meta = m]
<1>1. /\ UNCHANGED <<time, rpcChain, site, governance, governanceCache>>
      /\ UNCHANGED <<listCache, chainIdChecked>>
      /\ w.step = "metadata"
      /\ call' = [call EXCEPT ![r] = Finished(@, w, row)]
      /\ metadataCache' = CacheSet(w.uri, Accepted(site[w.uri]))
  BY DEF FetchMetadata
<1>2. /\ w.row \in Row /\ w.row.addr = call[r].list[w.i]
      /\ WorkSound(w, call[r], time)
  BY WorkFacts
<1>3. w.uri \in URIs /\ call[r].since <= w.row.readAt /\ w.row.readAt <= time
  BY <1>1, <1>2 DEF WorkSound
<1>4. time \in Nat /\ CacheSound(metadataCache, time)
  BY CallFacts, DirectoryFacts
<1>5. Accepted(site[w.uri]) \in Metadata \cup {"none"}
  BY DEF Accepted
<1>6. CacheSound(metadataCache', time)
  BY <1>1, <1>3, <1>4, <1>5, CacheSetSound
<1>7. m \in Found /\ FoundSound(m, w.row.readAt, time)
  <2>1. m \in Found /\ m.at = time
    BY <1>4, <1>5 DEF Found
  <2> HIDE DEF m
  <2> QED BY <1>3, <1>4, <2>1 DEF FoundSound
<1> HIDE DEF m
<1>8. row \in Row /\ row.addr = w.row.addr /\ row.readAt = w.row.readAt /\ row.meta = m
  BY <1>2, <1>7 DEF Row
<1> HIDE DEF row
<1>9. RowSound(row, call[r].list[w.i], call[r].since, time)
  BY <1>2, <1>3, <1>7, <1>8 DEF RowSound
<1> QED BY <1>1, <1>6, <1>9, FinishedKeeps

LEMMA RpcFailsKeeps ==
    ASSUME DirectoryIInv, UNCHANGED registryVars, NEW r \in ListCalls, RpcFails(r)
    PROVE  DirectoryIInv'
<1>1. /\ UNCHANGED <<time, rpcChain, site, governance, governanceCache>>
      /\ UNCHANGED <<metadataCache, listCache, chainIdChecked>>
  BY DEF RpcFails
<1>2. CASE call' = [call EXCEPT ![r] = Idle]
  BY <1>1, <1>2, CallFacts, IdleKeeps
<1>3. CASE /\ call[r].pc \in {"rows", "failed"}
           /\ \E w \in call[r].work : call' = [call EXCEPT ![r].pc = "failed", ![r].work = @ \ {w}]
  <2>1. PICK w \in call[r].work : call' = [call EXCEPT ![r].pc = "failed", ![r].work = @ \ {w}]
    BY <1>3
  <2> DEFINE c == [call[r] EXCEPT !.pc = "failed", !.work = @ \ {w}]
  <2>2. LoadSound(call[r], issuerList, time) /\ call[r] \in Load /\ call \in [ListCalls -> Load]
    BY CallFacts, DirectoryFacts
  <2>3. call' = [call EXCEPT ![r] = c]
    BY <2>1, <2>2
  <2>4. /\ c \in Load /\ c.pc = "failed" /\ c.list = call[r].list /\ c.cursor = call[r].cursor
        /\ c.work = call[r].work \ {w} /\ c.rows = call[r].rows /\ c.since = call[r].since
    BY <2>2 DEF Load
  <2> HIDE DEF c
  <2>5. IsFiniteSet(c.work) /\ Cardinality(c.work) <= Concurrency
    <3>1. IsFiniteSet(call[r].work) /\ Cardinality(call[r].work) <= Concurrency
          /\ Cardinality(call[r].work) \in Nat
      BY <2>2, FS_CardinalityType DEF LoadSound
    <3>2. IsFiniteSet(call[r].work \ {w}) /\ Cardinality(call[r].work \ {w}) = Cardinality(call[r].work) - 1
      BY <3>1, FS_RemoveElement
    <3> QED BY <2>4, <3>1, <3>2, BoundsAreNumbers
  <2>6. \A u \in c.work : WorkSound(u, c, time)
    BY <2>2, <2>4 DEF LoadSound, WorkSound
  <2>7. call[r].pc # "idle"
    BY <1>3
  <2>8. LoadSound(c, issuerList, time)
    BY <2>2, <2>4, <2>5, <2>6, <2>7 DEF LoadSound
  <2>9. rpcChain = "mainnet"
    BY <1>3, CallFacts
  <2> QED BY <1>1, <2>3, <2>4, <2>8, <2>9, CallFacts, CallStep
<1> QED BY <1>2, <1>3 DEF RpcFails

LEMMA EndLoadKeeps ==
    ASSUME DirectoryIInv, UNCHANGED registryVars, NEW r \in ListCalls, EndLoad(r)
    PROVE  DirectoryIInv'
<1> DEFINE c == call[r]
           rows == [i \in DOMAIN c.rows |-> CHOOSE row \in c.rows[i] : TRUE]
<1>1. /\ UNCHANGED <<time, rpcChain, site, governance, governanceCache>>
      /\ UNCHANGED <<metadataCache, chainIdChecked>>
      /\ call' = [call EXCEPT ![r] = Idle]
      /\ c.work = {} /\ c.pc \in {"rows", "failed"}
      /\ listCache' = IF c.pc = "rows" THEN [rows |-> rows, size |-> Len(c.list), at |-> time] ELSE listCache
  BY DEF EndLoad
<1>2. rpcChain = "mainnet"
  BY <1>1, CallFacts
<1>3. CASE c.pc # "rows"
  BY <1>1, <1>2, <1>3, CallFacts, IdleKeeps
<1>4. CASE c.pc = "rows"
  <2>1. LoadSound(c, issuerList, time) /\ time \in Nat /\ time \in 1..MaxTime
    BY CallFacts, DirectoryFacts
  <2> DEFINE n == Len(c.list)
  <2>2. /\ n \in Nat /\ c.rows \in Seq(SUBSET Row) /\ Len(c.rows) = n /\ c.cursor = n
        /\ n <= Len(issuerList) /\ c.since \in Nat /\ time <= c.since + LoadBound
        /\ \A i \in 1..n : c.list[i] = issuerList[i]
    BY <1>1, <1>4, <2>1, LoadFacts DEF LoadSound
  <2>3. DOMAIN c.rows = 1..n
    BY <2>2
  <2>4. \A i \in 1..n : c.rows[i] # {}
    BY <1>1, <1>4, <2>1, <2>2 DEF LoadSound
  <2>5. \A i \in 1..n : RowSound(rows[i], issuerList[i], c.since, time)
    <3> TAKE i \in 1..n
    <3>1. PICK row : c.rows[i] = {row} /\ RowSound(row, c.list[i], c.since, time)
      BY <2>1, <2>4 DEF LoadSound
    <3>2. rows[i] = row
      BY <2>3, <3>1
    <3> QED BY <2>2, <3>1, <3>2
  <2>6. rows \in Seq(Row) /\ Len(rows) = n
    <3>1. rows \in [1..n -> Row]
      <4>1. \A i \in 1..n : rows[i] \in Row
        BY <2>5 DEF RowSound
      <4>2. rows = [i \in 1..n |-> rows[i]]
        BY <2>3
      <4> HIDE DEF rows
      <4> QED BY <4>1, <4>2
    <3> HIDE DEF rows
    <3> QED BY <2>2, <3>1
  <2> HIDE DEF rows, c
  <2>7. listCache'.rows = rows /\ listCache'.size = n /\ listCache'.at = time
    BY <1>1, <1>4
  <2>8. ASSUME NEW i \in 1..n
        PROVE  /\ rows[i].addr = issuerList[i]
               /\ rows[i].readAt <= time /\ time <= rows[i].readAt + LoadBound
               /\ FoundSound(rows[i].meta, rows[i].readAt, time)
    <3>1. RowSound(rows[i], issuerList[i], c.since, time) /\ rows[i].readAt \in Nat
      BY <2>5 DEF RowSound, Row
    <3> QED BY <2>1, <2>2, <3>1, BoundsAreNumbers DEF RowSound
  <2>9. ListSound(listCache', issuerList, time)
    BY <2>1, <2>2, <2>6, <2>7, <2>8, BoundsAreNumbers DEF ListSound
  <2> QED BY <1>1, <1>2, <2>9, IdleKeeps
<1> QED BY <1>3, <1>4

(* The requests for the governance state.                                  *)
LEMMA GovernanceStep ==
    ASSUME DirectoryIInv, UNCHANGED <<registryVars, time, rpcChain, site, call, listCache, metadataCache>>,
           GovernanceSound', chainIdChecked' \in BOOLEAN,
           rpcChain # "mainnet" => /\ ~chainIdChecked' /\ governance'.pc \in {"idle", "chain"}
                                   /\ governanceCache'.at = 0
    PROVE  DirectoryIInv'
<1>1. RegistryIInv'
  BY RegistryAssumption, RegistryStep DEF DirectoryIInv
<1>2. issuerList' = issuerList /\ time' = time
  BY DEF registryVars
<1>3. CheckedOnce'
  BY DEF DirectoryIInv, CheckedOnce
<1>4. LoadsSound'
  BY <1>2 DEF DirectoryIInv, LoadsSound
<1> QED BY <1>1, <1>2, <1>3, <1>4 DEF DirectoryIInv

LEMMA GovernanceFacts ==
    ASSUME DirectoryIInv
    PROVE  /\ governance \in [pc : GovernanceSteps, since : Nat, payload : RolesRecord]
           /\ governanceCache \in RolesRecord /\ GovernanceHonest
           /\ governance.since <= time
           /\ governance.pc # "idle" =>
                 /\ ~governance.payload.slashingIsTimelock
                 /\ governance.payload.ownerIsTimelock =>
                        governance.pc = "probe slashing" /\ governance.payload.owner = RegistryTimelock
           /\ chainIdChecked \in BOOLEAN
           /\ rpcChain # "mainnet" => /\ ~chainIdChecked /\ governance.pc \in {"idle", "chain"}
                                      /\ governanceCache.at = 0
BY DEF DirectoryIInv, GovernanceSound, CheckedOnce

LEMMA GovernanceKeeps ==
    ASSUME DirectoryIInv, UNCHANGED registryVars,
           \/ BeginGovernance \/ GovernanceChain \/ ReadRoles \/ ProbeOwner
           \/ EndGovernance \/ GovernanceFails
    PROVE  DirectoryIInv'
<1> USE DEF GoTo
<1>1. UNCHANGED <<time, rpcChain, site, call, listCache, metadataCache>>
  BY DEF BeginGovernance, GovernanceChain, ReadRoles, ProbeOwner, EndGovernance, GovernanceFails
<1>2. governance \in [pc : GovernanceSteps, since : Nat, payload : RolesRecord]
  BY GovernanceFacts
<1>3. CASE BeginGovernance
  <2>1. NoRoles \in RolesRecord /\ ~NoRoles.ownerIsTimelock /\ ~NoRoles.slashingIsTimelock
    BY RegistryAssumption, BoundsAreNumbers DEF NoRoles, RolesRecord
  <2>2. time \in Nat
    BY DirectoryFacts
  <2>3. /\ UNCHANGED <<chainIdChecked, governanceCache>>
        /\ governance' = [pc |-> IF chainIdChecked THEN "owner" ELSE "chain", since |-> time,
                          payload |-> NoRoles]
    BY <1>3 DEF BeginGovernance
  <2>4. /\ governance'.pc = (IF chainIdChecked THEN "owner" ELSE "chain")
        /\ governance'.since = time /\ governance'.payload = NoRoles
        /\ governance' \in [pc : GovernanceSteps, since : Nat, payload : RolesRecord]
    BY <2>1, <2>2, <2>3 DEF GovernanceSteps
  <2>5. GovernanceSound'
    <3>1. time' = time /\ governanceCache' = governanceCache
      BY <1>1, <2>3
    <3>2. governance'.since <= time'
      BY <2>2, <2>4, <3>1
    <3>3. GovernanceHonest'
      BY <3>1, GovernanceFacts DEF GovernanceHonest
    <3>4. ~governance'.payload.slashingIsTimelock /\ ~governance'.payload.ownerIsTimelock
      BY <2>1, <2>4
    <3> QED BY <2>4, <3>1, <3>2, <3>3, <3>4, GovernanceFacts DEF GovernanceSound
  <2>6. /\ chainIdChecked' \in BOOLEAN
        /\ rpcChain # "mainnet" => /\ ~chainIdChecked' /\ governance'.pc \in {"idle", "chain"}
                                   /\ governanceCache'.at = 0
    <3>1. /\ chainIdChecked \in BOOLEAN
          /\ rpcChain # "mainnet" => ~chainIdChecked /\ governanceCache.at = 0
      BY GovernanceFacts
    <3>2. chainIdChecked' = chainIdChecked /\ governanceCache' = governanceCache
      BY <2>3
    <3>3. ~chainIdChecked => governance'.pc = "chain"
      BY <2>4
    <3> QED BY <3>1, <3>2, <3>3
  <2> QED BY <1>1, <2>5, <2>6, GovernanceStep
<1>4. CASE GovernanceChain \/ GovernanceFails
  <2>1. PICK pc \in {"owner", "idle"} : governance' = [governance EXCEPT !.pc = pc]
    BY <1>4 DEF GovernanceChain, GovernanceFails
  <2>2. /\ governance' \in [pc : GovernanceSteps, since : Nat, payload : RolesRecord]
        /\ governance'.pc = pc /\ governance'.since = governance.since
        /\ governance'.payload = governance.payload
    BY <1>2, <2>1 DEF GovernanceSteps
  <2>3. /\ UNCHANGED governanceCache
        /\ chainIdChecked' \in BOOLEAN
        /\ rpcChain # "mainnet" => pc = "idle" /\ ~chainIdChecked'
        /\ pc = "owner" => governance.pc = "chain"
    <3>1. CASE GovernanceFails
      <4>1. UNCHANGED <<governanceCache, chainIdChecked>> /\ governance'.pc = "idle"
        BY <1>2, <3>1 DEF GovernanceFails
      <4> QED BY <2>2, <4>1, GovernanceFacts
    <3>2. CASE GovernanceChain /\ rpcChain = "mainnet"
      BY <3>2 DEF GovernanceChain
    <3>3. CASE GovernanceChain /\ rpcChain # "mainnet"
      <4>1. UNCHANGED <<governanceCache, chainIdChecked>> /\ governance'.pc = "idle"
        BY <1>2, <3>3 DEF GovernanceChain
      <4> QED BY <2>2, <4>1, GovernanceFacts
    <3> QED BY <1>4, <3>1, <3>2, <3>3
  <2>4. GovernanceSound'
    BY <1>1, <2>2, <2>3, GovernanceFacts DEF GovernanceSound, GovernanceHonest
  <2> QED BY <1>1, <2>2, <2>3, <2>4, GovernanceFacts, GovernanceStep
<1>5. CASE ReadRoles
  <2>1. /\ UNCHANGED <<chainIdChecked, governanceCache>>
        /\ governance.pc \in {"owner", "slashing"}
        /\ \/ governance' = [governance EXCEPT !.pc = "slashing", !.payload.owner = owner]
           \/ governance' = [governance EXCEPT !.pc = "probe owner",
                                               !.payload.slashing = slashingAuthority]
    BY <1>5 DEF ReadRoles
  <2>2. owner \in Governors /\ slashingAuthority \in Governors /\ governance.payload \in RolesRecord
    BY <1>2, DirectoryFacts
  <2>3. /\ governance' \in [pc : GovernanceSteps, since : Nat, payload : RolesRecord]
        /\ governance'.pc \in {"slashing", "probe owner"} /\ governance'.since = governance.since
        /\ governance'.payload.ownerIsTimelock = governance.payload.ownerIsTimelock
        /\ governance'.payload.slashingIsTimelock = governance.payload.slashingIsTimelock
    <3> DEFINE p == governance.payload
               withOwner == [p EXCEPT !.owner = owner]
               slashes == [p EXCEPT !.slashing = slashingAuthority]
    <3>1. /\ withOwner \in RolesRecord /\ slashes \in RolesRecord
          /\ withOwner.ownerIsTimelock = p.ownerIsTimelock /\ slashes.ownerIsTimelock = p.ownerIsTimelock
          /\ withOwner.slashingIsTimelock = p.slashingIsTimelock
          /\ slashes.slashingIsTimelock = p.slashingIsTimelock
      BY <2>2 DEF RolesRecord
    <3>2. \/ governance' = [governance EXCEPT !.pc = "slashing", !.payload = withOwner]
          \/ governance' = [governance EXCEPT !.pc = "probe owner", !.payload = slashes]
      BY <1>2, <2>1
    <3> HIDE DEF withOwner, slashes
    <3> QED BY <1>2, <3>1, <3>2 DEF GovernanceSteps
  <2>4. GovernanceSound'
    BY <1>1, <2>1, <2>3, GovernanceFacts DEF GovernanceSound, GovernanceHonest
  <2> QED BY <1>1, <2>1, <2>3, <2>4, GovernanceFacts, GovernanceStep
<1>6. CASE ProbeOwner
  <2>1. PICK is \in Probe(governance.payload.owner) :
            governance' = [governance EXCEPT !.pc = "probe slashing", !.payload.ownerIsTimelock = is]
    BY <1>6 DEF ProbeOwner
  <2>2. is \in BOOLEAN /\ (is => governance.payload.owner = RegistryTimelock)
    BY <2>1 DEF Probe
  <2>3. UNCHANGED <<chainIdChecked, governanceCache>> /\ governance.pc = "probe owner"
    BY <1>6 DEF ProbeOwner
  <2>4. /\ governance' \in [pc : GovernanceSteps, since : Nat, payload : RolesRecord]
        /\ governance'.pc = "probe slashing" /\ governance'.since = governance.since
        /\ governance'.payload.ownerIsTimelock = is
        /\ governance'.payload.owner = governance.payload.owner
        /\ governance'.payload.slashingIsTimelock = governance.payload.slashingIsTimelock
    BY <1>2, <2>1, <2>2 DEF GovernanceSteps, RolesRecord
  <2>5. GovernanceSound'
    BY <1>1, <2>2, <2>3, <2>4, GovernanceFacts DEF GovernanceSound, GovernanceHonest
  <2> QED BY <1>1, <2>3, <2>4, <2>5, GovernanceFacts, GovernanceStep
<1>7. CASE EndGovernance
  <2>1. PICK is \in Probe(governance.payload.slashing) :
            governanceCache' = [governance.payload EXCEPT !.slashingIsTimelock = is, !.at = time]
    BY <1>7 DEF EndGovernance
  <2>2. is \in BOOLEAN /\ (is => governance.payload.slashing = RegistryTimelock)
    BY <2>1 DEF Probe
  <2>3. /\ UNCHANGED chainIdChecked /\ governance.pc = "probe slashing"
        /\ governance' = [governance EXCEPT !.pc = "idle"]
    BY <1>7 DEF EndGovernance
  <2>4. time \in 0..MaxTime
    BY DirectoryFacts, BoundsAreNumbers
  <2>5. /\ governance' \in [pc : GovernanceSteps, since : Nat, payload : RolesRecord]
        /\ governance'.pc = "idle" /\ governance'.since = governance.since
    BY <1>2, <2>3 DEF GovernanceSteps
  <2>6. /\ governanceCache' \in RolesRecord
        /\ governanceCache'.ownerIsTimelock = governance.payload.ownerIsTimelock
        /\ governanceCache'.owner = governance.payload.owner
        /\ governanceCache'.slashing = governance.payload.slashing
        /\ governanceCache'.slashingIsTimelock = is
    BY <1>2, <2>1, <2>2, <2>4 DEF RolesRecord
  <2>7. GovernanceSound'
    BY <1>1, <2>2, <2>3, <2>5, <2>6, GovernanceFacts DEF GovernanceSound, GovernanceHonest
  <2> QED BY <1>1, <2>3, <2>5, <2>7, GovernanceFacts, GovernanceStep
<1> QED BY <1>3, <1>4, <1>5, <1>6, <1>7

LEMMA TimePassesKeeps ==
    ASSUME DirectoryIInv, UNCHANGED registryVars, TimePasses
    PROVE  DirectoryIInv'
<1>1. /\ UNCHANGED <<rpcChain, chainIdChecked, site, listCache, metadataCache, call, governance, governanceCache>>
      /\ time < MaxTime /\ time' = time + 1
      /\ \A s \in Since : time - s < LoadBound
  BY DEF TimePasses
<1>2. RegistryIInv' /\ issuerList' = issuerList
  BY RegistryAssumption, RegistryStep DEF DirectoryIInv, registryVars
<1>3. time \in Nat /\ time' \in 1..MaxTime
  BY <1>1, DirectoryFacts, BoundsAreNumbers
<1>4. LoadsSound'
  <2> SUFFICES ASSUME NEW r \in ListCalls PROVE LoadSound(call[r], issuerList, time + 1)
    BY <1>1, <1>2 DEF DirectoryIInv, LoadsSound
  <2>1. LoadSound(call[r], issuerList, time)
    BY CallFacts
  <2>2. call[r].pc # "idle" => time < call[r].since + LoadBound
    <3> SUFFICES ASSUME call[r].pc # "idle" PROVE time < call[r].since + LoadBound
      OBVIOUS
    <3>1. call[r].since \in Since
      BY DEF Since
    <3>2. call[r].since \in Nat
      BY <1>3, <2>1, LoadFacts
    <3> QED BY <1>1, <1>3, <3>1, <3>2, BoundsAreNumbers
  <2> QED BY <1>3, <2>1, <2>2, LoadLater
<1>5. CacheSound(metadataCache', time')
  <2>1. \A i \in DOMAIN metadataCache : metadataCache[i].at \in Nat /\ metadataCache[i].at <= time
    <3>1. EntriesSound(metadataCache, time)
      BY DEF DirectoryIInv, CacheSound
    <3>2. \A i \in DOMAIN metadataCache : metadataCache[i] \in CacheEntry
      BY <3>1 DEF EntriesSound
    <3> QED BY <3>1, <3>2 DEF EntriesSound, CacheEntry
  <2>2. \A i \in DOMAIN metadataCache : metadataCache[i].at <= time + 1
    BY <1>3, <2>1
  <2> QED BY <1>1, <2>2 DEF DirectoryIInv, CacheSound, EntriesSound
<1>6. ListSound(listCache', issuerList', time')
  <2>1. ListSound(listCache, issuerList, time) /\ listCache.at \in Nat
    BY DEF DirectoryIInv, ListSound
  <2>2. listCache.at <= time + 1
    BY <1>3, <2>1 DEF ListSound
  <2> QED BY <1>1, <1>2, <2>1, <2>2 DEF ListSound
<1>7. GovernanceSound'
  <2>1. governance.since <= time + 1
    <3>1. governance.since \in Nat /\ governance.since <= time
      BY GovernanceFacts
    <3> QED BY <1>3, <3>1
  <2> QED BY <1>1, <2>1 DEF DirectoryIInv, GovernanceSound, GovernanceHonest
<1>8. CheckedOnce' /\ site' \in [URIs -> Answers]
  BY <1>1 DEF DirectoryIInv, CheckedOnce
<1> QED BY <1>2, <1>3, <1>4, <1>5, <1>6, <1>7, <1>8 DEF DirectoryIInv

(* A call of the registry: its list stays or gets one account longer.      *)
LEMMA RegistryMovesKeeps ==
    ASSUME DirectoryIInv, [RegistryNext]_registryVars, UNCHANGED directoryVars
    PROVE  DirectoryIInv'
<1>1. RegistryIInv'
  BY RegistryAssumption, RegistryStep DEF DirectoryIInv
<1>2. /\ UNCHANGED <<rpcChain, chainIdChecked, site, listCache, metadataCache>>
      /\ UNCHANGED <<call, governance, governanceCache, time>>
  BY DEF directoryVars
<1>3. issuerList \in Seq(Issuers) /\ issuerList' \in Seq(Issuers) /\ time \in Nat
  BY <1>1, DirectoryFacts DEF RegistryIInv, RegistryInv, RegistryTypeOK
<1>4. issuerList' = issuerList \/ \E a \in Issuers : issuerList' = Append(issuerList, a)
  BY DEF RegistryNext, StakeAndRegister, RequestUnstake, WithdrawStake, SetMetadataURI, Report, Slash,
         WithdrawTreasury, SetStakeRequirements, SetSlashingAuthority, SetReporter,
         TransferOwnership, NextDay, registryVars
<1>5. Len(issuerList) <= Len(issuerList') /\ \A i \in 1..Len(issuerList) : issuerList'[i] = issuerList[i]
  <2>1. CASE issuerList' = issuerList
    BY <1>3, <2>1
  <2>2. CASE \E a \in Issuers : issuerList' = Append(issuerList, a)
    BY <1>3, <2>2
  <2> QED BY <1>4, <2>1, <2>2
<1>6. PICK more \in Seq(Issuers) : more = issuerList'
  BY <1>3
<1>7. LoadsSound'
  <2>1. \A r \in ListCalls : LoadSound(call[r], more, time)
    BY <1>3, <1>5, <1>6, CallFacts, LoadOnGrownList
  <2> QED BY <1>2, <1>6, <2>1, DirectoryFacts DEF LoadsSound
<1>8. ListSound(listCache', issuerList', time')
  <2>1. ListSound(listCache, issuerList, time) /\ listCache.rows \in Seq(Row)
    BY DEF DirectoryIInv, ListSound
  <2>2. /\ Len(listCache.rows) \in Nat /\ Len(issuerList) \in Nat /\ Len(more) \in Nat
        /\ Len(listCache.rows) <= Len(issuerList)
    BY <1>3, <2>1 DEF ListSound
  <2>3. /\ Len(listCache.rows) <= Len(more)
        /\ \A i \in 1..Len(listCache.rows) : more[i] = issuerList[i]
    BY <1>5, <1>6, <2>2
  <2>4. ListSound(listCache, more, time)
    BY <2>1, <2>3 DEF ListSound
  <2> QED BY <1>2, <1>6, <2>4
<1>9. GovernanceSound' /\ CheckedOnce' /\ CacheSound(metadataCache', time')
  BY <1>2 DEF DirectoryIInv, GovernanceSound, GovernanceHonest, CheckedOnce
<1>10. site' \in [URIs -> Answers] /\ time' \in 1..MaxTime
  BY <1>2 DEF DirectoryIInv
<1> QED BY <1>1, <1>7, <1>8, <1>9, <1>10 DEF DirectoryIInv

LEMMA DirectoryStep ==
    DirectoryIInv /\ [\/ DirectoryNext /\ UNCHANGED registryVars
                      \/ RegistryNext /\ UNCHANGED directoryVars]_<<registryVars, directoryVars>>
        => DirectoryIInv'
<1> SUFFICES ASSUME DirectoryIInv,
                    [\/ DirectoryNext /\ UNCHANGED registryVars
                     \/ RegistryNext /\ UNCHANGED directoryVars]_<<registryVars, directoryVars>>
             PROVE  DirectoryIInv'
  OBVIOUS
<1>1. CASE [RegistryNext]_registryVars /\ UNCHANGED directoryVars
  BY <1>1, RegistryMovesKeeps
<1>2. CASE UNCHANGED registryVars /\ \E r \in ListCalls : ServeList(r) \/ BeginLoad(r) \/ RpcFails(r)
  BY <1>1, <1>2, BeginLoadKeeps, RpcFailsKeeps DEF ServeList, ServeCached
<1>3. CASE UNCHANGED registryVars /\ \E r \in ListCalls : LoadStep(r)
  BY <1>3, ChainAnswersKeeps, ReadListKeeps, ReadRecordKeeps, FetchMetadataKeeps, EndLoadKeeps DEF LoadStep
<1>4. CASE UNCHANGED registryVars /\ \/ BeginGovernance \/ GovernanceChain \/ ReadRoles \/ ProbeOwner
                                     \/ EndGovernance \/ GovernanceFails
  BY <1>4, GovernanceKeeps
<1>5. CASE UNCHANGED registryVars /\ TimePasses
  BY <1>5, TimePassesKeeps
<1> QED BY <1>1, <1>2, <1>3, <1>4, <1>5 DEF DirectoryNext

(* For any number of requests, workers, issuers and any times: a list      *)
(* served is complete and in order, no older than a TTL and a load, never  *)
(* from another chain, and a role is shown behind the timelock only if it  *)
(* is; the caches and the pool of workers stay within their bounds.        *)
THEOREM DirectoryServesTheRegistry == DirectorySpec => []DirectoryInv
BY DirectoryInitially, DirectoryStep, DirectoryHolds, PTL DEF DirectorySpec
=============================================================================
