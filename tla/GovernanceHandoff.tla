------------------------- MODULE GovernanceHandoff -------------------------
(***************************************************************************)
(* Handing the mainnet IssuerRegistry to the HSKPassportTimelock: the      *)
(* scripts deploy-mainnet-timelock, deploy-mainnet-issuer-registry,        *)
(* handoff-mainnet-issuer-registry, schedule- and execute-timelock-test    *)
(* and grant-timelock-proposer of contracts/scripts.                       *)
(*                                                                         *)
(* The deployer runs one script at a time.  A script reads the chain and   *)
(* the records of earlier scripts and gives up when a check fails; then it *)
(* sends one transaction, and then writes its own record.  It may be       *)
(* interrupted between the two, and the chain moves while it runs.  The    *)
(* registry of module IssuerRegistry is the one at the address written in  *)
(* handoff-mainnet-issuer-registry.ts; `successor' is the one a later      *)
(* deployment records.                                                     *)
(***************************************************************************)
EXTENDS IssuerRegistry

CONSTANTS Timelock, Safe,
          MinDelay,    \* HSKPassportTimelock.MIN_DELAY, in days
          MaxOps       \* bound: operations ever scheduled

ASSUME HandoffAssumption ==
    /\ Timelock \in Governors \ {Deployer} /\ Deployer \in Issuers
    /\ MinDelay \in Nat /\ MaxOps \in Nat

VARIABLES script,    \* the script running
          timelock,  \* the contract: its roles, and the operations scheduled
          records,   \* the files of contracts/deployments
          successor, \* roles of the registry deployed last
          outcome    \* history: the scripts that ended without an error

handoffVars == <<script, timelock, records, successor, outcome>>

NotRunning == [name |-> "none", step |-> "none", op |-> 0]
NotDeployed == [owner |-> Deployer, slashing |-> Deployer, deployed |-> FALSE]
Scripts == {"deploy-timelock", "deploy-registry", "handoff-slashing", "handoff-ownership",
            "schedule-test", "execute-test", "schedule-grant", "execute-grant"}

HandoffTypeOK ==
    /\ script \in [name : Scripts \cup {"none"}, step : {"none", "checked", "sent"}, op : 0..MaxOps]
    /\ timelock.deployed \in BOOLEAN
    /\ timelock.proposers \cup timelock.cancellers \subseteq {Deployer, Safe}
    /\ timelock.ops \in Seq([call : {"slash", "grant"}, ready : Nat, done : BOOLEAN])
    /\ Len(timelock.ops) <= MaxOps
    /\ records \in [timelock : BOOLEAN, registry : BOOLEAN, test : 0..MaxOps, grant : 0..MaxOps]
    /\ successor \in [owner : Governors, slashing : Governors, deployed : BOOLEAN]
    /\ outcome \subseteq Scripts

HandoffInit ==
    /\ script = NotRunning
    /\ timelock = [deployed |-> FALSE, proposers |-> {}, cancellers |-> {}, ops |-> <<>>]
    /\ records = [timelock |-> FALSE, registry |-> FALSE, test |-> 0, grant |-> 0]
    /\ successor = NotDeployed
    /\ outcome = {}

-----------------------------------------------------------------------------
(* The timelock (OpenZeppelin's TimelockController).                       *)

OpReady(op) == ~timelock.ops[op].done /\ day >= timelock.ops[op].ready

Schedule(by, call) ==
    /\ by \in timelock.proposers
    /\ Len(timelock.ops) < MaxOps
    /\ timelock' = [timelock EXCEPT !.ops =
           Append(@, [call |-> call, ready |-> day + MinDelay, done |-> FALSE])]

\* Both roles in one batch.
GrantBatch(t) == [t EXCEPT !.proposers = @ \cup {Safe}, !.cancellers = @ \cup {Safe}]

\* The call fails as a whole with what it calls.
Perform(op) ==
    \/ /\ timelock.ops[op].call = "slash"
       /\ Slash(Timelock, Deployer, 0)
       /\ timelock' = [timelock EXCEPT !.ops[op].done = TRUE]
    \/ /\ timelock.ops[op].call = "grant"
       /\ timelock' = [GrantBatch(timelock) EXCEPT !.ops[op].done = TRUE]
       /\ UNCHANGED registryVars

Performable(op) ==
    /\ OpReady(op)
    /\ timelock.ops[op].call = "slash" =>
           slashingAuthority = Timelock /\ issuers[Deployer].stake # 0

-----------------------------------------------------------------------------
(* The scripts up to their transaction: what each checks first.            *)

\* The two deployments check the network and the deployer's funds only; they
\* are run once each (a bound).
DeployTimelock == ~timelock.deployed

DeployRegistry == ~successor.deployed

\* Mutant: a handoff that takes the timelock's address as given.
HandoffUnrecorded == owner = Deployer

HandoffSlashing == records.timelock /\ owner = Deployer /\ slashingAuthority # Timelock

HandoffOwnership == records.timelock /\ owner = Deployer

ScheduleTest == records.timelock /\ slashingAuthority = Timelock

ScheduleGrant ==
    /\ records.timelock
    /\ Deployer \in timelock.proposers
    /\ Safe \notin timelock.proposers

ExecuteTest == records.test # 0 /\ OpReady(records.test)

ExecuteGrant == records.grant # 0 /\ OpReady(records.grant)

Checks(n) ==
    \/ n = "deploy-timelock" /\ DeployTimelock
    \/ n = "deploy-registry" /\ DeployRegistry
    \/ n = "handoff-slashing" /\ HandoffSlashing
    \/ n = "handoff-ownership" /\ HandoffOwnership
    \/ n = "schedule-test" /\ ScheduleTest
    \/ n = "schedule-grant" /\ ScheduleGrant
    \/ n = "execute-test" /\ ExecuteTest
    \/ n = "execute-grant" /\ ExecuteGrant

Start(n) ==
    /\ script = NotRunning
    /\ Checks(n)
    /\ script' = [script EXCEPT !.name = n, !.step = "checked"]
    /\ UNCHANGED <<timelock, records, successor, outcome, registryVars>>

\* The operation was executed by hand before: the script says so and returns.
AlreadyDone(n) ==
    /\ script = NotRunning
    /\ \/ n = "execute-test" /\ records.test # 0 /\ timelock.ops[records.test].done
       \/ n = "execute-grant" /\ records.grant # 0 /\ timelock.ops[records.grant].done
    /\ outcome' = outcome \cup {n}
    /\ UNCHANGED <<script, timelock, records, successor, registryVars>>

-----------------------------------------------------------------------------
(* The transaction of the script that runs.                                *)

Running(n) == script.name = n /\ script.step = "checked"
Sent(op) == script' = [script EXCEPT !.step = "sent", !.op = op]
Ended == script' = NotRunning /\ outcome' = outcome \cup {script.name}

\* Proposer and executor are the deployer; the timelock is its own admin.
SendDeployTimelock ==
    /\ Running("deploy-timelock")
    /\ timelock' = [timelock EXCEPT !.deployed = TRUE, !.proposers = {Deployer},
                                    !.cancellers = {Deployer}]
    /\ Sent(0)
    /\ UNCHANGED <<records, successor, outcome, registryVars>>

SendDeployRegistry ==
    /\ Running("deploy-registry")
    /\ successor' = [NotDeployed EXCEPT !.deployed = TRUE]
    /\ Sent(0)
    /\ UNCHANGED <<timelock, records, outcome, registryVars>>

SendHandoff ==
    /\ \/ Running("handoff-slashing") /\ SetSlashingAuthority(Deployer, Timelock)
       \/ Running("handoff-ownership") /\ TransferOwnership(Deployer, Timelock)
    /\ Ended
    /\ UNCHANGED <<timelock, records, successor>>

SendSchedule ==
    \E c \in {"slash", "grant"} :
        /\ Running(IF c = "slash" THEN "schedule-test" ELSE "schedule-grant")
        /\ Schedule(Deployer, c)
        /\ Sent(Len(timelock.ops) + 1)
        /\ UNCHANGED <<records, successor, outcome, registryVars>>

SendExecute(n, op) ==
    /\ Running(n)
    /\ Performable(op)
    /\ Perform(op)
    /\ script' = NotRunning
    /\ UNCHANGED <<records, successor>>

ExecutionMined ==
    /\ SendExecute("execute-test", records.test)
    /\ outcome' = outcome \cup {"execute-test"}

\* The script checks afterwards that the Safe holds both roles.
GrantMined ==
    /\ SendExecute("execute-grant", records.grant)
    /\ outcome' = IF Safe \in timelock'.proposers \cap timelock'.cancellers
                  THEN outcome \cup {"execute-grant"} ELSE outcome

\* The transaction reverts, or the process is interrupted before it.
Abandoned ==
    /\ script.step = "checked"
    /\ script' = NotRunning
    /\ UNCHANGED <<timelock, records, successor, outcome, registryVars>>

WriteRecord ==
    /\ script.step = "sent"
    /\ Ended
    /\ records' = [records EXCEPT
          !.timelock = @ \/ script.name = "deploy-timelock",
          !.registry = @ \/ script.name = "deploy-registry",
          !.test = IF script.name = "schedule-test" THEN script.op ELSE @,
          !.grant = IF script.name = "schedule-grant" THEN script.op ELSE @]
    /\ UNCHANGED <<timelock, successor, registryVars>>

\* Interrupted after the transaction: the record, with the salt of a
\* scheduled operation, is lost.
RecordLost ==
    /\ script.step = "sent"
    /\ script' = NotRunning
    /\ UNCHANGED <<timelock, records, successor, outcome, registryVars>>

-----------------------------------------------------------------------------
(* What else happens on the chain meanwhile.                               *)

\* The deployer, the only executor, executes an operation by hand.
ExecuteByHand ==
    \E op \in DOMAIN timelock.ops :
        /\ Performable(op)
        /\ Perform(op)
        /\ UNCHANGED <<script, records, successor, outcome>>

\* The way back documented for the first phase.
TakeBackSlashing ==
    /\ slashingAuthority # Deployer
    /\ SetSlashingAuthority(Deployer, Deployer)
    /\ UNCHANGED handoffVars

DeployerIsIssuer ==
    /\ \/ \E v \in Amounts \ {0} :
              ledger[Deployer].paid = 0 /\ StakeAndRegister(Deployer, v, NoURI)
       \/ RequestUnstake(Deployer) /\ unstakeRequestedAt[Deployer] = 0
       \/ WithdrawStake(Deployer)
       \/ NextDay
    /\ UNCHANGED handoffVars

HandoffNext ==
    \/ \E n \in Scripts : Start(n)
    \/ \E n \in Scripts : AlreadyDone(n)
    \/ SendDeployTimelock
    \/ SendDeployRegistry
    \/ SendHandoff
    \/ SendSchedule
    \/ ExecutionMined \/ GrantMined
    \/ Abandoned
    \/ WriteRecord
    \/ RecordLost
    \/ ExecuteByHand
    \/ TakeBackSlashing
    \/ DeployerIsIssuer

\* Others call the registry meanwhile; its roles move by the scripts alone.
HandoffSpec ==
    /\ RegistryInit /\ HandoffInit
    /\ [][HandoffNext \/ (RegistryNext /\ UNCHANGED <<owner, slashingAuthority, handoffVars>>)]_<<registryVars, handoffVars>>

-----------------------------------------------------------------------------
(* A record of an operation names one that is scheduled on the chain with  *)
(* the call the script stands for, through interruptions: the execute      *)
(* scripts never ask for an unknown operation or for another one's call.   *)
RecordsScheduled ==
    /\ records.test # 0 => records.test \in DOMAIN timelock.ops
                           /\ timelock.ops[records.test].call = "slash"
    /\ records.grant # 0 => records.grant \in DOMAIN timelock.ops
                            /\ timelock.ops[records.grant].call = "grant"

(* Whoever holds the owner's role can use it: it is never given to the     *)
(* timelock before the timelock exists and has a proposer, so that the     *)
(* one-step, irreversible transfer cannot lose the registry.               *)
NeverBricked ==
    Timelock \in {owner, slashingAuthority} => timelock.deployed /\ timelock.proposers # {}

(* When the script of the grant ended well the Safe can schedule and       *)
(* cancel, also when the operation was executed by hand.                   *)
GrantComplete ==
    "execute-grant" \in outcome => Safe \in timelock.proposers /\ Safe \in timelock.cancellers

(* What the scripts leave behind at any moment, wherever they stop.        *)
HandoffInv == HandoffTypeOK /\ RecordsScheduled /\ NeverBricked /\ GrantComplete
=============================================================================
