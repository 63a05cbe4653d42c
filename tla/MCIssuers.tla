------------------------------ MODULE MCIssuers ------------------------------
(***************************************************************************)
(* The IssuerRegistry and the three programs around it: the scripts that   *)
(* hand it to the timelock, the backend's directory and the page through   *)
(* which issuers join.  A behaviour is about one of them (`about'), the    *)
(* others stay as they start; the registry moves in all.                   *)
(***************************************************************************)
EXTENDS GovernanceHandoff, IssuerDirectory, IssuerProgram, TLC

CONSTANTS i1, i2, dep, u1, u2, r1

VARIABLE about

allVars == <<registryVars, handoffVars, directoryVars, programVars, about>>

Requirements == [community |-> 0, provider |-> 2, institutional |-> 3]
Raised == [community |-> 1, provider |-> 1, institutional |-> 3]

\* One stands for the amounts just below the provider's threshold.
Doubles == [v \in Amounts |-> IF v = 1 THEN 2 ELSE v]
OnlyRaised == {Raised}
Kinds == (u1 :> "https") @@ (u2 :> "bad ipfs")
Purse == [a \in Applicants |-> IF a = i1 THEN 3 ELSE 1]

\* Issuers that registered without a stake: two for one request with two
\* workers, one for two requests.
Listed == /\ issuers = [a \in Issuers |-> IF a = i1 \/ (a = i2 /\ about = "workers")
                 THEN [NoIssuer EXCEPT !.active = TRUE, !.tier = "Community", !.metadataURI = u1]
                 ELSE NoIssuer]
          /\ issuerList = IF about = "workers" THEN <<i1, i2>> ELSE <<i1>>

Quiet == /\ unstakeRequestedAt = [a \in Issuers |-> 0]
         /\ stakeReqs = DeployedReqs
         /\ owner = Deployer /\ slashingAuthority = Deployer /\ reporter = Deployer
         /\ pendingTreasuryWithdrawals = 0 /\ balance = 0 /\ day = 1
         /\ ledger = [a \in Issuers |-> [paid |-> 0, returned |-> 0, slashedOn |-> 0]]

DirectoryAsleep == /\ rpcChain = "mainnet" /\ chainIdChecked = FALSE
                   /\ site = [u \in URIs |-> "document"]
                   /\ listCache = NoList /\ metadataCache = <<>>
                   /\ call = [r \in ListCalls |-> Idle]
                   /\ governance = [pc |-> "idle", since |-> 0, payload |-> NoRoles]
                   /\ governanceCache = NoRoles /\ time = 1

ProgramAsleep == /\ wallet = i1
                 /\ form = [amount |-> BadAmount, method |-> "provider", notes |-> "", uri |-> NoURI]
                 /\ shown = [step |-> "build", address |-> NoAccount]
                 /\ stakeCall = NoCall /\ lastStake = NoStake

\* The timelock as its deployment script leaves it.
TimelockDeployed ==
    /\ script = NotRunning
    /\ timelock = [deployed |-> TRUE, proposers |-> {Deployer}, cancellers |-> {Deployer}, ops |-> <<>>]
    /\ records = [timelock |-> TRUE, registry |-> FALSE, test |-> 0, grant |-> 0]
    /\ successor = NotDeployed
    /\ outcome = {"deploy-timelock"}

IssuersInit ==
    /\ about \in {"registry", "handoff", "directory", "workers", "roles", "page"}
    /\ IF about = "roles" THEN TimelockDeployed ELSE HandoffInit
    /\ \/ about = "registry" /\ RegistryInit /\ DirectoryAsleep /\ ProgramAsleep
       \/ about = "handoff" /\ RegistryInit /\ DirectoryAsleep /\ ProgramAsleep
       \/ about \in {"directory", "workers", "roles"} /\ Listed /\ Quiet /\ DirectoryInit /\ ProgramAsleep
          /\ (about = "roles" => site[u1] = "document")
       \/ about = "page" /\ RegistryInit /\ DirectoryAsleep /\ ProgramInit

RegistryAlone == UNCHANGED <<handoffVars, directoryVars, programVars, about>>

Calls == IF about = "workers" THEN {r1} ELSE ListCalls

\* What the chain does while the directory reads it.
IssuersChange ==
    \/ dep \notin registered /\ StakeAndRegister(dep, 1, u2)
    \/ about = "workers" /\ issuers[i1].metadataURI = u1 /\ SetMetadataURI(i1, u2)

RolesChange ==
    \/ \E x \in {Deployer, RegistryTimelock} : x # slashingAuthority /\ SetSlashingAuthority(owner, x)
    \/ owner # RegistryTimelock /\ TransferOwnership(owner, RegistryTimelock)

IssuersNext ==
    \/ about = "registry" /\ (\E a \in {i1, i2}, v \in {1, 2} : ledger[a].paid + v <= 2 /\ StakeAndRegister(a, v, u1))
       /\ RegistryAlone
    \/ about = "registry" /\ (\E a \in {i1, i2} : RequestUnstake(a)) /\ RegistryAlone
    \/ about = "registry" /\ (\E a \in {i1, i2} : WithdrawStake(a)) /\ RegistryAlone
    \/ about = "roles" /\ (\E a \in {i1}, k \in {"totalIssued", "totalRevoked"} : Report(a, k)) /\ RegistryAlone
    \/ about = "registry" /\ (\E a \in {i1, i2}, v \in 0..2 : Slash(slashingAuthority, a, v)) /\ RegistryAlone
    \/ about = "registry" /\ WithdrawTreasury /\ RegistryAlone
    \/ about = "registry" /\ (\E r \in OtherReqs : SetStakeRequirements(owner, r)) /\ RegistryAlone
    \/ about = "roles" /\ SetReporter(owner, RegistryTimelock) /\ RegistryAlone
    \/ about = "registry" /\ NextDay /\ RegistryAlone
    \/ about = "handoff" /\ HandoffNext /\ UNCHANGED <<directoryVars, programVars, about>>
    \/ about \in {"directory", "workers"} /\ IssuersChange /\ RegistryAlone
    \/ about \in {"directory", "workers"} /\ (\E r \in Calls : ServeList(r) \/ BeginLoad(r) \/ RpcFails(r) \/ LoadStep(r))
       /\ UNCHANGED <<registryVars, handoffVars, programVars, about>>
    \/ about = "roles" /\ RolesChange /\ RegistryAlone
    \/ about = "roles" /\ (BeginGovernance \/ GovernanceChain \/ ReadRoles \/ ProbeOwner
                           \/ EndGovernance \/ GovernanceFails)
       /\ UNCHANGED <<registryVars, handoffVars, programVars, about>>
    \/ about \in {"directory", "workers", "roles"} /\ TimePasses
       /\ (about = "workers" \/ time < 4)
       /\ UNCHANGED <<registryVars, handoffVars, programVars, about>>
    \/ about = "page" /\ ProgramNext /\ form'.uri # u2 /\ UNCHANGED <<handoffVars, directoryVars, about>>
    \/ about = "page" /\ (\E r \in OtherReqs : SetStakeRequirements(owner, r)) /\ RegistryAlone

LoadProgress(r) == about \in {"directory", "workers"} /\ LoadStep(r)
                   /\ UNCHANGED <<registryVars, handoffVars, programVars, about>>

\* A call of the RPC, the hosts' answer or the abort of a fetch comes.
IssuersSpec == IssuersInit /\ [][IssuersNext]_allVars
               /\ \A r \in ListCalls : WF_allVars(LoadProgress(r))
=============================================================================
