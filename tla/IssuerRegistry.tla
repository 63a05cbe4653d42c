--------------------------- MODULE IssuerRegistry ---------------------------
(***************************************************************************)
(* IssuerRegistry.sol: issuers stake native HSK for a tier, leave after a  *)
(* cooldown, and are slashed by governance into a treasury.  Every call is *)
(* one transaction; a call whose guard is false reverts and changes        *)
(* nothing.  Amounts and times are natural numbers in units of the         *)
(* smallest stake and of a day, so that no 256-bit word overflows.         *)
(***************************************************************************)
EXTENDS Naturals, Sequences, FiniteSets, Functions

CONSTANTS Issuers,       \* accounts that call the registry as issuers
          Deployer,      \* the account that deployed it
          Governors,     \* accounts that may come to hold its roles
          URIs,          \* metadata URIs
          NoURI,         \* the empty string
          Amounts,       \* amounts of HSK sent or slashed
          DeployedReqs,  \* communityMinStake, kycProviderMinStake, institutionalMinStake
          OtherReqs,     \* the requirements an owner may set later
          Cooldown,      \* unstakeCooldown
          MaxStake,      \* bound: HSK an issuer ever deposits
          MaxReports,    \* bound: issuances and revocations reported for an issuer
          MaxDay         \* bound: days

ASSUME RegistryAssumption ==
    /\ Deployer \in Governors
    /\ NoURI \notin URIs
    /\ Amounts \subseteq Nat /\ Cooldown \in Nat /\ MaxStake \in Nat
    /\ DeployedReqs \in [community : Nat, provider : Nat, institutional : Nat]
    /\ OtherReqs \subseteq [community : Nat, provider : Nat, institutional : Nat]

VARIABLES issuers,            \* the struct of an account
          issuerList,         \* every account that ever registered
          unstakeRequestedAt, \* 0 when no exit is pending
          stakeReqs,          \* the three minimum stakes
          owner, slashingAuthority, reporter,
          pendingTreasuryWithdrawals,
          balance,            \* HSK the contract holds
          ledger,             \* history: what an account paid in, got back,
                              \* and the day of its last slash
          day                 \* block.timestamp

registryVars == <<issuers, issuerList, unstakeRequestedAt, stakeReqs, owner,
                  slashingAuthority, reporter, pendingTreasuryWithdrawals,
                  balance, ledger, day>>
roleVars == <<stakeReqs, owner, slashingAuthority, reporter>>

Tiers == {"None", "Community", "KYCProvider", "Institutional"}
IssuerRecord == [stake : Nat, tier : Tiers, totalIssued : Nat, totalRevoked : Nat,
                 slashedAmount : Nat, active : BOOLEAN, metadataURI : URIs \cup {NoURI}]
NoIssuer == [stake |-> 0, tier |-> "None", totalIssued |-> 0, totalRevoked |-> 0,
             slashedAmount |-> 0, active |-> FALSE, metadataURI |-> NoURI]
registered == Range(issuerList)

RegistryTypeOK ==
    /\ issuers \in [Issuers -> IssuerRecord]
    /\ issuerList \in Seq(Issuers)
    /\ unstakeRequestedAt \in [Issuers -> Nat]
    /\ stakeReqs \in [community : Nat, provider : Nat, institutional : Nat]
    /\ {owner, slashingAuthority, reporter} \subseteq Governors
    /\ pendingTreasuryWithdrawals \in Nat
    /\ balance \in Nat
    /\ ledger \in [Issuers -> [paid : Nat, returned : Nat, slashedOn : Nat]]
    /\ day \in Nat \ {0}

RegistryInit ==
    /\ issuers = [a \in Issuers |-> NoIssuer]
    /\ issuerList = <<>>
    /\ unstakeRequestedAt = [a \in Issuers |-> 0]
    /\ stakeReqs = DeployedReqs
    /\ owner = Deployer /\ slashingAuthority = Deployer /\ reporter = Deployer
    /\ pendingTreasuryWithdrawals = 0
    /\ balance = 0
    /\ ledger = [a \in Issuers |-> [paid |-> 0, returned |-> 0, slashedOn |-> 0]]
    /\ day = 1

-----------------------------------------------------------------------------
(* Issuers.                                                                *)

TierForStake(stake) ==
    IF stake >= stakeReqs.institutional THEN "Institutional"
    ELSE IF stake >= stakeReqs.provider THEN "KYCProvider" ELSE "Community"

Staked(a, v) == [issuers[a] EXCEPT !.stake = @ + v, !.active = TRUE,
                                   !.tier = TierForStake(issuers[a].stake + v)]

StakeAndRegister(a, v, uri) ==
    /\ ledger[a].paid + v <= MaxStake
    /\ unstakeRequestedAt' = [unstakeRequestedAt EXCEPT ![a] = 0]
    /\ balance' = balance + v
    /\ ledger' = [ledger EXCEPT ![a].paid = @ + v]
    /\ \/ /\ a \in registered
          /\ issuers' = [issuers EXCEPT ![a] = Staked(a, v)]
          /\ UNCHANGED issuerList
       \/ /\ a \notin registered
          /\ issuers' = [issuers EXCEPT ![a] = [Staked(a, v) EXCEPT !.metadataURI = uri]]
          /\ issuerList' = Append(issuerList, a)
    /\ UNCHANGED <<roleVars, pendingTreasuryWithdrawals, day>>

\* The issuer is frozen from the request on; a request renewed restarts the wait.
RequestUnstake(a) ==
    /\ issuers[a].stake # 0
    /\ issuers' = [issuers EXCEPT ![a].active = FALSE]
    /\ unstakeRequestedAt' = [unstakeRequestedAt EXCEPT ![a] = day]
    /\ UNCHANGED <<issuerList, roleVars, pendingTreasuryWithdrawals, balance, ledger, day>>

WithdrawStake(a) ==
    /\ unstakeRequestedAt[a] # 0
    /\ day >= unstakeRequestedAt[a] + Cooldown
    /\ issuers[a].stake # 0
    /\ issuers' = [issuers EXCEPT ![a].stake = 0, ![a].tier = "None", ![a].active = FALSE]
    /\ unstakeRequestedAt' = [unstakeRequestedAt EXCEPT ![a] = 0]
    /\ balance' = balance - issuers[a].stake
    /\ ledger' = [ledger EXCEPT ![a].returned = @ + issuers[a].stake]
    /\ UNCHANGED <<issuerList, roleVars, pendingTreasuryWithdrawals, day>>

SetMetadataURI(a, uri) ==
    /\ issuers[a].active
    /\ issuers' = [issuers EXCEPT ![a].metadataURI = uri]
    /\ UNCHANGED <<issuerList, unstakeRequestedAt, roleVars,
                   pendingTreasuryWithdrawals, balance, ledger, day>>

-----------------------------------------------------------------------------
(* The reporter, governance and the treasury.                              *)

\* A report about an inactive account is ignored without reverting.
Report(a, counter) ==
    /\ issuers[a].active
    /\ issuers[a][counter] < MaxReports
    /\ issuers' = [issuers EXCEPT ![a][counter] = @ + 1]
    /\ UNCHANGED <<issuerList, unstakeRequestedAt, roleVars,
                   pendingTreasuryWithdrawals, balance, ledger, day>>

Slashed(a, v) == IF v > issuers[a].stake THEN issuers[a].stake ELSE v

\* Mutant: a slash that takes the amount asked for instead of what is there.
SlashWhole(caller, a, v) ==
    /\ caller = slashingAuthority
    /\ issuers[a].stake # 0
    /\ issuers' = [issuers EXCEPT ![a].stake = @ - Slashed(a, v),
                                  ![a].slashedAmount = @ + v,
                                  ![a].tier = TierForStake(issuers[a].stake - Slashed(a, v))]
    /\ unstakeRequestedAt' = [unstakeRequestedAt EXCEPT ![a] = 0]
    /\ pendingTreasuryWithdrawals' = pendingTreasuryWithdrawals + v
    /\ ledger' = [ledger EXCEPT ![a].slashedOn = day]
    /\ UNCHANGED <<issuerList, roleVars, balance, day>>

\* Mutant: a slash that leaves the exit it should have ended.
SlashKeepsExit(caller, a, v) ==
    /\ caller = slashingAuthority
    /\ issuers[a].stake # 0
    /\ issuers' = [issuers EXCEPT ![a].stake = @ - Slashed(a, v),
                                  ![a].slashedAmount = @ + Slashed(a, v),
                                  ![a].tier = TierForStake(issuers[a].stake - Slashed(a, v)),
                                  ![a].active = @ /\ issuers[a].stake - Slashed(a, v) > stakeReqs.community]
    /\ pendingTreasuryWithdrawals' = pendingTreasuryWithdrawals + Slashed(a, v)
    /\ ledger' = [ledger EXCEPT ![a].slashedOn = day]
    /\ UNCHANGED <<issuerList, unstakeRequestedAt, roleVars, balance, day>>

\* Also ends a pending exit, whatever the amount.
Slash(caller, a, v) ==
    LET s == Slashed(a, v)
        left == issuers[a].stake - s
    IN /\ caller = slashingAuthority
       /\ issuers[a].stake # 0
       /\ issuers' = [issuers EXCEPT
                        ![a].stake = left, ![a].slashedAmount = @ + s,
                        ![a].tier = TierForStake(left),
                        ![a].active = @ /\ left > stakeReqs.community]
       /\ unstakeRequestedAt' = [unstakeRequestedAt EXCEPT ![a] = 0]
       /\ pendingTreasuryWithdrawals' = pendingTreasuryWithdrawals + s
       /\ ledger' = [ledger EXCEPT ![a].slashedOn = day]
       /\ UNCHANGED <<issuerList, roleVars, balance, day>>

\* Called by anyone.
WithdrawTreasury ==
    /\ pendingTreasuryWithdrawals # 0
    /\ pendingTreasuryWithdrawals' = 0
    /\ balance' = balance - pendingTreasuryWithdrawals
    /\ UNCHANGED <<issuers, issuerList, unstakeRequestedAt, roleVars, ledger, day>>

\* The tiers of the accounts are not recomputed.
SetStakeRequirements(caller, r) ==
    /\ caller = owner
    /\ stakeReqs' = r
    /\ UNCHANGED <<issuers, issuerList, unstakeRequestedAt, owner, slashingAuthority,
                   reporter, pendingTreasuryWithdrawals, balance, ledger, day>>

SetSlashingAuthority(caller, x) ==
    /\ caller = owner
    /\ slashingAuthority' = x
    /\ UNCHANGED <<issuers, issuerList, unstakeRequestedAt, stakeReqs, owner,
                   reporter, pendingTreasuryWithdrawals, balance, ledger, day>>

SetReporter(caller, x) ==
    /\ caller = owner
    /\ reporter' = x
    /\ UNCHANGED <<issuers, issuerList, unstakeRequestedAt, stakeReqs, owner,
                   slashingAuthority, pendingTreasuryWithdrawals, balance, ledger, day>>

\* One step: the new owner need not accept.
TransferOwnership(caller, x) ==
    /\ caller = owner
    /\ owner' = x
    /\ UNCHANGED <<issuers, issuerList, unstakeRequestedAt, stakeReqs, slashingAuthority,
                   reporter, pendingTreasuryWithdrawals, balance, ledger, day>>

NextDay ==
    /\ day < MaxDay
    /\ day' = day + 1
    /\ UNCHANGED <<issuers, issuerList, unstakeRequestedAt, roleVars,
                   pendingTreasuryWithdrawals, balance, ledger>>

RegistryNext ==
    \/ \E a \in Issuers, v \in Amounts, uri \in URIs : StakeAndRegister(a, v, uri)
    \/ \E a \in Issuers : RequestUnstake(a)
    \/ \E a \in Issuers : WithdrawStake(a)
    \/ \E a \in Issuers, uri \in URIs : SetMetadataURI(a, uri)
    \/ \E a \in Issuers, k \in {"totalIssued", "totalRevoked"} : Report(a, k)
    \/ \E a \in Issuers, v \in Amounts : Slash(slashingAuthority, a, v)
    \/ WithdrawTreasury
    \/ \E r \in OtherReqs : SetStakeRequirements(owner, r)
    \/ \E x \in Governors : SetSlashingAuthority(owner, x)
    \/ \E x \in Governors : SetReporter(owner, x)
    \/ \E x \in Governors : TransferOwnership(owner, x)
    \/ NextDay

RegistrySpec == RegistryInit /\ [][RegistryNext]_registryVars

-----------------------------------------------------------------------------
(* What the first n accounts of the list have at stake together.           *)
StakeOfFirst[n \in 0..Len(issuerList)] ==
    IF n = 0 THEN 0 ELSE StakeOfFirst[n - 1] + issuers[issuerList[n]].stake

(* The HSK the contract holds is exactly what it owes: the stakes of the   *)
(* accounts and what the treasury has not collected, through any order of  *)
(* deposits, exits, slashes above the stake and treasury withdrawals.      *)
Solvent == balance = StakeOfFirst[Len(issuerList)] + pendingTreasuryWithdrawals

(* What an account paid in is what it still has at stake, what it got back *)
(* and what was slashed: an exit and a slash that race take it only once.  *)
LedgerBalanced ==
    \A a \in Issuers : ledger[a].paid = issuers[a].stake + ledger[a].returned
                                        + issuers[a].slashedAmount

(* An account with a matured or pending exit neither operates nor is       *)
(* without stake: a deposit or a slash in between ended the exit.          *)
ArmedIsFrozen ==
    \A a \in Issuers : unstakeRequestedAt[a] # 0 => ~issuers[a].active /\ issuers[a].stake # 0

(* No account gets stake back within a cooldown of a slash, also when its  *)
(* exit was about to mature: a slash makes it ask and wait again.          *)
SlashRestartsExit ==
    [][\A a \in Issuers : ledger'[a].returned > ledger[a].returned
                           => day >= ledger[a].slashedOn + Cooldown]_registryVars

(* An account appears once in the list the directory reads, and every      *)
(* account that holds stake or is active appears.                          *)
ListedOnce ==
    /\ \A i, j \in DOMAIN issuerList : issuerList[i] = issuerList[j] => i = j
    /\ \A a \in Issuers : issuers[a] # NoIssuer => a \in registered

(* The books of the registry at any moment.                                *)
RegistryInv == RegistryTypeOK /\ Solvent /\ LedgerBalanced /\ ArmedIsFrozen /\ ListedOnce
=============================================================================
