---------------------------- MODULE HSKPassport ----------------------------
(***************************************************************************)
(* contracts/contracts/HSKPassport.sol: the credential contract.           *)
(*                                                                         *)
(* One action per external function that changes state.  `sender' is       *)
(* msg.sender; a failed require is a disabled action, since a revert undoes *)
(* the whole transaction.  View functions are operators, FALSE where the   *)
(* Solidity function reverts.                                              *)
(***************************************************************************)
EXTENDS Semaphore

CONSTANTS Accounts,         \* addresses that send transactions
          NoAccount,        \* address(0)
          Deployer,         \* the constructor's msg.sender
          ValidityPeriods,  \* values passed to setValidityPeriod
          OwnerCandidates,  \* values passed to transferOwnership and setPauser
          IssuerCandidates, \* values passed to approveIssuer, revokeIssuer, (un)pauseIssuer
          DelegateCandidates, \* values passed to approveDelegate, revokeDelegate
          MaxBatch,         \* bound: longest batchIssueCredentials array
          MaxEpoch          \* bound: revokeIssuer calls per issuer

ASSUME PassportAssumption ==
    /\ NoAccount \notin Accounts
    /\ Deployer \in Accounts
    /\ OwnerCandidates \subseteq Accounts \cup {NoAccount}
    /\ IssuerCandidates \subseteq Accounts
    /\ DelegateCandidates \subseteq Accounts
    /\ ValidityPeriods \subseteq Nat
    /\ MaxBatch \in Nat
    /\ MaxEpoch \in Nat

VARIABLES owner, pendingOwner, pauser,
          paused, issuerPaused,
          approvedIssuers, issuerEpoch,
          credentialGroups,
          groupDelegates, groupDelegateEpoch,
          credentials, credentialIssuedAt,
          revokedAt         \* timestamp of the latest CredentialRevoked event (0 = none)

roleVars == <<owner, pendingOwner, pauser>>
pauseVars == <<paused, issuerPaused>>
issuerVars == <<approvedIssuers, issuerEpoch>>
delegateVars == <<groupDelegates, groupDelegateEpoch>>
credentialVars == <<credentials, credentialIssuedAt, revokedAt>>
vars == <<semaphoreVars, roleVars, pauseVars, issuerVars, credentialGroups,
          delegateVars, credentialVars>>

CredentialGroup == [issuer : Accounts \cup {NoAccount}, memberCount : Nat,
                    active : BOOLEAN, validityPeriod : Nat]

TypeOK ==
    /\ SemaphoreTypeOK
    /\ owner \in Accounts
    /\ pendingOwner \in Accounts \cup {NoAccount}
    /\ pauser \in Accounts \cup {NoAccount}
    /\ paused \in BOOLEAN
    /\ issuerPaused \in [Accounts -> BOOLEAN]
    /\ approvedIssuers \in [Accounts -> BOOLEAN]
    /\ issuerEpoch \in [Accounts -> 0..MaxEpoch]
    /\ credentialGroups \in [GroupIds -> CredentialGroup]
    /\ groupDelegates \in [GroupIds -> [Accounts -> BOOLEAN]]
    /\ groupDelegateEpoch \in [GroupIds -> [Accounts -> 0..MaxEpoch]]
    /\ credentials \in [GroupIds -> [Commitments -> BOOLEAN]]
    /\ credentialIssuedAt \in [GroupIds -> [Commitments -> 0..MaxTime]]
    /\ revokedAt \in [GroupIds -> [Commitments -> 0..MaxTime]]

Init ==
    /\ SemaphoreInit
    /\ owner = Deployer
    /\ pendingOwner = NoAccount
    /\ pauser = Deployer
    /\ paused = FALSE
    /\ issuerPaused = [a \in Accounts |-> FALSE]
    /\ approvedIssuers = [a \in Accounts |-> a = Deployer]
    /\ issuerEpoch = [a \in Accounts |-> 0]
    /\ credentialGroups = [g \in GroupIds |->
           [issuer |-> NoAccount, memberCount |-> 0, active |-> FALSE, validityPeriod |-> 0]]
    /\ groupDelegates = [g \in GroupIds |-> [a \in Accounts |-> FALSE]]
    /\ groupDelegateEpoch = [g \in GroupIds |-> [a \in Accounts |-> 0]]
    /\ credentials = [g \in GroupIds |-> [c \in Commitments |-> FALSE]]
    /\ credentialIssuedAt = [g \in GroupIds |-> [c \in Commitments |-> 0]]
    /\ revokedAt = [g \in GroupIds |-> [c \in Commitments |-> 0]]

-----------------------------------------------------------------------------
(* Modifiers *)

IssuerOf(g) == credentialGroups[g].issuer

IssuerApproved(g) == IssuerOf(g) # NoAccount /\ approvedIssuers[IssuerOf(g)]

(* Mutant: a delegation outlives the revocation of the issuer that granted it. *)
DelegateWhateverTheEpoch(g, a) == groupDelegates[g][a]

CurrentDelegate(g, a) ==
    /\ groupDelegates[g][a]
    /\ groupDelegateEpoch[g][a] = issuerEpoch[IssuerOf(g)]

OnlyGroupIssuer(g, sender) == sender = IssuerOf(g) /\ approvedIssuers[sender]

(* Mutant: the group's issuer is not required to be still approved. *)
IssuerOrDelegateOnceApproved(g, sender) ==
    /\ IssuerOf(g) # NoAccount
    /\ sender = IssuerOf(g) \/ CurrentDelegate(g, sender)

OnlyGroupIssuerOrDelegate(g, sender) ==
    /\ IssuerApproved(g)
    /\ sender = IssuerOf(g) \/ CurrentDelegate(g, sender)

NotPaused(issuer) == ~paused /\ ~issuerPaused[issuer]

-----------------------------------------------------------------------------
(* Issuers and delegates *)

ApproveIssuer(sender, issuer) ==
    /\ sender = owner
    /\ approvedIssuers' = [approvedIssuers EXCEPT ![issuer] = TRUE]
    /\ UNCHANGED <<semaphoreVars, roleVars, pauseVars, issuerEpoch, credentialGroups,
                   delegateVars, credentialVars>>

(* Mutant: revoking an issuer leaves its epoch, and so its delegations, as they are. *)
RevokeIssuerKeepingTheEpoch(sender, issuer) ==
    /\ sender = owner
    /\ approvedIssuers' = [approvedIssuers EXCEPT ![issuer] = FALSE]
    /\ UNCHANGED <<semaphoreVars, roleVars, pauseVars, issuerEpoch, credentialGroups,
                   delegateVars, credentialVars>>

RevokeIssuer(sender, issuer) ==
    /\ sender = owner
    /\ issuerEpoch[issuer] < MaxEpoch
    /\ approvedIssuers' = [approvedIssuers EXCEPT ![issuer] = FALSE]
    /\ issuerEpoch' = [issuerEpoch EXCEPT ![issuer] = @ + 1]
    /\ UNCHANGED <<semaphoreVars, roleVars, pauseVars, credentialGroups, delegateVars,
                   credentialVars>>

ApproveDelegate(sender, g, delegate) ==
    /\ OnlyGroupIssuer(g, sender)
    /\ NotPaused(sender)
    /\ groupDelegates' = [groupDelegates EXCEPT ![g][delegate] = TRUE]
    /\ groupDelegateEpoch' = [groupDelegateEpoch EXCEPT ![g][delegate] = issuerEpoch[IssuerOf(g)]]
    /\ UNCHANGED <<semaphoreVars, roleVars, pauseVars, issuerVars, credentialGroups,
                   credentialVars>>

RevokeDelegate(sender, g, delegate) ==
    /\ sender \in {IssuerOf(g), owner}
    /\ groupDelegates' = [groupDelegates EXCEPT ![g][delegate] = FALSE]
    /\ groupDelegateEpoch' = [groupDelegateEpoch EXCEPT ![g][delegate] = 0]
    /\ UNCHANGED <<semaphoreVars, roleVars, pauseVars, issuerVars, credentialGroups,
                   credentialVars>>

-----------------------------------------------------------------------------
(* Groups *)

CreateCredentialGroup(sender) ==
    /\ approvedIssuers[sender]
    /\ NotPaused(sender)
    /\ CreateGroup
    /\ credentialGroups' = [credentialGroups EXCEPT ![groupCounter] =
           [issuer |-> sender, memberCount |-> 0, active |-> TRUE, validityPeriod |-> 0]]
    /\ UNCHANGED <<roleVars, pauseVars, issuerVars, delegateVars, credentialVars>>

SetValidityPeriod(sender, g, validity) ==
    /\ OnlyGroupIssuer(g, sender)
    /\ credentialGroups' = [credentialGroups EXCEPT ![g].validityPeriod = validity]
    /\ UNCHANGED <<semaphoreVars, roleVars, pauseVars, issuerVars, delegateVars,
                   credentialVars>>

DeactivateGroup(sender, g) ==
    /\ OnlyGroupIssuer(g, sender) \/ sender = owner
    /\ credentialGroups' = [credentialGroups EXCEPT ![g].active = FALSE]
    /\ UNCHANGED <<semaphoreVars, roleVars, pauseVars, issuerVars, delegateVars,
                   credentialVars>>

-----------------------------------------------------------------------------
(* Credentials *)

(* Mutant: a batch counts as one member. *)
IssueCountingOne(g, batch) ==
    /\ AddMembers(g, batch)
    /\ credentials' = [credentials EXCEPT ![g] =
           [c \in Commitments |-> @[c] \/ c \in LeavesOf(batch)]]
    /\ credentialIssuedAt' = [credentialIssuedAt EXCEPT ![g] =
           [c \in Commitments |-> IF c \in LeavesOf(batch) THEN now ELSE @[c]]]
    /\ credentialGroups' = [credentialGroups EXCEPT ![g].memberCount = @ + 1]
    /\ UNCHANGED <<roleVars, pauseVars, issuerVars, delegateVars, revokedAt>>

(* The body issueCredential and batchIssueCredentials share. *)
Issue(g, batch) ==
    /\ AddMembers(g, batch)
    /\ credentials' = [credentials EXCEPT ![g] =
           [c \in Commitments |-> @[c] \/ c \in LeavesOf(batch)]]
    /\ credentialIssuedAt' = [credentialIssuedAt EXCEPT ![g] =
           [c \in Commitments |-> IF c \in LeavesOf(batch) THEN now ELSE @[c]]]
    /\ credentialGroups' = [credentialGroups EXCEPT ![g].memberCount = @ + Len(batch)]
    /\ UNCHANGED <<roleVars, pauseVars, issuerVars, delegateVars, revokedAt>>

IssueCredential(sender, g, c) ==
    /\ OnlyGroupIssuerOrDelegate(g, sender)
    /\ NotPaused(IssuerOf(g))
    /\ credentialGroups[g].active
    /\ ~credentials[g][c]
    /\ Issue(g, <<c>>)

(* Mutant: the batch path forgets that the group may be deactivated. *)
BatchIssueWhateverTheStatus(sender, g, batch) ==
    /\ OnlyGroupIssuerOrDelegate(g, sender)
    /\ NotPaused(IssuerOf(g))
    /\ NoRepeats(batch)
    /\ \A c \in LeavesOf(batch) : ~credentials[g][c]
    /\ Issue(g, batch)

BatchIssueCredentials(sender, g, batch) ==
    /\ OnlyGroupIssuerOrDelegate(g, sender)
    /\ NotPaused(IssuerOf(g))
    /\ credentialGroups[g].active
    /\ NoRepeats(batch)
    /\ \A c \in LeavesOf(batch) : ~credentials[g][c]
    /\ Issue(g, batch)

(* Mutant: the flag is cleared and the event emitted, the leaf stays in the tree. *)
RevokeLeavingTheLeaf(sender, g, c) ==
    /\ sender = owner \/ OnlyGroupIssuerOrDelegate(g, sender)
    /\ credentials[g][c]
    /\ credentials' = [credentials EXCEPT ![g][c] = FALSE]
    /\ credentialGroups' = [credentialGroups EXCEPT ![g].memberCount = @ - 1]
    /\ revokedAt' = [revokedAt EXCEPT ![g][c] = now]
    /\ UNCHANGED <<semaphoreVars, roleVars, pauseVars, issuerVars, delegateVars,
                   credentialIssuedAt>>

(* Mutant: the leaf is removed, the flag stays set. *)
RevokeLeavingTheFlag(sender, g, c) ==
    /\ sender = owner \/ OnlyGroupIssuerOrDelegate(g, sender)
    /\ credentials[g][c]
    /\ RemoveMember(g, c)
    /\ credentialGroups' = [credentialGroups EXCEPT ![g].memberCount = @ - 1]
    /\ revokedAt' = [revokedAt EXCEPT ![g][c] = now]
    /\ UNCHANGED <<roleVars, pauseVars, issuerVars, delegateVars, credentials,
                   credentialIssuedAt>>

(* Mutant: revocation is blocked by a pause, like issuance. *)
RevokeWhenNotPaused(sender, g, c) ==
    /\ sender = owner \/ OnlyGroupIssuerOrDelegate(g, sender)
    /\ credentials[g][c]
    /\ NotPaused(IssuerOf(g))
    /\ RemoveMember(g, c)
    /\ credentials' = [credentials EXCEPT ![g][c] = FALSE]
    /\ credentialGroups' = [credentialGroups EXCEPT ![g].memberCount = @ - 1]
    /\ revokedAt' = [revokedAt EXCEPT ![g][c] = now]
    /\ UNCHANGED <<roleVars, pauseVars, issuerVars, delegateVars, credentialIssuedAt>>

(* Not blocked by a pause or by deactivation; the timestamp of issuance is kept. *)
RevokeCredential(sender, g, c) ==
    /\ sender = owner \/ OnlyGroupIssuerOrDelegate(g, sender)
    /\ credentials[g][c]
    /\ RemoveMember(g, c)
    /\ credentials' = [credentials EXCEPT ![g][c] = FALSE]
    /\ credentialGroups' = [credentialGroups EXCEPT ![g].memberCount = @ - 1]
    /\ revokedAt' = [revokedAt EXCEPT ![g][c] = now]
    /\ UNCHANGED <<roleVars, pauseVars, issuerVars, delegateVars, credentialIssuedAt>>

VerifyCredential(g, p) == credentialGroups[g].active /\ VerifyProof(g, p)

IsCredentialExpired(g, c) ==
    LET validity == credentialGroups[g].validityPeriod
    IN  /\ validity # 0
        /\ credentialIssuedAt[g][c] # 0
        /\ now > credentialIssuedAt[g][c] + validity

VerifyCredentialWithExpiry(g, p, earliestAcceptableIssuance) ==
    LET validity == credentialGroups[g].validityPeriod
    IN  /\ credentialGroups[g].active
        /\ validity = 0 \/ now <= earliestAcceptableIssuance + validity
        /\ VerifyProof(g, p)

ValidateCredential(g, p) ==
    /\ credentialGroups[g].active
    /\ ValidateProof(g, p)
    /\ UNCHANGED <<roleVars, pauseVars, issuerVars, credentialGroups, delegateVars,
                   credentialVars>>

-----------------------------------------------------------------------------
(* Ownership and pause *)

TransferOwnership(sender, newOwner) ==
    /\ sender = owner
    /\ pendingOwner' = newOwner
    /\ UNCHANGED <<owner, pauser, semaphoreVars, pauseVars, issuerVars, credentialGroups,
                   delegateVars, credentialVars>>

AcceptOwnership(sender) ==
    /\ sender = pendingOwner
    /\ owner' = pendingOwner
    /\ pendingOwner' = NoAccount
    /\ UNCHANGED <<pauser, semaphoreVars, pauseVars, issuerVars, credentialGroups,
                   delegateVars, credentialVars>>

SetPauser(sender, newPauser) ==
    /\ sender = owner
    /\ pauser' = newPauser
    /\ UNCHANGED <<owner, pendingOwner, semaphoreVars, pauseVars, issuerVars,
                   credentialGroups, delegateVars, credentialVars>>

Pause(sender) ==
    /\ sender = pauser
    /\ ~paused
    /\ paused' = TRUE
    /\ UNCHANGED <<issuerPaused, semaphoreVars, roleVars, issuerVars, credentialGroups,
                   delegateVars, credentialVars>>

Unpause(sender) ==
    /\ sender = owner
    /\ paused
    /\ paused' = FALSE
    /\ UNCHANGED <<issuerPaused, semaphoreVars, roleVars, issuerVars, credentialGroups,
                   delegateVars, credentialVars>>

PauseIssuer(sender, issuer) ==
    /\ sender = pauser
    /\ ~issuerPaused[issuer]
    /\ issuerPaused' = [issuerPaused EXCEPT ![issuer] = TRUE]
    /\ UNCHANGED <<paused, semaphoreVars, roleVars, issuerVars, credentialGroups,
                   delegateVars, credentialVars>>

UnpauseIssuer(sender, issuer) ==
    /\ sender = owner
    /\ issuerPaused[issuer]
    /\ issuerPaused' = [issuerPaused EXCEPT ![issuer] = FALSE]
    /\ UNCHANGED <<paused, semaphoreVars, roleVars, issuerVars, credentialGroups,
                   delegateVars, credentialVars>>

-----------------------------------------------------------------------------
Tick ==
    /\ now < MaxTime
    /\ now' = now + 1
    /\ UNCHANGED <<groupCounter, leaves, rootDates, nullifiers, roleVars, pauseVars,
                   issuerVars, credentialGroups, delegateVars, credentialVars>>

Batches == UNION {[1..n -> Commitments] : n \in 1..MaxBatch}

IssuerStep(sender) ==
    \/ \E i \in IssuerCandidates : ApproveIssuer(sender, i)
    \/ \E i \in IssuerCandidates : RevokeIssuer(sender, i)
    \/ \E g \in GroupIds, d \in DelegateCandidates : ApproveDelegate(sender, g, d)
    \/ \E g \in GroupIds, d \in DelegateCandidates : RevokeDelegate(sender, g, d)

GroupStep(sender) ==
    \/ CreateCredentialGroup(sender)
    \/ \E g \in GroupIds, v \in ValidityPeriods : SetValidityPeriod(sender, g, v)
    \/ \E g \in GroupIds : DeactivateGroup(sender, g)

CredentialStep(sender) ==
    \/ \E g \in GroupIds, c \in Commitments : IssueCredential(sender, g, c)
    \/ \E g \in GroupIds, b \in Batches : BatchIssueCredentials(sender, g, b)
    \/ \E g \in GroupIds, c \in Commitments : RevokeCredential(sender, g, c)

RoleStep(sender) ==
    \/ \E a \in OwnerCandidates : TransferOwnership(sender, a)
    \/ AcceptOwnership(sender)
    \/ \E a \in OwnerCandidates : SetPauser(sender, a)
    \/ Pause(sender)
    \/ Unpause(sender)
    \/ \E i \in IssuerCandidates : PauseIssuer(sender, i)
    \/ \E i \in IssuerCandidates : UnpauseIssuer(sender, i)

Next ==
    \/ Tick
    \/ \E sender \in Accounts :
          IssuerStep(sender) \/ GroupStep(sender) \/ CredentialStep(sender) \/ RoleStep(sender)
    \/ \E g \in GroupIds : \E p \in BuildableProofs(g) : ValidateCredential(g, p)

Spec == Init /\ [][Next]_vars

-----------------------------------------------------------------------------
(* Properties *)

(* The memberCount a group reports (the anonymity-set size AnonymitySetGate  *)
(* compares with its floor) is the number of non-zero leaves of its tree,    *)
(* through single and batch issuance, revocation and re-issue.               *)
MemberCountAccurate ==
    \A g \in GroupIds : credentialGroups[g].memberCount = Cardinality(Members(g))

(* A commitment whose credential stands can be proved: the proof built       *)
(* against the current root of its active group is accepted by               *)
(* verifyCredential, however the tree was rewritten by revocations around it. *)
HolderCanProve ==
    \A g \in GroupIds, c \in Commitments, s \in Scopes :
        credentials[g][c] /\ credentialGroups[g].active =>
            VerifyCredential(g, [root |-> leaves[g], identity |-> c, scope |-> s])

(* Revocation bites within merkleTreeDuration: once that long has passed     *)
(* since the CredentialRevoked event, no proof for the commitment, against   *)
(* any root the group ever had, passes verifyCredential again (until the     *)
(* credential is issued anew).                                               *)
RevocationWindow ==
    \A g \in GroupIds : \A p \in BuildableProofs(g) :
        VerifyCredential(g, p) /\ ~credentials[g][p.identity] =>
            now <= revokedAt[g][p.identity] + MerkleTreeDuration

(* Re-issuing a revoked credential restarts its clock: a standing credential *)
(* was issued no earlier than its last revocation, and a revoked one was     *)
(* revoked no earlier than its last issuance.                                *)
ClockRestarts ==
    \A g \in GroupIds, c \in Commitments :
        /\ credentials[g][c] => credentialIssuedAt[g][c] >= revokedAt[g][c]
        /\ ~credentials[g][c] => revokedAt[g][c] >= credentialIssuedAt[g][c]

(* Issuance is halted by a global pause, a pause of the group's issuer, the  *)
(* issuer's revocation and the group's deactivation, whoever calls (issuer   *)
(* or delegate, single or batch): the tree of such a group only ever shrinks. *)
IssuanceHalts ==
    [][\A g \in GroupIds :
          (\/ paused
           \/ ~credentialGroups[g].active
           \/ ~IssuerApproved(g)
           \/ issuerPaused[IssuerOf(g)])
          => Members(g)' \subseteq Members(g)]_vars

(* A pause, a deactivation, the removal of the issuer: none of them stops the *)
(* owner from revoking a standing credential (the "does NOT block revocation" *)
(* of pause(), HSKPassport.sol:435); the tree must still hold its leaf.       *)
RevocationNeverBlocked ==
    \A g \in GroupIds, c \in Commitments :
        credentials[g][c] => ENABLED RevokeCredential(owner, g, c)

(* Deactivation is final: an inactive group that was created never becomes   *)
(* active again, never gains a member and never consumes another nullifier.  *)
DeactivationFinal ==
    [][\A g \in GroupIds :
          g < groupCounter /\ ~credentialGroups[g].active =>
             /\ ~credentialGroups[g].active'
             /\ Members(g)' \subseteq Members(g)
             /\ nullifiers'[g] = nullifiers[g]]_vars

(* The abstract state of CredentialAuthority, read through the contract's own *)
(* modifiers and views.                                                      *)
GroupIssuers == [g \in GroupIds |-> IssuerOf(g)]
Authorised == {ga \in GroupIds \X Accounts : OnlyGroupIssuerOrDelegate(ga[1], ga[2])}
OpenGroups == {g \in GroupIds : credentialGroups[g].active}
Holders == [g \in GroupIds |-> {c \in Commitments : credentials[g][c]}]

Authority == INSTANCE CredentialAuthority WITH
    Nobody <- NoAccount, issuer <- GroupIssuers, authorised <- Authorised,
    open <- OpenGroups, holders <- Holders

(* The epoch counters implement "revoking an issuer wipes its delegations":   *)
(* the accounts that may issue into a group evolve as CredentialAuthority     *)
(* says, and so do the groups that are open and the credentials that stand.   *)
AuthoritySpec == Authority!Spec

-----------------------------------------------------------------------------
(* The inductive invariant behind the theorems of HSKPassportProofs *)

(* The flag and the tree agree; leaves are distinct; the count is theirs. *)
GroupAgrees(g) ==
    /\ \A c \in Commitments : credentials[g][c] <=> c \in LeavesOf(leaves[g])
    /\ \A i, j \in DOMAIN leaves[g] :
          leaves[g][i] = leaves[g][j] /\ leaves[g][i] # ZeroLeaf => i = j
    /\ credentialGroups[g].memberCount = Cardinality({c \in Commitments : credentials[g][c]})
    /\ leaves[g] # << >> => \E r \in rootDates[g] : r.root = leaves[g]

TreeAgrees == \A g \in GroupIds : GroupAgrees(g)

(* A root that still contains a revoked commitment predates its revocation. *)
RootsPredateRevocation ==
    \A g \in GroupIds : \A r \in rootDates[g] :
        /\ r.at <= now
        /\ \A c \in Commitments :
              c \in LeavesOf(r.root) /\ ~credentials[g][c] => r.at <= revokedAt[g][c]

ClocksInThePast ==
    \A g \in GroupIds, c \in Commitments :
        /\ credentialIssuedAt[g][c] <= now
        /\ revokedAt[g][c] <= now

(* Delegations exist only in created groups; no stored epoch is ahead of the *)
(* issuer's, and an issuer that is not approved has outdated all of them.    *)
EpochsBehind ==
    \A g \in GroupIds :
        /\ IssuerOf(g) = NoAccount <=> g >= groupCounter
        /\ g >= groupCounter => \A c \in Commitments : ~credentials[g][c]
        /\ g >= groupCounter => ~credentialGroups[g].active
        /\ \A a \in Accounts : groupDelegates[g][a] =>
              /\ IssuerOf(g) # NoAccount
              /\ groupDelegateEpoch[g][a] <= issuerEpoch[IssuerOf(g)]
              /\ approvedIssuers[IssuerOf(g)] \/ groupDelegateEpoch[g][a] < issuerEpoch[IssuerOf(g)]

IndInv ==
    /\ TypeOK
    /\ TreeAgrees
    /\ RootsPredateRevocation
    /\ ClocksInThePast
    /\ ClockRestarts
    /\ EpochsBehind

-----------------------------------------------------------------------------
(* What the repository says and the code does not do *)

(* HSKPassport.sol:346-348: "if any credential currently on-chain could have *)
(* expired, the group enters a stale window and this call reverts".          *)
ExpiryFailsClosed ==
    \A g \in GroupIds : \A p \in BuildableProofs(g) : \A earliest \in 0..MaxTime :
        VerifyCredentialWithExpiry(g, p, earliest) =>
            \A c \in Commitments : credentials[g][c] => ~IsCredentialExpired(g, c)
=============================================================================
