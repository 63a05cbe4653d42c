--------------------------- MODULE MCHSKPassport ---------------------------
(***************************************************************************)
(* Small instances of HSKPassport for TLC.  The run asks three questions,  *)
(* each about a part of the inputs: `about' is chosen once, and Within     *)
(* bounds what the chosen part may do, so that the state spaces add up     *)
(* instead of multiplying.  Next itself is left as it is.                  *)
(***************************************************************************)
EXTENDS HSKPassport, TLC

CONSTANTS Issuer, Helper,  \* a second issuer, and the delegate
          Questions        \* the questions of the run

CommitmentSymmetry == Permutations(Commitments)

VARIABLE about

Credentials == {<<g, c>> \in GroupIds \X Commitments : credentialIssuedAt[g][c] # 0}
Used == {gc[2] : gc \in Credentials}
EpochsUpTo(n) == \A a \in Accounts : issuerEpoch[a] <= n
LeavesUpTo(n) == \A g \in GroupIds : Len(leaves[g]) <= n
Delegates == {d \in Accounts : \E g \in GroupIds : groupDelegates[g][d]}
NoneSpent == \A g \in GroupIds : nullifiers[g] = {}
NoValidity == \A g \in GroupIds : credentialGroups[g].validityPeriod = 0

(* Issuance, batches, revocation, re-issue, proofs and time, by the issuer *)
(* that deployed the contract.                                             *)
CredentialsOnly ==
    /\ owner = Deployer /\ pendingOwner = NoAccount /\ pauser = Deployer
    /\ ~paused /\ \A a \in Accounts : ~issuerPaused[a]
    /\ \A a \in Accounts : approvedIssuers[a] = (a = Deployer)
    /\ EpochsUpTo(0) /\ Delegates = {} /\ NoValidity
    /\ groupCounter <= 1

(* Issuers, delegates, epochs and pauses: two groups of one credential. *)
AuthorityOnly ==
    /\ owner = Deployer /\ pendingOwner = NoAccount /\ pauser = Deployer
    /\ Cardinality(Used) <= 1 /\ LeavesUpTo(1) /\ now = 1 /\ NoValidity
    /\ issuerEpoch[Deployer] + issuerEpoch[Issuer] <= 2
    /\ Delegates \subseteq {Helper} /\ NoneSpent

(* Hand-over of the ownership, changes of the pauser, pauses, expiry and   *)
(* revocation, in one group of one credential.                             *)
GovernanceOnly ==
    /\ Cardinality(Used) <= 1 /\ LeavesUpTo(1) /\ now <= 2
    /\ groupCounter <= 1 /\ EpochsUpTo(1)
    /\ \A a \in {Deployer, Helper} :
          approvedIssuers[a] = (a = Deployer) /\ ~issuerPaused[a] /\ issuerEpoch[a] = 0
    /\ Delegates \subseteq {Deployer} /\ NoneSpent

Within == CASE about = "credentials" -> CredentialsOnly
            [] about = "authority" -> AuthorityOnly
            [] about = "governance" -> GovernanceOnly
            [] OTHER -> TRUE

MCInit == Init /\ about \in Questions

MCNext == Next /\ UNCHANGED about /\ Within'

MCSpec == MCInit /\ [][MCNext]_<<vars, about>>
=============================================================================
