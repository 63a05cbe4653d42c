----------------------- MODULE HSKPassportFreshness -----------------------
(***************************************************************************)
(* contracts/contracts/freshness/HSKPassportFreshness.sol on top of        *)
(* FreshnessRegistry: a freshness proof is accepted when its root is in    *)
(* the registry's window, its nullifier is unused and the circuit          *)
(* (circuits/src/credential_freshness.circom) is satisfied.                *)
(***************************************************************************)
EXTENDS FreshnessRegistry

CONSTANTS Secrets,     \* identity secrets of provers
          Scopes,      \* per-dApp nullifier scopes
          Times,       \* issuance times and thresholds
          LeavesUnder  \* LeavesUnder[r]: the <<secret, issuanceTime>> leaves of the tree with root r

ASSUME FreshnessAssumption ==
    /\ Times \subseteq Nat
    /\ LeavesUnder \in [Roots -> SUBSET (Secrets \X Times)]

VARIABLES nullifierConsumed, \* the <<scope, nullifier>> pairs used
          verified           \* FreshnessProofVerified events, with the prover's secret

freshnessVars == <<nullifierConsumed, verified>>
vars == <<registryVars, freshnessVars>>

Proofs == [secret : Secrets, root : Roots, earliest : Times, scope : Scopes]

(* Poseidon(secret, scope), collision free. *)
Nullifier(p) == <<p.secret, p.scope>>

TypeOK ==
    /\ RegistryTypeOK
    /\ nullifierConsumed \subseteq Scopes \X (Secrets \X Scopes)
    /\ verified \subseteq (Groups \X Proofs)

Init ==
    /\ RegistryInit
    /\ nullifierConsumed = {}
    /\ verified = {}

(* The circuit: a leaf of the secret with a recent enough issuance time is   *)
(* under the root.                                                           *)
Satisfies(p) ==
    \E t \in Times : <<p.secret, t>> \in LeavesUnder[p.root] /\ t >= p.earliest

(* Mutant: a root of any group will do. *)
PreviewWithRootOfAnyGroup(g, p) ==
    /\ \E h \in Groups : IsKnownRoot(h, p.root)
    /\ <<p.scope, Nullifier(p)>> \notin nullifierConsumed
    /\ Satisfies(p)

(* Mutant: the preview that dApps call does not look at the nullifier. *)
PreviewIgnoringNullifiers(g, p) ==
    /\ IsKnownRoot(g, p.root)
    /\ Satisfies(p)

PreviewVerifyFresh(g, p) ==
    /\ IsKnownRoot(g, p.root)
    /\ <<p.scope, Nullifier(p)>> \notin nullifierConsumed
    /\ Satisfies(p)

VerifyFresh(g, p) ==
    /\ PreviewVerifyFresh(g, p)
    /\ nullifierConsumed' = nullifierConsumed \cup {<<p.scope, Nullifier(p)>>}
    /\ verified' = verified \cup {<<g, p>>}
    /\ UNCHANGED registryVars

Next ==
    \/ RegistryNext /\ UNCHANGED freshnessVars
    \/ \E g \in Groups, p \in Proofs : VerifyFresh(g, p)

Spec == Init /\ [][Next]_vars

-----------------------------------------------------------------------------
(* Properties *)

(* Whatever the groups, roots and thresholds of its proofs, one secret is    *)
(* accepted once per scope.                                                  *)
OneProofPerScope ==
    \A e, f \in verified :
        e[2].secret = f[2].secret /\ e[2].scope = f[2].scope => e = f

(* Every accepted proof rests on a root that an issuer of that very group    *)
(* posted, and on a leaf of the prover under it that is fresh enough: no     *)
(* root crosses over from another group, evicted or not.                     *)
BackedByItsGroup ==
    \A e \in verified :
        \E k \in DOMAIN posted[e[1]] :
            /\ posted[e[1]][k] = e[2].root
            /\ \E t \in Times : <<e[2].secret, t>> \in LeavesUnder[e[2].root] /\ t >= e[2].earliest

(* The inductive invariant behind HSKPassportFreshnessProofs: a nullifier is *)
(* consumed exactly when an event used it.                                   *)
IndInv ==
    /\ TypeOK
    /\ RingInv
    /\ nullifierConsumed = {<<e[2].scope, Nullifier(e[2])>> : e \in verified}
    /\ OneProofPerScope
    /\ BackedByItsGroup
=============================================================================
