------------------------ MODULE CredentialAuthority ------------------------
(***************************************************************************)
(* What HSKPassport.sol promises about authority, without epochs, flags or *)
(* trees: who may issue into and revoke from each group at this moment,    *)
(* and who holds a credential.  Removing an issuer wipes the authority of  *)
(* everybody on its groups; approving it again restores the issuer alone,  *)
(* so a delegate from before the removal has to be approved anew.          *)
(***************************************************************************)
CONSTANTS Accounts, Commitments, GroupIds, Nobody

VARIABLES issuer,     \* issuer[g]: who created group g, Nobody if not created
          authorised, \* the <<group, account>> pairs that may issue and revoke now
          open,       \* groups that were created and not deactivated
          holders     \* holders[g]: commitments with a standing credential

vars == <<issuer, authorised, open, holders>>

GroupsOf(i) == {g \in GroupIds : issuer[g] = i}

Init ==
    /\ issuer = [g \in GroupIds |-> Nobody]
    /\ authorised = {}
    /\ open = {}
    /\ holders = [g \in GroupIds |-> {}]

(* The owner approves issuer i: its own authority returns, nobody else's does. *)
Approve(i) ==
    /\ authorised' = authorised \cup (GroupsOf(i) \X {i})
    /\ UNCHANGED <<issuer, open, holders>>

(* The owner revokes issuer i: every authority over its groups ends. *)
Dismiss(i) ==
    /\ authorised' = authorised \ (GroupsOf(i) \X Accounts)
    /\ UNCHANGED <<issuer, open, holders>>

Create(i, g) ==
    /\ issuer[g] = Nobody
    /\ issuer' = [issuer EXCEPT ![g] = i]
    /\ authorised' = authorised \cup {<<g, i>>}
    /\ open' = open \cup {g}
    /\ UNCHANGED holders

(* Only a group's own issuer, while it is approved, delegates. *)
Delegate(g, d) ==
    /\ <<g, issuer[g]>> \in authorised
    /\ authorised' = authorised \cup {<<g, d>>}
    /\ UNCHANGED <<issuer, open, holders>>

(* Ending a delegation never ends the issuer's own authority. *)
Undelegate(g, d) ==
    /\ issuer[g] # d
    /\ authorised' = authorised \ {<<g, d>>}
    /\ UNCHANGED <<issuer, open, holders>>

Close(g) ==
    /\ open' = open \ {g}
    /\ UNCHANGED <<issuer, authorised, holders>>

(* Somebody with authority over an open group issues to new holders. *)
Issue(g, new) ==
    /\ \E a \in Accounts : <<g, a>> \in authorised
    /\ g \in open
    /\ new # {}
    /\ new \cap holders[g] = {}
    /\ holders' = [holders EXCEPT ![g] = @ \cup new]
    /\ UNCHANGED <<issuer, authorised, open>>

(* One credential at a time ends. *)
Revoke(g, c) ==
    /\ c \in holders[g]
    /\ holders' = [holders EXCEPT ![g] = @ \ {c}]
    /\ UNCHANGED <<issuer, authorised, open>>

Next ==
    \/ \E i \in Accounts : Approve(i) \/ Dismiss(i)
    \/ \E i \in Accounts, g \in GroupIds : Create(i, g)
    \/ \E g \in GroupIds, d \in Accounts : Delegate(g, d) \/ Undelegate(g, d)
    \/ \E g \in GroupIds : Close(g)
    \/ \E g \in GroupIds, new \in SUBSET Commitments : Issue(g, new)
    \/ \E g \in GroupIds, c \in Commitments : Revoke(g, c)

Spec == Init /\ [][Next]_vars
=============================================================================
