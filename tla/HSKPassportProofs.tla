------------------------- MODULE HSKPassportProofs -------------------------
(***************************************************************************)
(* Proofs about HSKPassport, for every set of accounts, commitments and    *)
(* every value of the bounds.                                              *)
(***************************************************************************)
EXTENDS HSKPassport, FiniteSetTheorems, TLAPS

-----------------------------------------------------------------------------
(* Lemmas about the tree operators *)

(* A batch is a non-empty sequence of commitments. *)
LEMMA BatchType ==
    ASSUME NEW b \in Batches
    PROVE  b \in Seq(Commitments) /\ Len(b) \in Nat \ {0} /\ DOMAIN b = 1..Len(b)
  BY PassportAssumption DEF Batches

(* Appending a batch yields a sequence of leaves whose leaves are those of both. *)
LEMMA AppendLeaves ==
    ASSUME NEW s \in Roots, NEW b \in Seq(Commitments)
    PROVE  /\ s \o b \in Roots
           /\ LeavesOf(s \o b) = LeavesOf(s) \cup LeavesOf(b)
<1>1. s \in Seq(Commitments \cup {ZeroLeaf}) /\ b \in Seq(Commitments \cup {ZeroLeaf})
  BY DEF Roots
<1>2. s \o b \in Seq(Commitments \cup {ZeroLeaf})
  BY <1>1
<1>3. /\ Len(s \o b) = Len(s) + Len(b)
      /\ \A i \in 1..(Len(s) + Len(b)) :
            (s \o b)[i] = IF i <= Len(s) THEN s[i] ELSE b[i - Len(s)]
  BY <1>1
<1>4. /\ DOMAIN s = 1..Len(s) /\ DOMAIN b = 1..Len(b) /\ Len(s) \in Nat /\ Len(b) \in Nat
      /\ DOMAIN (s \o b) = 1..(Len(s) + Len(b))
  BY <1>1, <1>2, <1>3
<1>5. ASSUME NEW x \in LeavesOf(s \o b) PROVE x \in LeavesOf(s) \cup LeavesOf(b)
  <2>1. PICK i \in 1..(Len(s) + Len(b)) : x = (s \o b)[i]
    BY <1>5, <1>4 DEF LeavesOf
  <2>2. CASE i <= Len(s)
    BY <2>1, <2>2, <1>3, <1>4 DEF LeavesOf
  <2>3. CASE ~(i <= Len(s))
    <3>1. x = b[i - Len(s)] /\ i - Len(s) \in DOMAIN b
      BY <2>1, <2>3, <1>3, <1>4
    <3>2. QED
      BY <3>1 DEF LeavesOf
  <2>4. QED
    BY <2>2, <2>3
<1>6. ASSUME NEW x \in LeavesOf(s) PROVE x \in LeavesOf(s \o b)
  <2>1. PICK i \in DOMAIN s : x = s[i]
    BY <1>6 DEF LeavesOf
  <2>2. x = (s \o b)[i] /\ i \in DOMAIN (s \o b)
    BY <2>1, <1>3, <1>4
  <2>3. QED
    BY <2>2 DEF LeavesOf
<1>7. ASSUME NEW x \in LeavesOf(b) PROVE x \in LeavesOf(s \o b)
  <2>1. PICK i \in DOMAIN b : x = b[i]
    BY <1>7 DEF LeavesOf
  <2>2. i + Len(s) \in DOMAIN (s \o b) /\ (i + Len(s)) - Len(s) = i /\ ~(i + Len(s) <= Len(s))
    BY <2>1, <1>4
  <2>3. x = (s \o b)[i + Len(s)]
    BY <2>1, <2>2, <1>3, <1>4
  <2>4. QED
    BY <2>2, <2>3 DEF LeavesOf
<1>8. QED
  BY <1>2, <1>5, <1>6, <1>7 DEF Roots

(* Zeroing a leaf keeps the positions and removes exactly that commitment. *)
LEMMA ZeroedLeaves ==
    ASSUME NEW s \in Roots, NEW c \in Commitments
    PROVE  /\ Zeroed(s, c) \in Roots
           /\ DOMAIN Zeroed(s, c) = DOMAIN s
           /\ s # << >> => Zeroed(s, c) # << >>
           /\ \A i \in DOMAIN s : Zeroed(s, c)[i] = IF s[i] = c THEN ZeroLeaf ELSE s[i]
           /\ \A d \in Commitments : d \in LeavesOf(Zeroed(s, c)) <=> d \in LeavesOf(s) /\ d # c
<1>1. s \in Seq(Commitments \cup {ZeroLeaf})
  BY DEF Roots
<1>2. DOMAIN s = 1..Len(s) /\ Len(s) \in Nat
  BY <1>1
<1>3. Zeroed(s, c) \in [1..Len(s) -> Commitments \cup {ZeroLeaf}]
  BY <1>1, <1>2 DEF Zeroed
<1>4. Zeroed(s, c) \in Seq(Commitments \cup {ZeroLeaf})
  BY <1>2, <1>3
<1>5. DOMAIN Zeroed(s, c) = DOMAIN s
  BY <1>2, <1>3
<1>6. \A i \in DOMAIN s : Zeroed(s, c)[i] = IF s[i] = c THEN ZeroLeaf ELSE s[i]
  BY DEF Zeroed
<1>7. s # << >> => Zeroed(s, c) # << >>
  <2>1. s # << >> => Len(s) # 0
    BY <1>1
  <2>2. Len(Zeroed(s, c)) = Len(s)
    BY <1>2, <1>3, <1>4
  <2>3. QED
    BY <2>1, <2>2
<1>8. ASSUME NEW d \in Commitments
      PROVE  d \in LeavesOf(Zeroed(s, c)) <=> d \in LeavesOf(s) /\ d # c
  <2>1. ZeroLeaf # d
    BY SemaphoreAssumption
  <2>2. ASSUME d \in LeavesOf(Zeroed(s, c)) PROVE d \in LeavesOf(s) /\ d # c
    BY <2>1, <2>2, <1>5, <1>6 DEF LeavesOf
  <2>3. ASSUME d \in LeavesOf(s), d # c PROVE d \in LeavesOf(Zeroed(s, c))
    <3>1. PICK i \in DOMAIN s : s[i] = d
      BY <2>3 DEF LeavesOf
    <3>2. Zeroed(s, c)[i] = d /\ i \in DOMAIN Zeroed(s, c)
      BY <3>1, <2>3, <1>5, <1>6
    <3>3. QED
      BY <3>2 DEF LeavesOf
  <2>4. QED
    BY <2>2, <2>3
<1>9. QED
  BY <1>4, <1>5, <1>6, <1>7, <1>8 DEF Roots

-----------------------------------------------------------------------------
(* The inductive invariant *)

TreeInv == TreeAgrees /\ RootsPredateRevocation /\ ClocksInThePast /\ ClockRestarts

LEMMA InitInv == Init => IndInv
<1> SUFFICES ASSUME Init PROVE IndInv
  OBVIOUS
<1> USE SemaphoreAssumption, PassportAssumption
<1>1. TypeOK
  <2>1. << >> \in Roots
    BY DEF Roots
  <2>2. SemaphoreTypeOK
    BY <2>1 DEF Init, SemaphoreInit, SemaphoreTypeOK
  <2>3. [issuer |-> NoAccount, memberCount |-> 0, active |-> FALSE, validityPeriod |-> 0]
           \in CredentialGroup
    BY DEF CredentialGroup
  <2>4. /\ approvedIssuers \in [Accounts -> BOOLEAN]
        /\ issuerPaused \in [Accounts -> BOOLEAN]
        /\ paused \in BOOLEAN
    BY DEF Init
  <2>5. /\ groupDelegates \in [GroupIds -> [Accounts -> BOOLEAN]]
        /\ credentials \in [GroupIds -> [Commitments -> BOOLEAN]]
    BY DEF Init
  <2>6. /\ issuerEpoch \in [Accounts -> 0..MaxEpoch]
        /\ groupDelegateEpoch \in [GroupIds -> [Accounts -> 0..MaxEpoch]]
        /\ credentialIssuedAt \in [GroupIds -> [Commitments -> 0..MaxTime]]
        /\ revokedAt \in [GroupIds -> [Commitments -> 0..MaxTime]]
    BY DEF Init
  <2>7. credentialGroups \in [GroupIds -> CredentialGroup]
    BY <2>3 DEF Init
  <2>8. QED
    BY <2>2, <2>4, <2>5, <2>6, <2>7 DEF Init, TypeOK
<1>2. TreeAgrees
  <2> SUFFICES ASSUME NEW g \in GroupIds PROVE GroupAgrees(g)
    BY DEF TreeAgrees
  <2>1. leaves[g] = << >> /\ DOMAIN leaves[g] = {} /\ credentialGroups[g].memberCount = 0
    BY DEF Init, SemaphoreInit
  <2>2. \A c \in Commitments : ~credentials[g][c]
    BY DEF Init
  <2>3. {c \in Commitments : credentials[g][c]} = {}
    BY <2>2
  <2>4. Cardinality({c \in Commitments : credentials[g][c]}) = 0
    BY <2>3, FS_EmptySet
  <2>5. QED
    BY <2>1, <2>2, <2>4 DEF LeavesOf, GroupAgrees
<1>3. RootsPredateRevocation
  BY DEF Init, SemaphoreInit, RootsPredateRevocation
<1>4. ClocksInThePast /\ ClockRestarts
  BY DEF Init, SemaphoreInit, ClocksInThePast, ClockRestarts
<1>5. EpochsBehind
  BY DEF Init, SemaphoreInit, EpochsBehind, IssuerOf, GroupIds
<1>6. QED
  BY <1>1, <1>2, <1>3, <1>4, <1>5 DEF IndInv

(* Steps on roles, pauses, issuers and delegates leave the trees, the groups *)
(* and the clocks alone.                                                     *)
LEMMA TreeFrame ==
    ASSUME TreeInv, UNCHANGED <<semaphoreVars, credentialGroups, credentialVars>>
    PROVE  TreeInv'
  BY DEF TreeInv, TreeAgrees, GroupAgrees, RootsPredateRevocation, ClocksInThePast, ClockRestarts,
         semaphoreVars, credentialVars

LEMMA RoleStepInv ==
    ASSUME IndInv, NEW sender \in Accounts, RoleStep(sender)
    PROVE  IndInv'
<1> USE PassportAssumption DEF semaphoreVars, roleVars, pauseVars, issuerVars, delegateVars,
        credentialVars
<1>1. UNCHANGED <<semaphoreVars, issuerVars, credentialGroups, delegateVars, credentialVars>>
  BY DEF RoleStep, TransferOwnership, AcceptOwnership, SetPauser, Pause, Unpause, PauseIssuer,
         UnpauseIssuer
<1>2. TypeOK'
  <2>1. SemaphoreTypeOK'
    BY <1>1 DEF IndInv, TypeOK, SemaphoreTypeOK
  <2>2. /\ owner' \in Accounts
        /\ pendingOwner' \in Accounts \cup {NoAccount}
        /\ pauser' \in Accounts \cup {NoAccount}
        /\ paused' \in BOOLEAN
        /\ issuerPaused' \in [Accounts -> BOOLEAN]
    BY DEF IndInv, TypeOK, RoleStep, TransferOwnership, AcceptOwnership, SetPauser, Pause,
           Unpause, PauseIssuer, UnpauseIssuer
  <2>3. QED
    BY <1>1, <2>1, <2>2 DEF IndInv, TypeOK
<1>3. TreeInv'
  BY <1>1, TreeFrame DEF IndInv, TreeInv
<1>4. EpochsBehind'
  BY <1>1 DEF IndInv, EpochsBehind, IssuerOf
<1>5. QED
  BY <1>2, <1>3, <1>4 DEF IndInv, TreeInv

LEMMA IssuerStepInv ==
    ASSUME IndInv, NEW sender \in Accounts, IssuerStep(sender)
    PROVE  IndInv'
<1> USE PassportAssumption DEF semaphoreVars, roleVars, pauseVars, issuerVars, delegateVars,
        credentialVars
<1>1. UNCHANGED <<semaphoreVars, roleVars, pauseVars, credentialGroups, credentialVars>>
  BY DEF IssuerStep, ApproveIssuer, RevokeIssuer, ApproveDelegate, RevokeDelegate
<1>2. SemaphoreTypeOK'
  BY <1>1 DEF IndInv, TypeOK, SemaphoreTypeOK
<1>3. TreeInv'
  BY <1>1, TreeFrame DEF IndInv, TreeInv
<1>4. CASE \E i \in IssuerCandidates : ApproveIssuer(sender, i)
  <2>1. /\ approvedIssuers' \in [Accounts -> BOOLEAN]
        /\ UNCHANGED <<issuerEpoch, delegateVars>>
    BY <1>4 DEF ApproveIssuer, IndInv, TypeOK
  <2>2. \A a \in Accounts : approvedIssuers[a] => approvedIssuers'[a]
    BY <1>4 DEF ApproveIssuer, IndInv, TypeOK
  <2>3. TypeOK' /\ EpochsBehind'
    BY <1>1, <1>2, <2>1, <2>2 DEF IndInv, TypeOK, EpochsBehind, IssuerOf, CredentialGroup
  <2>4. QED
    BY <1>3, <2>3 DEF IndInv, TreeInv
<1>5. CASE \E i \in IssuerCandidates : RevokeIssuer(sender, i)
  <2> PICK i \in IssuerCandidates : RevokeIssuer(sender, i)
    BY <1>5
  <2>1. /\ approvedIssuers' \in [Accounts -> BOOLEAN]
        /\ issuerEpoch' \in [Accounts -> 0..MaxEpoch]
        /\ \A a \in Accounts :
              /\ issuerEpoch'[a] >= issuerEpoch[a]
              /\ approvedIssuers'[a] = approvedIssuers[a] \/ issuerEpoch'[a] > issuerEpoch[a]
        /\ UNCHANGED delegateVars
    <3>1. /\ approvedIssuers' = [approvedIssuers EXCEPT ![i] = FALSE]
          /\ issuerEpoch' = [issuerEpoch EXCEPT ![i] = @ + 1]
          /\ issuerEpoch[i] < MaxEpoch
          /\ UNCHANGED delegateVars
      BY DEF RevokeIssuer
    <3>2. /\ approvedIssuers \in [Accounts -> BOOLEAN]
          /\ issuerEpoch \in [Accounts -> 0..MaxEpoch]
          /\ i \in Accounts
      BY DEF IndInv, TypeOK
    <3>3. /\ approvedIssuers' \in [Accounts -> BOOLEAN]
          /\ issuerEpoch' \in [Accounts -> 0..MaxEpoch]
      BY <3>1, <3>2
    <3>4. ASSUME NEW a \in Accounts
          PROVE  /\ issuerEpoch'[a] >= issuerEpoch[a]
                 /\ approvedIssuers'[a] = approvedIssuers[a] \/ issuerEpoch'[a] > issuerEpoch[a]
      <4>1. CASE a = i
        <5>1. issuerEpoch[i] \in Nat /\ issuerEpoch'[i] = issuerEpoch[i] + 1
          BY <3>1, <3>2
        <5>2. issuerEpoch'[i] > issuerEpoch[i]
          BY <5>1
        <5>3. QED
          BY <4>1, <5>1, <5>2
      <4>2. CASE a # i
        <5>1. issuerEpoch'[a] = issuerEpoch[a] /\ issuerEpoch[a] \in Nat
          BY <4>2, <3>1, <3>2
        <5>2. approvedIssuers'[a] = approvedIssuers[a]
          BY <4>2, <3>1, <3>2
        <5>3. QED
          BY <5>1, <5>2
      <4>3. QED
        BY <4>1, <4>2
    <3>5. QED
      BY <3>1, <3>3, <3>4
  <2>2. TypeOK'
    BY <1>1, <1>2, <2>1 DEF IndInv, TypeOK
  <2>3. EpochsBehind'
    <3> SUFFICES ASSUME NEW g \in GroupIds
                 PROVE /\ IssuerOf(g)' = NoAccount <=> g >= groupCounter'
                       /\ g >= groupCounter' => \A c \in Commitments : ~credentials'[g][c]
                       /\ g >= groupCounter' => ~credentialGroups'[g].active
                       /\ \A a \in Accounts : groupDelegates'[g][a] =>
                             /\ IssuerOf(g)' # NoAccount
                             /\ groupDelegateEpoch'[g][a] <= issuerEpoch'[IssuerOf(g)']
                             /\ \/ approvedIssuers'[IssuerOf(g)']
                                \/ groupDelegateEpoch'[g][a] < issuerEpoch'[IssuerOf(g)']
      BY DEF EpochsBehind
    <3>1. IssuerOf(g)' = IssuerOf(g)
      BY <1>1 DEF IssuerOf
    <3>2. IssuerOf(g) \in Accounts \cup {NoAccount}
      BY DEF IndInv, TypeOK, CredentialGroup, IssuerOf
    <3>3. ASSUME NEW a \in Accounts, groupDelegates'[g][a]
          PROVE  /\ IssuerOf(g)' # NoAccount
                 /\ groupDelegateEpoch'[g][a] <= issuerEpoch'[IssuerOf(g)']
                 /\ \/ approvedIssuers'[IssuerOf(g)']
                    \/ groupDelegateEpoch'[g][a] < issuerEpoch'[IssuerOf(g)']
      <4>1. groupDelegateEpoch[g][a] \in Nat
        BY DEF IndInv, TypeOK
      <4>2. /\ IssuerOf(g) # NoAccount
            /\ groupDelegateEpoch[g][a] <= issuerEpoch[IssuerOf(g)]
            /\ \/ approvedIssuers[IssuerOf(g)]
               \/ groupDelegateEpoch[g][a] < issuerEpoch[IssuerOf(g)]
        BY <3>3, <2>1 DEF IndInv, EpochsBehind
      <4>3. /\ issuerEpoch[IssuerOf(g)] \in Nat /\ issuerEpoch'[IssuerOf(g)] \in Nat
            /\ issuerEpoch'[IssuerOf(g)] >= issuerEpoch[IssuerOf(g)]
            /\ \/ approvedIssuers'[IssuerOf(g)] = approvedIssuers[IssuerOf(g)]
               \/ issuerEpoch'[IssuerOf(g)] > issuerEpoch[IssuerOf(g)]
        BY <4>2, <3>2, <2>1 DEF IndInv, TypeOK
      <4>4. QED
        BY <2>1, <3>1, <4>1, <4>2, <4>3
    <3>4. QED
      BY <1>1, <3>1, <3>3 DEF IndInv, EpochsBehind
  <2>4. QED
    BY <1>3, <2>2, <2>3 DEF IndInv, TreeInv
<1>6. CASE \E g \in GroupIds, d \in DelegateCandidates : ApproveDelegate(sender, g, d)
  <2> PICK h \in GroupIds, d \in DelegateCandidates : ApproveDelegate(sender, h, d)
    BY <1>6
  <2>1. /\ groupDelegates' = [groupDelegates EXCEPT ![h][d] = TRUE]
        /\ groupDelegateEpoch' = [groupDelegateEpoch EXCEPT ![h][d] = issuerEpoch[IssuerOf(h)]]
        /\ UNCHANGED issuerVars
        /\ IssuerOf(h) = sender
        /\ approvedIssuers[sender]
        /\ d \in Accounts
    BY DEF ApproveDelegate, OnlyGroupIssuer
  <2>2. issuerEpoch[sender] \in 0..MaxEpoch /\ sender # NoAccount
    BY DEF IndInv, TypeOK
  <2>3. /\ groupDelegates' \in [GroupIds -> [Accounts -> BOOLEAN]]
        /\ groupDelegateEpoch' \in [GroupIds -> [Accounts -> 0..MaxEpoch]]
    BY <2>1, <2>2 DEF IndInv, TypeOK
  <2>4. TypeOK'
    BY <1>1, <1>2, <2>1, <2>3 DEF IndInv, TypeOK
  <2>5. \A g \in GroupIds, a \in Accounts : groupDelegates'[g][a] =>
           /\ IssuerOf(g) # NoAccount
           /\ groupDelegateEpoch'[g][a] <= issuerEpoch[IssuerOf(g)]
           /\ \/ approvedIssuers[IssuerOf(g)]
              \/ groupDelegateEpoch'[g][a] < issuerEpoch[IssuerOf(g)]
    <3> SUFFICES ASSUME NEW g \in GroupIds, NEW a \in Accounts, groupDelegates'[g][a]
                 PROVE  /\ IssuerOf(g) # NoAccount
                        /\ groupDelegateEpoch'[g][a] <= issuerEpoch[IssuerOf(g)]
                        /\ \/ approvedIssuers[IssuerOf(g)]
                           \/ groupDelegateEpoch'[g][a] < issuerEpoch[IssuerOf(g)]
      OBVIOUS
    <3>1. CASE g = h /\ a = d
      BY <3>1, <2>1, <2>2 DEF IndInv, TypeOK
    <3>2. CASE ~(g = h /\ a = d)
      BY <3>2, <2>1 DEF IndInv, TypeOK, EpochsBehind
    <3>3. QED
      BY <3>1, <3>2
  <2>6. EpochsBehind'
    BY <1>1, <2>1, <2>5 DEF IndInv, EpochsBehind, IssuerOf
  <2>7. QED
    BY <1>3, <2>4, <2>6 DEF IndInv, TreeInv
<1>7. CASE \E g \in GroupIds, d \in DelegateCandidates : RevokeDelegate(sender, g, d)
  <2> PICK h \in GroupIds, d \in DelegateCandidates : RevokeDelegate(sender, h, d)
    BY <1>7
  <2>1. /\ groupDelegates' = [groupDelegates EXCEPT ![h][d] = FALSE]
        /\ groupDelegateEpoch' = [groupDelegateEpoch EXCEPT ![h][d] = 0]
        /\ UNCHANGED issuerVars
        /\ d \in Accounts
    BY DEF RevokeDelegate
  <2>2. /\ groupDelegates' \in [GroupIds -> [Accounts -> BOOLEAN]]
        /\ groupDelegateEpoch' \in [GroupIds -> [Accounts -> 0..MaxEpoch]]
    BY <2>1 DEF IndInv, TypeOK
  <2>3. TypeOK'
    BY <1>1, <1>2, <2>1, <2>2 DEF IndInv, TypeOK
  <2>4. \A g \in GroupIds, a \in Accounts : groupDelegates'[g][a] =>
           groupDelegates[g][a] /\ groupDelegateEpoch'[g][a] = groupDelegateEpoch[g][a]
    BY <2>1 DEF IndInv, TypeOK
  <2>5. EpochsBehind'
    BY <1>1, <2>1, <2>4 DEF IndInv, EpochsBehind, IssuerOf
  <2>6. QED
    BY <1>3, <2>3, <2>5 DEF IndInv, TreeInv
<1>8. QED
  BY <1>4, <1>5, <1>6, <1>7 DEF IssuerStep

LEMMA GroupStepInv ==
    ASSUME IndInv, NEW sender \in Accounts, GroupStep(sender)
    PROVE  IndInv'
<1> USE PassportAssumption, SemaphoreAssumption
        DEF semaphoreVars, roleVars, pauseVars, issuerVars, delegateVars, credentialVars
<1>1. UNCHANGED <<now, leaves, rootDates, nullifiers, roleVars, pauseVars, issuerVars,
                  delegateVars, credentialVars>>
  BY DEF GroupStep, CreateCredentialGroup, CreateGroup, SetValidityPeriod, DeactivateGroup
<1>2. CASE CreateCredentialGroup(sender)
  <2>1. /\ groupCounter' = groupCounter + 1
        /\ groupCounter \in GroupIds
        /\ groupCounter' \in 0..MaxGroups
        /\ credentialGroups' = [credentialGroups EXCEPT ![groupCounter] =
              [issuer |-> sender, memberCount |-> 0, active |-> TRUE, validityPeriod |-> 0]]
    BY <1>2 DEF CreateCredentialGroup, CreateGroup, GroupIds, IndInv, TypeOK, SemaphoreTypeOK
  <2>2. [issuer |-> sender, memberCount |-> 0, active |-> TRUE, validityPeriod |-> 0]
           \in CredentialGroup
    BY DEF CredentialGroup
  <2>3. TypeOK'
    BY <1>1, <2>1, <2>2 DEF IndInv, TypeOK, SemaphoreTypeOK
  <2>4. Cardinality({c \in Commitments : credentials[groupCounter][c]}) = 0
    <3>1. {c \in Commitments : credentials[groupCounter][c]} = {}
      BY <2>1 DEF IndInv, EpochsBehind, TypeOK, SemaphoreTypeOK
    <3>2. QED
      BY <3>1, FS_EmptySet
  <2>5. \A g \in GroupIds : credentialGroups'[g].memberCount =
           Cardinality({c \in Commitments : credentials[g][c]})
    <3>1. TAKE g \in GroupIds
    <3>2. CASE g = groupCounter
      BY <3>2, <2>1, <2>4 DEF IndInv, TypeOK
    <3>3. CASE g # groupCounter
      BY <3>3, <2>1 DEF IndInv, TypeOK, TreeAgrees, GroupAgrees
    <3>4. QED
      BY <3>2, <3>3
  <2>6. TreeInv'
    <3>1. TreeAgrees'
      <4> SUFFICES ASSUME NEW g \in GroupIds PROVE GroupAgrees(g)'
        BY DEF TreeAgrees
      <4>1. GroupAgrees(g)
        BY DEF IndInv, TreeInv, TreeAgrees
      <4>2. UNCHANGED <<leaves, rootDates, credentials>>
        BY <1>1
      <4>3. credentialGroups'[g].memberCount = Cardinality({c \in Commitments : credentials[g][c]})
        BY <2>5
      <4>4. QED
        BY <4>1, <4>2, <4>3 DEF GroupAgrees
    <3>2. RootsPredateRevocation' /\ ClocksInThePast' /\ ClockRestarts'
      BY <1>1 DEF IndInv, TreeInv, RootsPredateRevocation, ClocksInThePast, ClockRestarts
    <3>3. QED
      BY <3>1, <3>2 DEF TreeInv
  <2>7. EpochsBehind'
    <3>1. \A g \in GroupIds : g # groupCounter => credentialGroups'[g] = credentialGroups[g]
      BY <2>1 DEF IndInv, TypeOK
    <3>2. credentialGroups'[groupCounter].issuer = sender
      BY <2>1 DEF IndInv, TypeOK
    <3>3. \A a \in Accounts : ~groupDelegates[groupCounter][a]
      BY <2>1 DEF IndInv, EpochsBehind, TypeOK, SemaphoreTypeOK
    <3>4. groupCounter \in Nat /\ GroupIds \subseteq Int
      BY DEF IndInv, TypeOK, SemaphoreTypeOK, GroupIds
    <3> SUFFICES ASSUME NEW g \in GroupIds
                 PROVE /\ IssuerOf(g)' = NoAccount <=> g >= groupCounter'
                       /\ g >= groupCounter' => \A c \in Commitments : ~credentials'[g][c]
                       /\ g >= groupCounter' => ~credentialGroups'[g].active
                       /\ \A a \in Accounts : groupDelegates'[g][a] =>
                             /\ IssuerOf(g)' # NoAccount
                             /\ groupDelegateEpoch'[g][a] <= issuerEpoch'[IssuerOf(g)']
                             /\ \/ approvedIssuers'[IssuerOf(g)']
                                \/ groupDelegateEpoch'[g][a] < issuerEpoch'[IssuerOf(g)']
      BY DEF EpochsBehind
    <3>5. CASE g = groupCounter
      BY <3>5, <1>1, <2>1, <3>2, <3>3, <3>4 DEF IssuerOf
    <3>6. CASE g # groupCounter
      <4>1. g >= groupCounter' <=> g >= groupCounter
        BY <3>6, <3>4, <2>1
      <4>2. QED
        BY <3>6, <4>1, <1>1, <3>1 DEF IndInv, EpochsBehind, IssuerOf
    <3>7. QED
      BY <3>5, <3>6
  <2>8. QED
    BY <2>3, <2>6, <2>7 DEF IndInv, TreeInv
<1>3. CASE \/ \E g \in GroupIds, v \in ValidityPeriods : SetValidityPeriod(sender, g, v)
           \/ \E g \in GroupIds : DeactivateGroup(sender, g)
  <2>1. /\ groupCounter' = groupCounter
        /\ credentialGroups' \in [GroupIds -> CredentialGroup]
        /\ \A g \in GroupIds :
              /\ credentialGroups'[g].issuer = credentialGroups[g].issuer
              /\ credentialGroups'[g].memberCount = credentialGroups[g].memberCount
              /\ credentialGroups'[g].active => credentialGroups[g].active
    <3>1. credentialGroups \in [GroupIds -> CredentialGroup]
      BY DEF IndInv, TypeOK
    <3>2. ASSUME NEW h \in GroupIds, NEW v \in ValidityPeriods, SetValidityPeriod(sender, h, v)
          PROVE  credentialGroups' = [credentialGroups EXCEPT ![h] =
                    [credentialGroups[h] EXCEPT !.validityPeriod = v]]
      BY <3>2 DEF SetValidityPeriod
    <3>3. ASSUME NEW h \in GroupIds, DeactivateGroup(sender, h)
          PROVE  credentialGroups' = [credentialGroups EXCEPT ![h] =
                    [credentialGroups[h] EXCEPT !.active = FALSE]]
      BY <3>3 DEF DeactivateGroup
    <3>4. PICK h \in GroupIds, new \in CredentialGroup :
             /\ credentialGroups' = [credentialGroups EXCEPT ![h] = new]
             /\ new.issuer = credentialGroups[h].issuer
             /\ new.memberCount = credentialGroups[h].memberCount
             /\ new.active => credentialGroups[h].active
      <4>1. CASE \E g \in GroupIds, v \in ValidityPeriods : SetValidityPeriod(sender, g, v)
        <5>1. PICK k \in GroupIds, v \in ValidityPeriods : SetValidityPeriod(sender, k, v)
          BY <4>1
        <5>2. credentialGroups[k] \in CredentialGroup /\ v \in Nat
          BY <3>1
        <5>3. WITNESS k \in GroupIds
        <5>4. [credentialGroups[k] EXCEPT !.validityPeriod = v] \in CredentialGroup
          BY <5>2 DEF CredentialGroup
        <5>5. WITNESS [credentialGroups[k] EXCEPT !.validityPeriod = v] \in CredentialGroup
        <5>6. QED
          BY <5>1, <5>2, <3>2 DEF CredentialGroup
      <4>2. CASE \E g \in GroupIds : DeactivateGroup(sender, g)
        <5>1. PICK k \in GroupIds : DeactivateGroup(sender, k)
          BY <4>2
        <5>2. credentialGroups[k] \in CredentialGroup
          BY <3>1
        <5>3. WITNESS k \in GroupIds
        <5>4. [credentialGroups[k] EXCEPT !.active = FALSE] \in CredentialGroup
          BY <5>2 DEF CredentialGroup
        <5>5. WITNESS [credentialGroups[k] EXCEPT !.active = FALSE] \in CredentialGroup
        <5>6. QED
          BY <5>1, <5>2, <3>3 DEF CredentialGroup
      <4>3. QED
        BY <1>3, <4>1, <4>2
    <3>5. groupCounter' = groupCounter
      BY <1>3 DEF SetValidityPeriod, DeactivateGroup
    <3>6. QED
      BY <3>1, <3>4, <3>5
  <2>2. TypeOK'
    BY <1>1, <2>1 DEF IndInv, TypeOK, SemaphoreTypeOK
  <2>3. TreeInv'
    <3>1. TreeAgrees'
      <4> SUFFICES ASSUME NEW g \in GroupIds PROVE GroupAgrees(g)'
        BY DEF TreeAgrees
      <4>1. GroupAgrees(g) /\ credentialGroups'[g].memberCount = credentialGroups[g].memberCount
        BY <2>1 DEF IndInv, TreeAgrees
      <4>2. QED
        BY <1>1, <4>1 DEF GroupAgrees
    <3>2. RootsPredateRevocation' /\ ClocksInThePast' /\ ClockRestarts'
      BY <1>1 DEF IndInv, RootsPredateRevocation, ClocksInThePast, ClockRestarts
    <3>3. QED
      BY <3>1, <3>2 DEF TreeInv
  <2>4. EpochsBehind'
    BY <1>1, <2>1 DEF IndInv, EpochsBehind, IssuerOf
  <2>5. QED
    BY <2>2, <2>3, <2>4 DEF IndInv, TreeInv
<1>4. QED
  BY <1>2, <1>3 DEF GroupStep

(* A batch without repetitions has as many members as it is long. *)
LEMMA BatchCardinality ==
    ASSUME NEW b \in Seq(Commitments), NoRepeats(b)
    PROVE  IsFiniteSet(LeavesOf(b)) /\ Cardinality(LeavesOf(b)) = Len(b)
<1>1. Len(b) \in Nat /\ DOMAIN b = 1..Len(b)
  OBVIOUS
<1>2. b \in [1..Len(b) -> LeavesOf(b)]
  BY <1>1 DEF LeavesOf
<1>3. b \in Surjection(1..Len(b), LeavesOf(b))
  BY <1>1, <1>2 DEF Surjection, LeavesOf
<1>4. b \in Injection(1..Len(b), LeavesOf(b))
  BY <1>1, <1>2 DEF Injection, IsInjective, NoRepeats
<1>5. IsFiniteSet(1..Len(b)) /\ Cardinality(1..Len(b)) = Len(b)
  BY <1>1, FS_Interval
<1>6. QED
  BY <1>3, <1>4, <1>5, FS_Surjection

(* The members of a group after an issuance are the old ones and the batch, *)
(* counted once.                                                            *)
LEMMA IssueCount ==
    ASSUME TypeOK, NEW g \in GroupIds, NEW b \in Seq(Commitments), NoRepeats(b),
           \A c \in LeavesOf(b) : ~credentials[g][c], Issue(g, b)
    PROVE  Cardinality({c \in Commitments : credentials'[g][c]}) =
              Cardinality({c \in Commitments : credentials[g][c]}) + Len(b)
<1> DEFINE Old == {c \in Commitments : credentials[g][c]}
           New == {c \in Commitments : credentials'[g][c]}
<1>1. LeavesOf(b) \subseteq Commitments
  BY DEF LeavesOf
<1>2. \A c \in Commitments : credentials'[g][c] <=> credentials[g][c] \/ c \in LeavesOf(b)
  BY DEF Issue, TypeOK
<1>3. New = Old \cup LeavesOf(b) /\ Old \cap LeavesOf(b) = {}
  BY <1>1, <1>2
<1>4. IsFiniteSet(Old) /\ IsFiniteSet(LeavesOf(b)) /\ Cardinality(LeavesOf(b)) = Len(b)
  BY BatchCardinality, SemaphoreAssumption, FS_Subset
<1>5. Cardinality(Old \cap LeavesOf(b)) = 0
  BY <1>3, FS_EmptySet
<1>6. Cardinality(Old) \in Nat /\ Len(b) \in Nat
  BY <1>4, FS_CardinalityType
<1>7. Cardinality(Old \cup LeavesOf(b)) =
         Cardinality(Old) + Cardinality(LeavesOf(b)) - Cardinality(Old \cap LeavesOf(b))
  BY <1>4, FS_Union
<1>8. Cardinality(New) = Cardinality(Old) + Len(b)
  <2> HIDE DEF Old, New
  <2>1. QED
    BY <1>3, <1>4, <1>5, <1>6, <1>7
<1>9. QED
  BY <1>8

(* What an issuance does, group by group. *)
LEMMA IssueInv ==
    ASSUME IndInv, NEW g \in GroupIds, NEW b \in Seq(Commitments), Len(b) # 0,
           IssuerOf(g) # NoAccount, \A c \in LeavesOf(b) : ~credentials[g][c], Issue(g, b)
    PROVE  IndInv'
<1> USE SemaphoreAssumption, PassportAssumption
        DEF semaphoreVars, roleVars, pauseVars, issuerVars, delegateVars
<1>1. /\ leaves' = [leaves EXCEPT ![g] = leaves[g] \o b]
      /\ rootDates' = [rootDates EXCEPT ![g] = @ \cup {[root |-> leaves[g] \o b, at |-> now]}]
      /\ NoRepeats(b)
      /\ LeavesOf(b) \cap Members(g) = {}
      /\ UNCHANGED <<now, groupCounter, nullifiers, roleVars, pauseVars, issuerVars,
                     delegateVars, revokedAt>>
  BY DEF Issue, AddMembers, NewRoot
<1>2. /\ credentialGroups[g] \in CredentialGroup
      /\ credentialGroups' = [credentialGroups EXCEPT ![g] =
            [credentialGroups[g] EXCEPT !.memberCount = credentialGroups[g].memberCount + Len(b)]]
  BY DEF Issue, IndInv, TypeOK
<1>3. /\ leaves[g] \in Roots
      /\ leaves[g] \o b \in Roots
      /\ LeavesOf(leaves[g] \o b) = LeavesOf(leaves[g]) \cup LeavesOf(b)
  BY AppendLeaves DEF IndInv, TypeOK, SemaphoreTypeOK
<1>4. LeavesOf(b) \subseteq Commitments
  BY DEF LeavesOf
<1>5. credentials' = [credentials EXCEPT ![g] =
         [c \in Commitments |-> credentials[g][c] \/ c \in LeavesOf(b)]]
  BY DEF Issue
<1>6. credentialIssuedAt' = [credentialIssuedAt EXCEPT ![g] =
         [c \in Commitments |-> IF c \in LeavesOf(b) THEN now ELSE credentialIssuedAt[g][c]]]
  BY DEF Issue
<1>7. now \in 1..MaxTime /\ Len(b) \in Nat
  BY DEF IndInv, TypeOK, SemaphoreTypeOK
<1>8. TypeOK'
  <2>1. [root |-> leaves[g] \o b, at |-> now] \in [root : Roots, at : 1..MaxTime]
    BY <1>3, <1>7
  <2>2. SemaphoreTypeOK'
    BY <1>1, <1>3, <2>1 DEF IndInv, TypeOK, SemaphoreTypeOK
  <2>3. [credentialGroups[g] EXCEPT !.memberCount = credentialGroups[g].memberCount + Len(b)]
           \in CredentialGroup
    <3>1. credentialGroups[g].memberCount + Len(b) \in Nat
      BY <1>2, <1>7 DEF CredentialGroup
    <3>2. QED
      BY <1>2, <3>1 DEF CredentialGroup
  <2>4. credentialGroups' \in [GroupIds -> CredentialGroup]
    BY <1>2, <2>3 DEF IndInv, TypeOK
  <2>5. [c \in Commitments |-> credentials[g][c] \/ c \in LeavesOf(b)] \in [Commitments -> BOOLEAN]
    OBVIOUS
  <2>6. credentials' \in [GroupIds -> [Commitments -> BOOLEAN]]
    BY <1>5, <2>5 DEF IndInv, TypeOK
  <2>7. [c \in Commitments |-> IF c \in LeavesOf(b) THEN now ELSE credentialIssuedAt[g][c]]
           \in [Commitments -> 0..MaxTime]
    BY <1>7 DEF IndInv, TypeOK
  <2>8. credentialIssuedAt' \in [GroupIds -> [Commitments -> 0..MaxTime]]
    BY <1>6, <2>7 DEF IndInv, TypeOK
  <2>9. QED
    BY <1>1, <2>2, <2>4, <2>6, <2>8 DEF IndInv, TypeOK
<1>9. /\ leaves'[g] = leaves[g] \o b
      /\ rootDates'[g] = rootDates[g] \cup {[root |-> leaves[g] \o b, at |-> now]}
      /\ \A c \in Commitments :
            /\ credentials'[g][c] <=> credentials[g][c] \/ c \in LeavesOf(b)
            /\ credentialIssuedAt'[g][c] =
                  IF c \in LeavesOf(b) THEN now ELSE credentialIssuedAt[g][c]
      /\ credentialGroups'[g].memberCount = credentialGroups[g].memberCount + Len(b)
  BY <1>1, <1>2, <1>5, <1>6 DEF IndInv, TypeOK, SemaphoreTypeOK, CredentialGroup
<1>10. \A h \in GroupIds : h # g =>
          /\ leaves'[h] = leaves[h]
          /\ rootDates'[h] = rootDates[h]
          /\ credentials'[h] = credentials[h]
          /\ credentialIssuedAt'[h] = credentialIssuedAt[h]
          /\ credentialGroups'[h] = credentialGroups[h]
  BY <1>1, <1>2, <1>5, <1>6 DEF IndInv, TypeOK, SemaphoreTypeOK
<1>11. TreeAgrees'
  <2>1. \A c \in Commitments : credentials'[g][c] <=> c \in LeavesOf(leaves'[g])
    BY <1>3, <1>9 DEF IndInv, TreeAgrees, GroupAgrees
  <2>2. ASSUME NEW i \in DOMAIN leaves'[g], NEW j \in DOMAIN leaves'[g],
               leaves'[g][i] = leaves'[g][j], leaves'[g][i] # ZeroLeaf
        PROVE  i = j
    <3> DEFINE s == leaves[g]
               n == Len(leaves[g])
    <3>1. /\ s \in Seq(Commitments \cup {ZeroLeaf}) /\ b \in Seq(Commitments \cup {ZeroLeaf})
          /\ n \in Nat /\ DOMAIN s = 1..n /\ DOMAIN b = 1..Len(b)
          /\ DOMAIN (s \o b) = 1..(n + Len(b))
          /\ \A k \in 1..(n + Len(b)) : (s \o b)[k] = IF k <= n THEN s[k] ELSE b[k - n]
      BY <1>3, <1>7 DEF Roots
    <3>2. i \in 1..(n + Len(b)) /\ j \in 1..(n + Len(b))
      BY <2>2, <1>9, <3>1
    <3>3. \A k \in 1..(n + Len(b)) : k <= n => k \in DOMAIN s /\ (s \o b)[k] \in LeavesOf(s)
      BY <3>1 DEF LeavesOf
    <3>4. \A k \in 1..(n + Len(b)) : ~(k <= n) =>
             /\ k - n \in DOMAIN b
             /\ (s \o b)[k] = b[k - n]
             /\ (s \o b)[k] \in LeavesOf(b)
      <4> SUFFICES ASSUME NEW k \in 1..(n + Len(b)), ~(k <= n)
                   PROVE  /\ k - n \in DOMAIN b
                          /\ (s \o b)[k] = b[k - n]
                          /\ (s \o b)[k] \in LeavesOf(b)
        OBVIOUS
      <4>1. k - n \in 1..Len(b)
        BY <1>7, <3>1
      <4>2. QED
        BY <4>1, <3>1 DEF LeavesOf
    <3>5. LeavesOf(b) \cap LeavesOf(s) \subseteq {ZeroLeaf}
      BY <1>1 DEF Members
    <3>6. CASE i <= n /\ j <= n
      <4>1. s[i] = s[j] /\ s[i] # ZeroLeaf /\ i \in DOMAIN s /\ j \in DOMAIN s
        BY <2>2, <1>9, <3>1, <3>2, <3>3, <3>6
      <4>2. QED
        BY <4>1 DEF IndInv, TreeAgrees, GroupAgrees
    <3>7. CASE ~(i <= n) /\ ~(j <= n)
      <4>1. b[i - n] = b[j - n] /\ i - n \in DOMAIN b /\ j - n \in DOMAIN b
        BY <2>2, <1>9, <3>1, <3>2, <3>4, <3>7
      <4>2. i - n = j - n
        BY <4>1, <1>1 DEF NoRepeats
      <4>3. QED
        BY <4>2, <3>1, <3>2
    <3>8. CASE (i <= n) # (j <= n)
      BY <2>2, <1>9, <3>2, <3>3, <3>4, <3>5, <3>8
    <3>9. QED
      BY <3>6, <3>7, <3>8
  <2>3. credentialGroups'[g].memberCount = Cardinality({c \in Commitments : credentials'[g][c]})
    <3>1. TypeOK /\ NoRepeats(b)
      BY <1>1 DEF IndInv
    <3>2. Cardinality({c \in Commitments : credentials'[g][c]}) =
             Cardinality({c \in Commitments : credentials[g][c]}) + Len(b)
      BY <3>1, IssueCount
    <3>3. credentialGroups[g].memberCount = Cardinality({c \in Commitments : credentials[g][c]})
      BY DEF IndInv, TreeAgrees, GroupAgrees
    <3>4. QED
      BY <1>9, <3>2, <3>3
  <2>4. \E r \in rootDates'[g] : r.root = leaves'[g]
    <3>1. [root |-> leaves[g] \o b, at |-> now] \in rootDates'[g]
      BY <1>9
    <3>2. QED
      BY <1>9, <3>1
  <2>5. GroupAgrees(g)'
    BY <2>1, <2>2, <2>3, <2>4 DEF GroupAgrees
  <2>6. ASSUME NEW h \in GroupIds, h # g PROVE GroupAgrees(h)'
    <3>1. /\ leaves'[h] = leaves[h] /\ rootDates'[h] = rootDates[h]
          /\ credentials'[h] = credentials[h] /\ credentialGroups'[h] = credentialGroups[h]
      BY <2>6, <1>10
    <3>2. GroupAgrees(h)
      BY DEF IndInv, TreeAgrees
    <3>3. QED
      BY <3>1, <3>2 DEF GroupAgrees
  <2>7. QED
    BY <2>5, <2>6 DEF TreeAgrees
<1>12. RootsPredateRevocation'
  <2> SUFFICES ASSUME NEW h \in GroupIds, NEW r \in rootDates'[h]
               PROVE  /\ r.at <= now
                      /\ \A c \in Commitments :
                            c \in LeavesOf(r.root) /\ ~credentials'[h][c] => r.at <= revokedAt[h][c]
    BY <1>1 DEF RootsPredateRevocation
  <2>1. CASE h # g \/ r \in rootDates[h]
    BY <2>1, <1>9, <1>10 DEF IndInv, RootsPredateRevocation
  <2>2. CASE h = g /\ r = [root |-> leaves[g] \o b, at |-> now]
    <3>1. r.at = now /\ r.root = leaves[g] \o b
      BY <2>2
    <3>2. \A c \in Commitments : c \in LeavesOf(leaves[g] \o b) => credentials'[g][c]
      BY <1>3, <1>9 DEF IndInv, TreeAgrees, GroupAgrees
    <3>3. QED
      BY <2>2, <3>1, <3>2, <1>7
  <2>3. QED
    BY <2>1, <2>2, <1>9
<1>13. ClocksInThePast' /\ ClockRestarts'
  <2> SUFFICES ASSUME NEW h \in GroupIds, NEW c \in Commitments
               PROVE  /\ credentialIssuedAt'[h][c] <= now
                      /\ revokedAt[h][c] <= now
                      /\ credentials'[h][c] => credentialIssuedAt'[h][c] >= revokedAt[h][c]
                      /\ ~credentials'[h][c] => revokedAt[h][c] >= credentialIssuedAt'[h][c]
    BY <1>1 DEF ClocksInThePast, ClockRestarts
  <2>1. /\ credentialIssuedAt[h][c] <= now
        /\ revokedAt[h][c] <= now
        /\ credentials[h][c] => credentialIssuedAt[h][c] >= revokedAt[h][c]
        /\ ~credentials[h][c] => revokedAt[h][c] >= credentialIssuedAt[h][c]
    BY DEF IndInv, ClocksInThePast, ClockRestarts
  <2>2. CASE h = g
    BY <2>1, <2>2, <1>7, <1>9
  <2>3. CASE h # g
    BY <2>1, <2>3, <1>10
  <2>4. QED
    BY <2>2, <2>3
<1>14. EpochsBehind'
  <2>1. \A h \in GroupIds :
           /\ IssuerOf(h)' = IssuerOf(h)
           /\ credentialGroups'[h].active = credentialGroups[h].active
    BY <1>2, <1>10 DEF IssuerOf, CredentialGroup, IndInv, TypeOK
  <2>2. ~(g >= groupCounter)
    BY DEF IndInv, EpochsBehind
  <2>3. \A h \in GroupIds : h >= groupCounter => \A c \in Commitments : ~credentials'[h][c]
    BY <1>10, <2>2 DEF IndInv, EpochsBehind
  <2>4. QED
    BY <1>1, <2>1, <2>3 DEF IndInv, EpochsBehind
<1>15. QED
  BY <1>8, <1>11, <1>12, <1>13, <1>14 DEF IndInv

(* What a revocation does, group by group. *)
LEMMA RevokeInv ==
    ASSUME IndInv, NEW sender \in Accounts, NEW g \in GroupIds, NEW d \in Commitments,
           RevokeCredential(sender, g, d)
    PROVE  IndInv'
<1> USE SemaphoreAssumption, PassportAssumption
        DEF semaphoreVars, roleVars, pauseVars, issuerVars, delegateVars
<1> DEFINE root == Zeroed(leaves[g], d)
<1>1. /\ leaves' = [leaves EXCEPT ![g] = root]
      /\ rootDates' = [rootDates EXCEPT ![g] = @ \cup {[root |-> root, at |-> now]}]
      /\ credentials[g][d]
      /\ credentials' = [credentials EXCEPT ![g][d] = FALSE]
      /\ revokedAt' = [revokedAt EXCEPT ![g][d] = now]
      /\ UNCHANGED <<now, groupCounter, nullifiers, roleVars, pauseVars, issuerVars,
                     delegateVars, credentialIssuedAt>>
  BY DEF RevokeCredential, RemoveMember, NewRoot
<1>2. /\ credentialGroups[g] \in CredentialGroup
      /\ credentialGroups' = [credentialGroups EXCEPT ![g] =
            [credentialGroups[g] EXCEPT !.memberCount = credentialGroups[g].memberCount - 1]]
  BY DEF RevokeCredential, IndInv, TypeOK
<1>3. /\ leaves[g] \in Roots
      /\ root \in Roots
      /\ DOMAIN root = DOMAIN leaves[g]
      /\ \A i \in DOMAIN leaves[g] :
            root[i] = IF leaves[g][i] = d THEN ZeroLeaf ELSE leaves[g][i]
      /\ \A c \in Commitments : c \in LeavesOf(root) <=> c \in LeavesOf(leaves[g]) /\ c # d
  BY ZeroedLeaves DEF IndInv, TypeOK, SemaphoreTypeOK
<1>4. now \in 1..MaxTime
  BY DEF IndInv, TypeOK, SemaphoreTypeOK
<1>5. /\ GroupAgrees(g)
      /\ Cardinality({c \in Commitments : credentials'[g][c]}) =
            Cardinality({c \in Commitments : credentials[g][c]}) - 1
      /\ Cardinality({c \in Commitments : credentials[g][c]}) \in Nat \ {0}
  <2> DEFINE Old == {c \in Commitments : credentials[g][c]}
             New == {c \in Commitments : credentials'[g][c]}
  <2>1. New = Old \ {d} /\ d \in Old
    BY <1>1 DEF IndInv, TypeOK
  <2>2. IsFiniteSet(Old)
    BY FS_Subset
  <2>3. Cardinality(Old) \in Nat /\ Cardinality(Old \ {d}) = Cardinality(Old) - 1
    BY <2>1, <2>2, FS_CardinalityType, FS_RemoveElement
  <2>4. Cardinality(Old) # 0
    BY <2>1, <2>2, FS_EmptySet
  <2>5. QED
    BY <2>1, <2>3, <2>4 DEF IndInv, TreeAgrees
<1> HIDE DEF root
<1>6. /\ leaves'[g] = root
      /\ rootDates'[g] = rootDates[g] \cup {[root |-> root, at |-> now]}
      /\ \A c \in Commitments :
            /\ credentials'[g][c] <=> credentials[g][c] /\ c # d
            /\ revokedAt'[g][c] = IF c = d THEN now ELSE revokedAt[g][c]
      /\ credentialGroups'[g].memberCount = credentialGroups[g].memberCount - 1
  BY <1>1, <1>2 DEF IndInv, TypeOK, SemaphoreTypeOK, CredentialGroup
<1>7. \A h \in GroupIds : h # g =>
         /\ leaves'[h] = leaves[h]
         /\ rootDates'[h] = rootDates[h]
         /\ credentials'[h] = credentials[h]
         /\ revokedAt'[h] = revokedAt[h]
         /\ credentialGroups'[h] = credentialGroups[h]
  BY <1>1, <1>2 DEF IndInv, TypeOK, SemaphoreTypeOK
<1>8. TypeOK'
  <2>1. SemaphoreTypeOK'
    <3>1. [root |-> root, at |-> now] \in [root : Roots, at : 1..MaxTime]
      BY <1>3, <1>4
    <3>2. QED
      BY <1>1, <1>3, <3>1 DEF IndInv, TypeOK, SemaphoreTypeOK
  <2>2. credentialGroups[g].memberCount - 1 \in Nat
    BY <1>5 DEF GroupAgrees
  <2>3. credentialGroups' \in [GroupIds -> CredentialGroup]
    <3>1. [credentialGroups[g] EXCEPT !.memberCount = credentialGroups[g].memberCount - 1]
             \in CredentialGroup
      BY <1>2, <2>2 DEF CredentialGroup
    <3>2. QED
      BY <1>2, <3>1 DEF IndInv, TypeOK
  <2>4. credentials' \in [GroupIds -> [Commitments -> BOOLEAN]]
    BY <1>1 DEF IndInv, TypeOK
  <2>5. revokedAt' \in [GroupIds -> [Commitments -> 0..MaxTime]]
    BY <1>1, <1>4 DEF IndInv, TypeOK
  <2>6. QED
    BY <1>1, <2>1, <2>3, <2>4, <2>5 DEF IndInv, TypeOK
<1>9. TreeAgrees'
  <2>1. \A c \in Commitments : credentials'[g][c] <=> c \in LeavesOf(leaves'[g])
    BY <1>3, <1>5, <1>6 DEF GroupAgrees
  <2>2. \A i, j \in DOMAIN leaves'[g] :
           leaves'[g][i] = leaves'[g][j] /\ leaves'[g][i] # ZeroLeaf => i = j
    BY <1>3, <1>5, <1>6 DEF GroupAgrees
  <2>3. credentialGroups'[g].memberCount = Cardinality({c \in Commitments : credentials'[g][c]})
    BY <1>5, <1>6 DEF GroupAgrees
  <2>4. \E r \in rootDates'[g] : r.root = leaves'[g]
    <3>1. [root |-> root, at |-> now] \in rootDates'[g]
      BY <1>6
    <3>2. QED
      BY <1>6, <3>1
  <2>5. GroupAgrees(g)'
    BY <2>1, <2>2, <2>3, <2>4 DEF GroupAgrees
  <2>6. ASSUME NEW h \in GroupIds, h # g PROVE GroupAgrees(h)'
    <3>1. /\ leaves'[h] = leaves[h] /\ rootDates'[h] = rootDates[h]
          /\ credentials'[h] = credentials[h] /\ credentialGroups'[h] = credentialGroups[h]
      BY <2>6, <1>7
    <3>2. GroupAgrees(h)
      BY DEF IndInv, TreeAgrees
    <3>3. QED
      BY <3>1, <3>2 DEF GroupAgrees
  <2>7. QED
    BY <2>5, <2>6 DEF TreeAgrees
<1>10. RootsPredateRevocation'
  <2> SUFFICES ASSUME NEW h \in GroupIds, NEW r \in rootDates'[h]
               PROVE  /\ r.at <= now
                      /\ \A c \in Commitments :
                            c \in LeavesOf(r.root) /\ ~credentials'[h][c] =>
                               r.at <= revokedAt'[h][c]
    BY <1>1 DEF RootsPredateRevocation
  <2>1. CASE h # g
    BY <2>1, <1>7 DEF IndInv, RootsPredateRevocation
  <2>2. CASE h = g /\ r \in rootDates[g]
    BY <2>2, <1>6 DEF IndInv, RootsPredateRevocation
  <2>3. CASE h = g /\ r = [root |-> root, at |-> now]
    <3>1. r.at = now /\ r.root = root
      BY <2>3
    <3>2. \A c \in Commitments : c \in LeavesOf(root) => credentials'[g][c]
      BY <1>3, <1>5, <1>6 DEF GroupAgrees
    <3>3. QED
      BY <2>3, <3>1, <3>2, <1>4
  <2>4. QED
    BY <2>1, <2>2, <2>3, <1>6
<1>11. ClocksInThePast' /\ ClockRestarts'
  <2> SUFFICES ASSUME NEW h \in GroupIds, NEW c \in Commitments
               PROVE  /\ credentialIssuedAt[h][c] <= now
                      /\ revokedAt'[h][c] <= now
                      /\ credentials'[h][c] => credentialIssuedAt[h][c] >= revokedAt'[h][c]
                      /\ ~credentials'[h][c] => revokedAt'[h][c] >= credentialIssuedAt[h][c]
    BY <1>1 DEF ClocksInThePast, ClockRestarts
  <2>1. /\ credentialIssuedAt[h][c] <= now
        /\ revokedAt[h][c] <= now
        /\ credentials[h][c] => credentialIssuedAt[h][c] >= revokedAt[h][c]
        /\ ~credentials[h][c] => revokedAt[h][c] >= credentialIssuedAt[h][c]
    BY DEF IndInv, ClocksInThePast, ClockRestarts
  <2>2. CASE h = g
    BY <2>1, <2>2, <1>4, <1>6
  <2>3. CASE h # g
    BY <2>1, <2>3, <1>7
  <2>4. QED
    BY <2>2, <2>3
<1>12. EpochsBehind'
  <2>1. \A h \in GroupIds :
           /\ IssuerOf(h)' = IssuerOf(h)
           /\ credentialGroups'[h].active = credentialGroups[h].active
    BY <1>2, <1>7 DEF IssuerOf, CredentialGroup, IndInv, TypeOK
  <2>2. \A h \in GroupIds, c \in Commitments : credentials'[h][c] => credentials[h][c]
    BY <1>6, <1>7
  <2>3. QED
    BY <1>1, <2>1, <2>2 DEF IndInv, EpochsBehind
<1>13. QED
  BY <1>8, <1>9, <1>10, <1>11, <1>12 DEF IndInv

LEMMA CredentialStepInv ==
    ASSUME IndInv, NEW sender \in Accounts, CredentialStep(sender)
    PROVE  IndInv'
<1>1. ASSUME NEW g \in GroupIds, NEW c \in Commitments, IssueCredential(sender, g, c)
      PROVE  IndInv'
  <2>1. <<c>> \in Seq(Commitments) /\ Len(<<c>>) # 0 /\ LeavesOf(<<c>>) = {c}
    BY DEF LeavesOf
  <2>2. IssuerOf(g) # NoAccount /\ ~credentials[g][c] /\ Issue(g, <<c>>)
    BY <1>1 DEF IssueCredential, OnlyGroupIssuerOrDelegate, IssuerApproved
  <2>3. QED
    BY <2>1, <2>2, IssueInv
<1>2. ASSUME NEW g \in GroupIds, NEW b \in Batches, BatchIssueCredentials(sender, g, b)
      PROVE  IndInv'
  <2>1. b \in Seq(Commitments) /\ Len(b) # 0
    BY BatchType
  <2>2. /\ IssuerOf(g) # NoAccount
        /\ \A c \in LeavesOf(b) : ~credentials[g][c]
        /\ Issue(g, b)
    BY <1>2 DEF BatchIssueCredentials, OnlyGroupIssuerOrDelegate, IssuerApproved
  <2>3. QED
    BY <2>1, <2>2, IssueInv
<1>3. QED
  BY <1>1, <1>2, RevokeInv DEF CredentialStep

LEMMA ValidateInv ==
    ASSUME IndInv, NEW g \in GroupIds, NEW p \in BuildableProofs(g), ValidateCredential(g, p)
    PROVE  IndInv'
<1> USE DEF semaphoreVars, roleVars, pauseVars, issuerVars, delegateVars, credentialVars
<1>1. /\ nullifiers' = [nullifiers EXCEPT ![g] = @ \cup {<<p.identity, p.scope>>}]
      /\ UNCHANGED <<now, groupCounter, leaves, rootDates, roleVars, pauseVars, issuerVars,
                     credentialGroups, delegateVars, credentialVars>>
  BY DEF ValidateCredential, ValidateProof
<1>2. <<p.identity, p.scope>> \in Commitments \X Scopes
  BY DEF BuildableProofs
<1>3. nullifiers' \in [GroupIds -> SUBSET (Commitments \X Scopes)]
  BY <1>1, <1>2 DEF IndInv, TypeOK, SemaphoreTypeOK
<1>4. TypeOK'
  BY <1>1, <1>3 DEF IndInv, TypeOK, SemaphoreTypeOK
<1>5. TreeAgrees' /\ RootsPredateRevocation' /\ ClocksInThePast' /\ ClockRestarts'
  BY <1>1 DEF IndInv, TreeAgrees, GroupAgrees, RootsPredateRevocation, ClocksInThePast,
              ClockRestarts
<1>6. EpochsBehind'
  BY <1>1 DEF IndInv, EpochsBehind, IssuerOf
<1>7. QED
  BY <1>4, <1>5, <1>6 DEF IndInv

LEMMA TickInv ==
    ASSUME IndInv, Tick
    PROVE  IndInv'
<1> USE SemaphoreAssumption
        DEF semaphoreVars, roleVars, pauseVars, issuerVars, delegateVars, credentialVars
<1>1. /\ now' = now + 1
      /\ now \in 1..MaxTime /\ now' \in 1..MaxTime
      /\ UNCHANGED <<groupCounter, leaves, rootDates, nullifiers, roleVars, pauseVars,
                     issuerVars, credentialGroups, delegateVars, credentialVars>>
  BY DEF Tick, IndInv, TypeOK, SemaphoreTypeOK
<1>2. TypeOK'
  BY <1>1 DEF IndInv, TypeOK, SemaphoreTypeOK
<1>3. TreeAgrees' /\ ClockRestarts'
  BY <1>1 DEF IndInv, TreeAgrees, GroupAgrees, ClockRestarts
<1>4. RootsPredateRevocation'
  <2>1. \A g \in GroupIds : \A r \in rootDates[g] : r.at \in Nat /\ r.at <= now
    BY DEF IndInv, TypeOK, SemaphoreTypeOK, RootsPredateRevocation
  <2>2. QED
    BY <1>1, <2>1 DEF IndInv, RootsPredateRevocation
<1>5. ClocksInThePast'
  <2>1. \A g \in GroupIds, c \in Commitments :
           credentialIssuedAt[g][c] \in Nat /\ revokedAt[g][c] \in Nat
    BY DEF IndInv, TypeOK
  <2>2. QED
    BY <1>1, <2>1 DEF IndInv, ClocksInThePast
<1>6. EpochsBehind'
  BY <1>1 DEF IndInv, EpochsBehind, IssuerOf
<1>7. QED
  BY <1>2, <1>3, <1>4, <1>5, <1>6 DEF IndInv

LEMMA StutterInv ==
    ASSUME IndInv, UNCHANGED vars
    PROVE  IndInv'
<1> USE DEF vars, semaphoreVars, roleVars, pauseVars, issuerVars, delegateVars, credentialVars
<1>1. TypeOK'
  BY DEF IndInv, TypeOK, SemaphoreTypeOK
<1>2. TreeAgrees' /\ RootsPredateRevocation' /\ ClocksInThePast' /\ ClockRestarts'
  BY DEF IndInv, TreeAgrees, GroupAgrees, RootsPredateRevocation, ClocksInThePast, ClockRestarts
<1>3. EpochsBehind'
  BY DEF IndInv, EpochsBehind, IssuerOf
<1>4. QED
  BY <1>1, <1>2, <1>3 DEF IndInv

(* Every reachable state satisfies the inductive invariant: the types, the   *)
(* agreement of flags, trees and counts, and the bookkeeping of roots,       *)
(* timestamps and epochs, for any number of accounts, groups and members.    *)
THEOREM Invariance == Spec => []IndInv
<1>1. Init => IndInv
  BY InitInv
<1>2. IndInv /\ [Next]_vars => IndInv'
  BY TickInv, RoleStepInv, IssuerStepInv, GroupStepInv, CredentialStepInv, ValidateInv,
     StutterInv DEF Next
<1>3. QED
  BY <1>1, <1>2, PTL DEF Spec

-----------------------------------------------------------------------------
(* Consequences *)

(* Everything stays in its type; in particular memberCount never underflows  *)
(* (HSKPassport.sol:305) and the owner is never address(0).                  *)
THEOREM TypeCorrect == Spec => []TypeOK
<1>1. IndInv => TypeOK
  BY DEF IndInv
<1>2. QED
  BY <1>1, Invariance, PTL

(* memberCount is the number of non-zero leaves of the group's tree.         *)
THEOREM MemberCountCorrect == Spec => []MemberCountAccurate
<1>1. IndInv => MemberCountAccurate
  <2> SUFFICES ASSUME IndInv, NEW g \in GroupIds
               PROVE  credentialGroups[g].memberCount = Cardinality(Members(g))
    BY DEF MemberCountAccurate
  <2>1. GroupAgrees(g)
    BY DEF IndInv, TreeAgrees
  <2>2. leaves[g] \in Seq(Commitments \cup {ZeroLeaf})
    BY DEF IndInv, TypeOK, SemaphoreTypeOK, Roots
  <2>3. LeavesOf(leaves[g]) \subseteq Commitments \cup {ZeroLeaf}
    BY <2>2 DEF LeavesOf
  <2>4. Members(g) = {c \in Commitments : credentials[g][c]}
    BY <2>1, <2>3, SemaphoreAssumption DEF GroupAgrees, Members
  <2>5. QED
    BY <2>1, <2>4 DEF GroupAgrees
<1>2. QED
  BY <1>1, Invariance, PTL

(* Whoever holds a credential of an active group can prove it.               *)
THEOREM HolderCanAlwaysProve == Spec => []HolderCanProve
<1>1. IndInv => HolderCanProve
  <2> SUFFICES ASSUME IndInv, NEW g \in GroupIds, NEW c \in Commitments, NEW s \in Scopes,
                      credentials[g][c], credentialGroups[g].active
               PROVE  VerifyCredential(g, [root |-> leaves[g], identity |-> c, scope |-> s])
    BY DEF HolderCanProve
  <2>1. c \in LeavesOf(leaves[g])
    BY DEF IndInv, TreeAgrees, GroupAgrees
  <2>2. leaves[g] # << >>
    BY <2>1 DEF LeavesOf
  <2>3. QED
    BY <2>1, <2>2 DEF VerifyCredential, VerifyProof
<1>2. QED
  BY <1>1, Invariance, PTL

(* A revoked commitment is rejected at the latest merkleTreeDuration after   *)
(* its revocation, whatever root its proofs were built against.              *)
THEOREM RevocationEffective == Spec => []RevocationWindow
<1>1. IndInv => RevocationWindow
  <2> SUFFICES ASSUME IndInv, NEW g \in GroupIds, NEW p \in BuildableProofs(g),
                      VerifyCredential(g, p), ~credentials[g][p.identity]
               PROVE  now <= revokedAt[g][p.identity] + MerkleTreeDuration
    BY DEF RevocationWindow
  <2>1. p.identity \in Commitments
    BY DEF BuildableProofs
  <2>2. p.root # leaves[g]
    BY <2>1 DEF IndInv, TreeAgrees, GroupAgrees, VerifyCredential, VerifyProof
  <2>3. PICK r \in rootDates[g] : r.root = p.root /\ now <= r.at + MerkleTreeDuration
    BY <2>2 DEF VerifyCredential, VerifyProof
  <2>4. p.identity \in LeavesOf(r.root)
    BY <2>3 DEF VerifyCredential, VerifyProof
  <2>5. r.at <= revokedAt[g][p.identity]
    BY <2>1, <2>4 DEF IndInv, RootsPredateRevocation
  <2>6. r.at \in Nat /\ revokedAt[g][p.identity] \in Nat /\ now \in Nat
    BY <2>1, <2>3 DEF IndInv, TypeOK, SemaphoreTypeOK
  <2>7. QED
    BY <2>3, <2>5, <2>6, SemaphoreAssumption
<1>2. QED
  BY <1>1, Invariance, PTL

(* The order of a credential's latest issuance and revocation is the order   *)
(* its flag says.                                                            *)
THEOREM ClockRestartsAlways == Spec => []ClockRestarts
<1>1. IndInv => ClockRestarts
  BY DEF IndInv
<1>2. QED
  BY <1>1, Invariance, PTL

-----------------------------------------------------------------------------
(* Action properties *)

(* Which steps touch the leaves of a group, and how. *)
LEMMA StepMembers ==
    ASSUME IndInv, [Next]_vars, NEW g \in GroupIds
    PROVE  \/ leaves'[g] = leaves[g]
           \/ /\ IssuerApproved(g)
              /\ NotPaused(IssuerOf(g))
              /\ credentialGroups[g].active
           \/ Members(g)' \subseteq Members(g)
<1> USE DEF semaphoreVars, vars
<1>1. leaves \in [GroupIds -> Roots]
  BY DEF IndInv, TypeOK, SemaphoreTypeOK
<1>2. CASE leaves' = leaves
  BY <1>2
<1>3. ASSUME NEW h \in GroupIds, NEW b, Issue(h, b) PROVE h # g => leaves'[g] = leaves[g]
  BY <1>1, <1>3 DEF Issue, AddMembers, NewRoot
<1>4. ASSUME NEW sender \in Accounts, CredentialStep(sender)
      PROVE  \/ leaves'[g] = leaves[g]
             \/ /\ IssuerApproved(g)
                /\ NotPaused(IssuerOf(g))
                /\ credentialGroups[g].active
             \/ Members(g)' \subseteq Members(g)
  <2>1. ASSUME NEW h \in GroupIds, NEW c \in Commitments, IssueCredential(sender, h, c)
        PROVE  h # g => leaves'[g] = leaves[g]
    BY <2>1, <1>3 DEF IssueCredential
  <2>2. ASSUME NEW h \in GroupIds, NEW b \in Batches, BatchIssueCredentials(sender, h, b)
        PROVE  h # g => leaves'[g] = leaves[g]
    BY <2>2, <1>3 DEF BatchIssueCredentials
  <2>3. ASSUME NEW h \in GroupIds, NEW c \in Commitments, RevokeCredential(sender, h, c)
        PROVE  leaves'[g] = leaves[g] \/ Members(g)' \subseteq Members(g)
    <3>1. leaves' = [leaves EXCEPT ![h] = Zeroed(leaves[h], c)]
      BY <2>3 DEF RevokeCredential, RemoveMember, NewRoot
    <3>2. \A x : x \in LeavesOf(Zeroed(leaves[h], c)) => x \in LeavesOf(leaves[h]) \/ x = ZeroLeaf
      BY DEF LeavesOf, Zeroed
    <3>3. QED
      BY <1>1, <3>1, <3>2 DEF Members
  <2>4. QED
    BY <1>4, <2>1, <2>2, <2>3
       DEF CredentialStep, IssueCredential, BatchIssueCredentials, OnlyGroupIssuerOrDelegate
<1>5. ASSUME NEW sender \in Accounts, IssuerStep(sender) \/ RoleStep(sender) PROVE leaves' = leaves
  BY <1>5 DEF IssuerStep, ApproveIssuer, RevokeIssuer, ApproveDelegate, RevokeDelegate, RoleStep,
              TransferOwnership, AcceptOwnership, SetPauser, Pause, Unpause, PauseIssuer,
              UnpauseIssuer
<1>6. ASSUME NEW sender \in Accounts, GroupStep(sender) PROVE leaves' = leaves
  BY <1>6 DEF GroupStep, CreateCredentialGroup, CreateGroup, SetValidityPeriod, DeactivateGroup
<1>7. ASSUME Tick \/ \E h \in GroupIds : \E p \in BuildableProofs(h) : ValidateCredential(h, p)
      PROVE  leaves' = leaves
  BY <1>7 DEF Tick, ValidateCredential, ValidateProof
<1>8. CASE UNCHANGED vars
  BY <1>8
<1>9. QED
  BY <1>2, <1>4, <1>5, <1>6, <1>7, <1>8 DEF Next

(* No path of the contract adds a member while issuance is halted.           *)
THEOREM IssuanceHaltsAlways == Spec => IssuanceHalts
<1> DEFINE Halted(g) == \/ paused
                        \/ ~credentialGroups[g].active
                        \/ ~IssuerApproved(g)
                        \/ issuerPaused[IssuerOf(g)]
<1>1. ASSUME IndInv, [Next]_vars, NEW g \in GroupIds, Halted(g)
      PROVE  Members(g)' \subseteq Members(g)
  <2>1. leaves'[g] = leaves[g] \/ Members(g)' \subseteq Members(g)
    BY <1>1, StepMembers DEF NotPaused
  <2>2. QED
    BY <2>1 DEF Members
<1>2. IndInv /\ [Next]_vars =>
         [\A g \in GroupIds : Halted(g) => Members(g)' \subseteq Members(g)]_vars
  BY <1>1
<1>3. QED
  BY <1>2, Invariance, PTL DEF Spec, IssuanceHalts

(* Which steps touch the status of a created group or spend a nullifier in it. *)
LEMMA StepStatus ==
    ASSUME IndInv, [Next]_vars, NEW g \in GroupIds, g < groupCounter, ~credentialGroups[g].active
    PROVE  ~credentialGroups[g].active' /\ nullifiers'[g] = nullifiers[g]
<1> USE DEF semaphoreVars, roleVars, pauseVars, issuerVars, delegateVars, credentialVars, vars
<1>1. /\ credentialGroups \in [GroupIds -> CredentialGroup]
      /\ nullifiers \in [GroupIds -> SUBSET (Commitments \X Scopes)]
      /\ groupCounter \in Nat
  BY SemaphoreAssumption DEF IndInv, TypeOK, SemaphoreTypeOK
<1>2. ASSUME NEW h \in GroupIds, NEW b, h # g, Issue(h, b)
      PROVE  credentialGroups'[g] = credentialGroups[g] /\ nullifiers' = nullifiers
  BY <1>1, <1>2 DEF Issue, AddMembers
<1>3. ASSUME NEW sender \in Accounts, CredentialStep(sender)
      PROVE  ~credentialGroups'[g].active /\ nullifiers' = nullifiers
  <2>1. ASSUME NEW h \in GroupIds, NEW c \in Commitments, IssueCredential(sender, h, c)
        PROVE  credentialGroups'[g] = credentialGroups[g] /\ nullifiers' = nullifiers
    BY <1>2, <2>1 DEF IssueCredential
  <2>2. ASSUME NEW h \in GroupIds, NEW b \in Batches, BatchIssueCredentials(sender, h, b)
        PROVE  credentialGroups'[g] = credentialGroups[g] /\ nullifiers' = nullifiers
    BY <1>2, <2>2 DEF BatchIssueCredentials
  <2>3. ASSUME NEW h \in GroupIds, NEW c \in Commitments, RevokeCredential(sender, h, c)
        PROVE  credentialGroups'[g].active = credentialGroups[g].active /\ nullifiers' = nullifiers
    <3>1. /\ nullifiers' = nullifiers
          /\ credentialGroups' = [credentialGroups EXCEPT ![h].memberCount = @ - 1]
      BY <2>3 DEF RevokeCredential, RemoveMember
    <3>2. QED
      BY <1>1, <3>1 DEF CredentialGroup
  <2>4. QED
    BY <1>3, <2>1, <2>2, <2>3 DEF CredentialStep
<1>4. ASSUME NEW sender \in Accounts, GroupStep(sender)
      PROVE  ~credentialGroups'[g].active /\ nullifiers' = nullifiers
  <2>1. CASE CreateCredentialGroup(sender)
    <3>1. g # groupCounter
      BY <1>1 DEF GroupIds
    <3>2. QED
      BY <1>1, <2>1, <3>1 DEF CreateCredentialGroup, CreateGroup
  <2>2. ASSUME NEW h \in GroupIds, NEW v \in ValidityPeriods, SetValidityPeriod(sender, h, v)
        PROVE  credentialGroups'[g].active = credentialGroups[g].active /\ nullifiers' = nullifiers
    BY <1>1, <2>2 DEF SetValidityPeriod, CredentialGroup
  <2>3. ASSUME NEW h \in GroupIds, DeactivateGroup(sender, h)
        PROVE  ~credentialGroups'[g].active /\ nullifiers' = nullifiers
    BY <1>1, <2>3 DEF DeactivateGroup, CredentialGroup
  <2>4. QED
    BY <1>4, <2>1, <2>2, <2>3 DEF GroupStep
<1>5. ASSUME NEW sender \in Accounts, IssuerStep(sender) \/ RoleStep(sender)
      PROVE  credentialGroups' = credentialGroups /\ nullifiers' = nullifiers
  BY <1>5 DEF IssuerStep, ApproveIssuer, RevokeIssuer, ApproveDelegate, RevokeDelegate, RoleStep,
              TransferOwnership, AcceptOwnership, SetPauser, Pause, Unpause, PauseIssuer,
              UnpauseIssuer
<1>6. ASSUME NEW h \in GroupIds, NEW p, ValidateCredential(h, p)
      PROVE  credentialGroups' = credentialGroups /\ nullifiers'[g] = nullifiers[g]
  <2>1. h # g
    BY <1>6 DEF ValidateCredential
  <2>2. QED
    BY <1>1, <1>6, <2>1 DEF ValidateCredential, ValidateProof
<1>7. CASE Tick \/ UNCHANGED vars
  BY <1>7 DEF Tick
<1>8. QED
  BY <1>3, <1>4, <1>5, <1>6, <1>7 DEF Next

(* Deactivation is final: a deactivated group is never reactivated, gains no *)
(* member and spends no nullifier.                                           *)
THEOREM DeactivationFinalAlways == Spec => DeactivationFinal
<1>1. ASSUME IndInv, [Next]_vars, NEW g \in GroupIds,
             g < groupCounter /\ ~credentialGroups[g].active
      PROVE  /\ ~credentialGroups[g].active'
             /\ Members(g)' \subseteq Members(g)
             /\ nullifiers'[g] = nullifiers[g]
  <2>1. ~credentialGroups[g].active' /\ nullifiers'[g] = nullifiers[g]
    BY <1>1, StepStatus
  <2>2. leaves'[g] = leaves[g] \/ Members(g)' \subseteq Members(g)
    BY <1>1, StepMembers
  <2>3. QED
    BY <2>1, <2>2 DEF Members
<1>2. IndInv /\ [Next]_vars =>
         [\A g \in GroupIds :
            g < groupCounter /\ ~credentialGroups[g].active =>
               /\ ~credentialGroups[g].active'
               /\ Members(g)' \subseteq Members(g)
               /\ nullifiers'[g] = nullifiers[g]]_vars
  BY <1>1
<1>3. QED
  BY <1>2, Invariance, PTL DEF Spec, DeactivationFinal

-----------------------------------------------------------------------------
(* The contract implements CredentialAuthority *)

(* What the abstract set of authorities holds, in this state and in the next. *)
LEMMA AuthorisedPairs ==
    /\ Authorised \subseteq GroupIds \X Accounts
    /\ Authorised' \subseteq GroupIds \X Accounts
    /\ \A g \in GroupIds, a \in Accounts :
          /\ <<g, a>> \in Authorised <=> OnlyGroupIssuerOrDelegate(g, a)
          /\ <<g, a>> \in Authorised' <=> OnlyGroupIssuerOrDelegate(g, a)'
  BY DEF Authorised

(* Sets of <group, account> pairs are equal when they hold the same pairs. *)
LEMMA PairsEqual ==
    ASSUME NEW S, NEW T, S \subseteq GroupIds \X Accounts, T \subseteq GroupIds \X Accounts,
           \A g \in GroupIds, a \in Accounts : <<g, a>> \in S <=> <<g, a>> \in T
    PROVE  S = T
  OBVIOUS

(* A step that changes no issuer, no approval, no epoch and no delegate *)
(* changes no authority.                                                *)
LEMMA AuthorityFrame ==
    ASSUME UNCHANGED <<issuerVars, delegateVars>>,
           \A g \in GroupIds : IssuerOf(g)' = IssuerOf(g)
    PROVE  UNCHANGED <<GroupIssuers, Authorised>>
<1>1. GroupIssuers' = GroupIssuers
  BY DEF GroupIssuers
<1>2. \A g \in GroupIds, a \in Accounts :
         OnlyGroupIssuerOrDelegate(g, a)' <=> OnlyGroupIssuerOrDelegate(g, a)
  BY DEF OnlyGroupIssuerOrDelegate, IssuerApproved, CurrentDelegate, issuerVars, delegateVars
<1>3. Authorised' = Authorised
  BY <1>2, AuthorisedPairs, PairsEqual
<1>4. QED
  BY <1>1, <1>3

LEMMA RefineInit == Init => Authority!Init
<1> SUFFICES ASSUME Init PROVE Authority!Init
  OBVIOUS
<1>1. GroupIssuers = [g \in GroupIds |-> NoAccount]
  BY DEF Init, GroupIssuers, IssuerOf
<1>2. \A g \in GroupIds, a \in Accounts : ~OnlyGroupIssuerOrDelegate(g, a)
  BY DEF Init, OnlyGroupIssuerOrDelegate, IssuerApproved, IssuerOf
<1>3. Authorised = {}
  BY <1>2, AuthorisedPairs, PairsEqual
<1>4. OpenGroups = {}
  BY DEF Init, OpenGroups
<1>5. Holders = [g \in GroupIds |-> {}]
  BY DEF Init, Holders
<1>6. QED
  BY <1>1, <1>3, <1>4, <1>5 DEF Authority!Init

(* What an issuer or delegate step means for each pair. *)
LEMMA RefineIssuerStep ==
    ASSUME IndInv, NEW sender \in Accounts, IssuerStep(sender)
    PROVE  [Authority!Next]_Authority!vars
<1> USE PassportAssumption
<1>a. UNCHANGED credentialGroups /\ UNCHANGED credentials
  BY DEF IssuerStep, ApproveIssuer, RevokeIssuer, ApproveDelegate, RevokeDelegate, credentialVars
<1>b. /\ \A g \in GroupIds : IssuerOf(g)' = IssuerOf(g)
      /\ UNCHANGED <<GroupIssuers, OpenGroups, Holders>>
  BY <1>a DEF IssuerOf, GroupIssuers, OpenGroups, Holders
<1>c. /\ \A g \in GroupIds : IssuerOf(g) \in Accounts \cup {NoAccount}
      /\ \A g \in GroupIds : GroupIssuers[g] = IssuerOf(g)
  BY DEF IndInv, TypeOK, CredentialGroup, IssuerOf, GroupIssuers
<1>d. /\ approvedIssuers \in [Accounts -> BOOLEAN]
      /\ issuerEpoch \in [Accounts -> 0..MaxEpoch]
      /\ groupDelegates \in [GroupIds -> [Accounts -> BOOLEAN]]
      /\ groupDelegateEpoch \in [GroupIds -> [Accounts -> 0..MaxEpoch]]
  BY DEF IndInv, TypeOK
<1>4. CASE \E i \in IssuerCandidates : ApproveIssuer(sender, i)
  <2> PICK i \in IssuerCandidates : ApproveIssuer(sender, i)
    BY <1>4
  <2>1. /\ approvedIssuers' = [approvedIssuers EXCEPT ![i] = TRUE]
        /\ UNCHANGED <<issuerEpoch, groupDelegates, groupDelegateEpoch>>
        /\ i \in Accounts
    BY DEF ApproveIssuer, delegateVars
  <2> DEFINE After == Authorised \cup (Authority!GroupsOf(i) \X {i})
  <2>2. After \subseteq GroupIds \X Accounts
    BY <2>1, AuthorisedPairs DEF Authority!GroupsOf
  <2>3. ASSUME NEW g \in GroupIds, NEW a \in Accounts
        PROVE  OnlyGroupIssuerOrDelegate(g, a)' <=>
                  OnlyGroupIssuerOrDelegate(g, a) \/ (IssuerOf(g) = i /\ a = i)
    <3>1. CASE IssuerOf(g) # i
      <4>1. IssuerApproved(g)' <=> IssuerApproved(g)
        BY <3>1, <2>1, <1>b, <1>c, <1>d DEF IssuerApproved
      <4>2. CurrentDelegate(g, a)' <=> CurrentDelegate(g, a)
        BY <2>1, <1>b DEF CurrentDelegate
      <4>3. QED
        BY <3>1, <4>1, <4>2, <1>b DEF OnlyGroupIssuerOrDelegate
    <3>2. CASE IssuerOf(g) = i
      <4>1. IssuerApproved(g)'
        BY <3>2, <2>1, <1>b, <1>d DEF IssuerApproved
      <4>2. CurrentDelegate(g, a)' <=> CurrentDelegate(g, a)
        BY <2>1, <1>b DEF CurrentDelegate
      <4>3. CurrentDelegate(g, a) => IssuerApproved(g)
        <5> SUFFICES ASSUME CurrentDelegate(g, a) PROVE IssuerApproved(g)
          OBVIOUS
        <5>1. groupDelegates[g][a] /\ groupDelegateEpoch[g][a] = issuerEpoch[IssuerOf(g)]
          BY DEF CurrentDelegate
        <5>2. IssuerOf(g) # NoAccount
          BY <3>2, <2>1
        <5>3. approvedIssuers[IssuerOf(g)] \/ groupDelegateEpoch[g][a] < issuerEpoch[IssuerOf(g)]
          BY <5>1 DEF IndInv, EpochsBehind
        <5>4. groupDelegateEpoch[g][a] \in Nat
          BY <1>d
        <5>5. approvedIssuers[IssuerOf(g)]
          BY <5>1, <5>3, <5>4
        <5>6. QED
          BY <5>2, <5>5 DEF IssuerApproved
      <4>4. QED
        BY <3>2, <4>1, <4>2, <4>3, <1>b DEF OnlyGroupIssuerOrDelegate
    <3>3. QED
      BY <3>1, <3>2
  <2>4. ASSUME NEW g \in GroupIds, NEW a \in Accounts
        PROVE  <<g, a>> \in After <=> OnlyGroupIssuerOrDelegate(g, a) \/ (IssuerOf(g) = i /\ a = i)
    BY <1>c, AuthorisedPairs DEF Authority!GroupsOf
  <2>5. Authorised' = After
    BY <2>2, <2>3, <2>4, AuthorisedPairs, PairsEqual
  <2>6. Authority!Approve(i)
    BY <2>5, <1>b DEF Authority!Approve
  <2>7. QED
    BY <2>1, <2>6 DEF Authority!Next
<1>5. CASE \E i \in IssuerCandidates : RevokeIssuer(sender, i)
  <2> PICK i \in IssuerCandidates : RevokeIssuer(sender, i)
    BY <1>5
  <2>1. /\ approvedIssuers' = [approvedIssuers EXCEPT ![i] = FALSE]
        /\ issuerEpoch' = [issuerEpoch EXCEPT ![i] = @ + 1]
        /\ UNCHANGED <<groupDelegates, groupDelegateEpoch>>
        /\ i \in Accounts
    BY DEF RevokeIssuer, delegateVars
  <2> DEFINE After == Authorised \ (Authority!GroupsOf(i) \X Accounts)
  <2>2. After \subseteq GroupIds \X Accounts
    BY AuthorisedPairs
  <2>3. ASSUME NEW g \in GroupIds, NEW a \in Accounts
        PROVE  OnlyGroupIssuerOrDelegate(g, a)' <=>
                  OnlyGroupIssuerOrDelegate(g, a) /\ IssuerOf(g) # i
    <3>1. CASE IssuerOf(g) = i
      <4>1. ~IssuerApproved(g)'
        BY <3>1, <2>1, <1>b, <1>d DEF IssuerApproved
      <4>2. QED
        BY <3>1, <4>1 DEF OnlyGroupIssuerOrDelegate
    <3>2. CASE IssuerOf(g) = NoAccount
      BY <3>2, <1>b DEF OnlyGroupIssuerOrDelegate, IssuerApproved
    <3>3. CASE IssuerOf(g) # i /\ IssuerOf(g) # NoAccount
      <4>1. IssuerApproved(g)' <=> IssuerApproved(g)
        BY <3>3, <2>1, <1>b, <1>c, <1>d DEF IssuerApproved
      <4>2. issuerEpoch'[IssuerOf(g)] = issuerEpoch[IssuerOf(g)]
        BY <3>3, <2>1, <1>c, <1>d
      <4>3. CurrentDelegate(g, a)' <=> CurrentDelegate(g, a)
        BY <2>1, <4>2, <1>b DEF CurrentDelegate
      <4>4. QED
        BY <3>3, <4>1, <4>3, <1>b DEF OnlyGroupIssuerOrDelegate
    <3>4. QED
      BY <3>1, <3>2, <3>3
  <2>4. ASSUME NEW g \in GroupIds, NEW a \in Accounts
        PROVE  <<g, a>> \in After <=> OnlyGroupIssuerOrDelegate(g, a) /\ IssuerOf(g) # i
    BY <1>c, AuthorisedPairs DEF Authority!GroupsOf
  <2>5. Authorised' = After
    BY <2>2, <2>3, <2>4, AuthorisedPairs, PairsEqual
  <2>6. Authority!Dismiss(i)
    BY <2>5, <1>b DEF Authority!Dismiss
  <2>7. QED
    BY <2>1, <2>6 DEF Authority!Next
<1>6. CASE \E g \in GroupIds, d \in DelegateCandidates : ApproveDelegate(sender, g, d)
  <2> PICK h \in GroupIds, d \in DelegateCandidates : ApproveDelegate(sender, h, d)
    BY <1>6
  <2>1. /\ groupDelegates' = [groupDelegates EXCEPT ![h][d] = TRUE]
        /\ groupDelegateEpoch' = [groupDelegateEpoch EXCEPT ![h][d] = issuerEpoch[IssuerOf(h)]]
        /\ UNCHANGED <<approvedIssuers, issuerEpoch>>
        /\ IssuerOf(h) = sender
        /\ approvedIssuers[sender]
        /\ d \in Accounts
    BY DEF ApproveDelegate, OnlyGroupIssuer, issuerVars
  <2> DEFINE After == Authorised \cup {<<h, d>>}
  <2>2. After \subseteq GroupIds \X Accounts
    BY <2>1, AuthorisedPairs
  <2>3. \A g \in GroupIds : IssuerApproved(g)' <=> IssuerApproved(g)
    BY <2>1, <1>b DEF IssuerApproved
  <2>4. IssuerApproved(h)
    BY <2>1 DEF IssuerApproved
  <2>5. ASSUME NEW g \in GroupIds, NEW a \in Accounts
        PROVE  OnlyGroupIssuerOrDelegate(g, a)' <=>
                  OnlyGroupIssuerOrDelegate(g, a) \/ (g = h /\ a = d)
    <3>1. CASE g = h /\ a = d
      <4>1. groupDelegates'[g][a] /\ groupDelegateEpoch'[g][a] = issuerEpoch[IssuerOf(g)]
        BY <3>1, <2>1, <1>d
      <4>2. QED
        BY <3>1, <4>1, <2>1, <2>3, <2>4, <1>b DEF OnlyGroupIssuerOrDelegate, CurrentDelegate
    <3>2. CASE ~(g = h /\ a = d)
      <4>1. /\ groupDelegates'[g][a] = groupDelegates[g][a]
            /\ groupDelegateEpoch'[g][a] = groupDelegateEpoch[g][a]
        BY <3>2, <2>1, <1>d
      <4>2. QED
        BY <3>2, <4>1, <2>1, <2>3, <1>b DEF OnlyGroupIssuerOrDelegate, CurrentDelegate
    <3>3. QED
      BY <3>1, <3>2
  <2>6. Authorised' = After
    BY <2>2, <2>5, AuthorisedPairs, PairsEqual
  <2>7. <<h, GroupIssuers[h]>> \in Authorised
    BY <2>1, <2>4, <1>c, AuthorisedPairs DEF OnlyGroupIssuerOrDelegate
  <2>8. Authority!Delegate(h, d)
    BY <2>6, <2>7, <1>b DEF Authority!Delegate
  <2>9. QED
    BY <2>1, <2>8 DEF Authority!Next
<1>7. CASE \E g \in GroupIds, d \in DelegateCandidates : RevokeDelegate(sender, g, d)
  <2> PICK h \in GroupIds, d \in DelegateCandidates : RevokeDelegate(sender, h, d)
    BY <1>7
  <2>1. /\ groupDelegates' = [groupDelegates EXCEPT ![h][d] = FALSE]
        /\ groupDelegateEpoch' = [groupDelegateEpoch EXCEPT ![h][d] = 0]
        /\ UNCHANGED <<approvedIssuers, issuerEpoch>>
        /\ d \in Accounts
    BY DEF RevokeDelegate, issuerVars
  <2>2. \A g \in GroupIds : IssuerApproved(g)' <=> IssuerApproved(g)
    BY <2>1, <1>b DEF IssuerApproved
  <2>3. ~CurrentDelegate(h, d)'
    BY <2>1, <1>d DEF CurrentDelegate
  <2>4. ASSUME NEW g \in GroupIds, NEW a \in Accounts, ~(g = h /\ a = d)
        PROVE  OnlyGroupIssuerOrDelegate(g, a)' <=> OnlyGroupIssuerOrDelegate(g, a)
    <3>1. /\ groupDelegates'[g][a] = groupDelegates[g][a]
          /\ groupDelegateEpoch'[g][a] = groupDelegateEpoch[g][a]
      BY <2>4, <2>1, <1>d
    <3>2. QED
      BY <3>1, <2>1, <2>2, <1>b DEF OnlyGroupIssuerOrDelegate, CurrentDelegate
  <2>5. CASE IssuerOf(h) # d
    <3> DEFINE After == Authorised \ {<<h, d>>}
    <3>1. ~OnlyGroupIssuerOrDelegate(h, d)'
      BY <2>3, <2>5, <1>b DEF OnlyGroupIssuerOrDelegate
    <3>2. After \subseteq GroupIds \X Accounts
      BY AuthorisedPairs
    <3>3. Authorised' = After
      BY <2>4, <3>1, <3>2, AuthorisedPairs, PairsEqual
    <3>4. Authority!Undelegate(h, d)
      BY <2>5, <3>3, <1>b, <1>c DEF Authority!Undelegate
    <3>5. QED
      BY <2>1, <3>4 DEF Authority!Next
  <2>6. CASE IssuerOf(h) = d
    <3>1. OnlyGroupIssuerOrDelegate(h, d)' <=> OnlyGroupIssuerOrDelegate(h, d)
      BY <2>2, <2>6, <1>b DEF OnlyGroupIssuerOrDelegate
    <3>2. Authorised' = Authorised
      BY <2>4, <3>1, AuthorisedPairs, PairsEqual
    <3>3. QED
      BY <3>2, <1>b DEF Authority!vars
  <2>7. QED
    BY <2>5, <2>6
<1>8. QED
  BY <1>4, <1>5, <1>6, <1>7 DEF IssuerStep

LEMMA RefineGroupStep ==
    ASSUME IndInv, NEW sender \in Accounts, GroupStep(sender)
    PROVE  [Authority!Next]_Authority!vars
<1> USE PassportAssumption, SemaphoreAssumption
<1>a. UNCHANGED <<issuerVars, delegateVars, credentials>>
  BY DEF GroupStep, CreateCredentialGroup, SetValidityPeriod, DeactivateGroup, credentialVars
<1>b. Holders' = Holders
  BY <1>a DEF Holders
<1>c. credentialGroups \in [GroupIds -> CredentialGroup]
  BY DEF IndInv, TypeOK
<1>1. CASE CreateCredentialGroup(sender)
  <2>1. /\ groupCounter \in GroupIds
        /\ approvedIssuers[sender]
        /\ credentialGroups' = [credentialGroups EXCEPT ![groupCounter] =
               [issuer |-> sender, memberCount |-> 0, active |-> TRUE, validityPeriod |-> 0]]
    BY <1>1 DEF CreateCredentialGroup, CreateGroup, GroupIds, IndInv, TypeOK, SemaphoreTypeOK
  <2>2. ASSUME NEW g \in GroupIds
        PROVE  /\ IssuerOf(g)' = IF g = groupCounter THEN sender ELSE IssuerOf(g)
               /\ credentialGroups'[g].active <=> g = groupCounter \/ credentialGroups[g].active
    BY <2>1, <1>c DEF IssuerOf
  <2>3. IssuerOf(groupCounter) = NoAccount
    BY <2>1 DEF IndInv, TypeOK, SemaphoreTypeOK, EpochsBehind
  <2>4. \A a \in Accounts : ~groupDelegates[groupCounter][a]
    BY <2>1, <2>3 DEF IndInv, EpochsBehind
  <2>5. ASSUME NEW g \in GroupIds, NEW a \in Accounts
        PROVE  OnlyGroupIssuerOrDelegate(g, a)' <=>
                  OnlyGroupIssuerOrDelegate(g, a) \/ (g = groupCounter /\ a = sender)
    <3>1. CASE g = groupCounter
      <4>1. IssuerOf(g)' = sender
        BY <2>2, <3>1
      <4>2. ~CurrentDelegate(g, a)'
        BY <2>4, <3>1, <1>a DEF CurrentDelegate, delegateVars
      <4>3. IssuerApproved(g)'
        BY <2>1, <4>1, <1>a DEF IssuerApproved, issuerVars
      <4>4. ~OnlyGroupIssuerOrDelegate(g, a)
        BY <2>3, <3>1 DEF OnlyGroupIssuerOrDelegate, IssuerApproved
      <4>5. QED
        BY <3>1, <4>1, <4>2, <4>3, <4>4 DEF OnlyGroupIssuerOrDelegate
    <3>2. CASE g # groupCounter
      <4>1. IssuerOf(g)' = IssuerOf(g)
        BY <2>2, <3>2
      <4>2. QED
        BY <3>2, <4>1, <1>a DEF OnlyGroupIssuerOrDelegate, IssuerApproved, CurrentDelegate,
                               issuerVars, delegateVars
    <3>3. QED
      BY <3>1, <3>2
  <2>6. Authorised' = Authorised \cup {<<groupCounter, sender>>}
    <3>1. Authorised \cup {<<groupCounter, sender>>} \subseteq GroupIds \X Accounts
      BY <2>1, AuthorisedPairs
    <3>2. QED
      BY <3>1, <2>5, AuthorisedPairs, PairsEqual
  <2>7. GroupIssuers' = [GroupIssuers EXCEPT ![groupCounter] = sender]
    BY <2>1, <2>2 DEF GroupIssuers
  <2>8. OpenGroups' = OpenGroups \cup {groupCounter}
    BY <2>1, <2>2 DEF OpenGroups
  <2>9. Authority!Create(sender, groupCounter)
    BY <2>1, <2>3, <2>6, <2>7, <2>8, <1>b DEF Authority!Create, GroupIssuers
  <2>10. QED
    BY <2>1, <2>9 DEF Authority!Next
<1>2. CASE \E g \in GroupIds, v \in ValidityPeriods : SetValidityPeriod(sender, g, v)
  <2> PICK h \in GroupIds, v \in ValidityPeriods : SetValidityPeriod(sender, h, v)
    BY <1>2
  <2>1. credentialGroups' = [credentialGroups EXCEPT ![h].validityPeriod = v]
    BY DEF SetValidityPeriod
  <2>2. \A g \in GroupIds : /\ credentialGroups'[g].issuer = credentialGroups[g].issuer
                           /\ credentialGroups'[g].active = credentialGroups[g].active
    BY <2>1, <1>c DEF CredentialGroup
  <2>3. UNCHANGED <<GroupIssuers, Authorised>>
    BY <2>2, <1>a, AuthorityFrame DEF IssuerOf
  <2>4. OpenGroups' = OpenGroups
    BY <2>2 DEF OpenGroups
  <2>5. QED
    BY <2>3, <2>4, <1>b DEF Authority!vars
<1>3. CASE \E g \in GroupIds : DeactivateGroup(sender, g)
  <2> PICK h \in GroupIds : DeactivateGroup(sender, h)
    BY <1>3
  <2>1. credentialGroups' = [credentialGroups EXCEPT ![h].active = FALSE]
    BY DEF DeactivateGroup
  <2>2. \A g \in GroupIds : /\ credentialGroups'[g].issuer = credentialGroups[g].issuer
                           /\ IF g = h THEN ~credentialGroups'[g].active
                              ELSE credentialGroups'[g].active = credentialGroups[g].active
    BY <2>1, <1>c DEF CredentialGroup
  <2>3. UNCHANGED <<GroupIssuers, Authorised>>
    BY <2>2, <1>a, AuthorityFrame DEF IssuerOf
  <2>4. OpenGroups' = OpenGroups \ {h}
    BY <2>2 DEF OpenGroups
  <2>5. Authority!Close(h)
    BY <2>3, <2>4, <1>b DEF Authority!Close
  <2>6. QED
    BY <2>5 DEF Authority!Next
<1>4. QED
  BY <1>1, <1>2, <1>3 DEF GroupStep

(* The shared body of the two issuance functions, by somebody authorised. *)
LEMMA RefineIssue ==
    ASSUME IndInv, NEW sender \in Accounts, NEW g \in GroupIds, NEW b \in Seq(Commitments),
           b # << >>, OnlyGroupIssuerOrDelegate(g, sender), credentialGroups[g].active,
           \A c \in LeavesOf(b) : ~credentials[g][c], Issue(g, b)
    PROVE  Authority!Next
<1>1. LeavesOf(b) \in SUBSET Commitments /\ LeavesOf(b) # {}
  <2>1. b[1] \in LeavesOf(b)
    BY DEF LeavesOf
  <2>2. QED
    BY <2>1 DEF LeavesOf
<1>2. /\ credentials' = [credentials EXCEPT ![g] =
            [c \in Commitments |-> @[c] \/ c \in LeavesOf(b)]]
      /\ credentialGroups' = [credentialGroups EXCEPT ![g].memberCount = @ + Len(b)]
      /\ UNCHANGED <<issuerVars, delegateVars>>
  BY DEF Issue
<1>3. \A h \in GroupIds : /\ credentialGroups'[h].issuer = credentialGroups[h].issuer
                         /\ credentialGroups'[h].active = credentialGroups[h].active
  BY <1>2 DEF IndInv, TypeOK, CredentialGroup
<1>4. UNCHANGED <<GroupIssuers, Authorised>>
  BY <1>2, <1>3, AuthorityFrame DEF IssuerOf
<1>5. OpenGroups' = OpenGroups
  BY <1>3 DEF OpenGroups
<1>6. Holders' = [Holders EXCEPT ![g] = @ \cup LeavesOf(b)]
  <2>1. credentials \in [GroupIds -> [Commitments -> BOOLEAN]]
    BY DEF IndInv, TypeOK
  <2>2. \A h \in GroupIds, c \in Commitments :
           credentials'[h][c] <=> credentials[h][c] \/ (h = g /\ c \in LeavesOf(b))
    <3> SUFFICES ASSUME NEW h \in GroupIds, NEW c \in Commitments
                 PROVE  credentials'[h][c] <=>
                           credentials[h][c] \/ (h = g /\ c \in LeavesOf(b))
      OBVIOUS
    <3>1. CASE h = g
      BY <3>1, <1>2, <2>1
    <3>2. CASE h # g
      BY <3>2, <1>2, <2>1
    <3>3. QED
      BY <3>1, <3>2
  <2>3. \A h \in GroupIds : {c \in Commitments : credentials'[h][c]} =
           IF h = g THEN {c \in Commitments : credentials[h][c]} \cup LeavesOf(b)
                    ELSE {c \in Commitments : credentials[h][c]}
    BY <2>2, <1>1
  <2>4. QED
    BY <2>3 DEF Holders
<1>7. \E a \in Accounts : <<g, a>> \in Authorised
  BY AuthorisedPairs
<1>8. g \in OpenGroups /\ LeavesOf(b) \cap Holders[g] = {}
  BY DEF OpenGroups, Holders
<1>9. Authority!Issue(g, LeavesOf(b))
  BY <1>1, <1>4, <1>5, <1>6, <1>7, <1>8 DEF Authority!Issue
<1>10. QED
  BY <1>1, <1>9 DEF Authority!Next

LEMMA RefineCredentialStep ==
    ASSUME IndInv, NEW sender \in Accounts, CredentialStep(sender)
    PROVE  Authority!Next
<1>1. CASE \E g \in GroupIds, c \in Commitments : IssueCredential(sender, g, c)
  <2> PICK g \in GroupIds, c \in Commitments : IssueCredential(sender, g, c)
    BY <1>1
  <2>1. <<c>> \in Seq(Commitments) /\ <<c>> # << >> /\ LeavesOf(<<c>>) = {c}
    BY DEF LeavesOf
  <2>2. QED
    BY <2>1, RefineIssue DEF IssueCredential
<1>2. CASE \E g \in GroupIds, b \in Batches : BatchIssueCredentials(sender, g, b)
  <2> PICK g \in GroupIds, b \in Batches : BatchIssueCredentials(sender, g, b)
    BY <1>2
  <2>1. b \in Seq(Commitments) /\ b # << >>
    BY BatchType
  <2>2. QED
    BY <2>1, RefineIssue DEF BatchIssueCredentials
<1>3. CASE \E g \in GroupIds, c \in Commitments : RevokeCredential(sender, g, c)
  <2> PICK g \in GroupIds, d \in Commitments : RevokeCredential(sender, g, d)
    BY <1>3
  <2>1. /\ credentials[g][d]
        /\ credentials' = [credentials EXCEPT ![g][d] = FALSE]
        /\ credentialGroups' = [credentialGroups EXCEPT ![g].memberCount = @ - 1]
        /\ UNCHANGED <<issuerVars, delegateVars>>
    BY DEF RevokeCredential
  <2>2. \A h \in GroupIds : /\ credentialGroups'[h].issuer = credentialGroups[h].issuer
                           /\ credentialGroups'[h].active = credentialGroups[h].active
    BY <2>1 DEF IndInv, TypeOK, CredentialGroup
  <2>3. UNCHANGED <<GroupIssuers, Authorised>>
    BY <2>1, <2>2, AuthorityFrame DEF IssuerOf
  <2>4. OpenGroups' = OpenGroups
    BY <2>2 DEF OpenGroups
  <2>5. credentials \in [GroupIds -> [Commitments -> BOOLEAN]]
    BY DEF IndInv, TypeOK
  <2>6. \A h \in GroupIds, c \in Commitments :
           credentials'[h][c] <=> credentials[h][c] /\ ~(h = g /\ c = d)
    <3> SUFFICES ASSUME NEW h \in GroupIds, NEW c \in Commitments
                 PROVE  credentials'[h][c] <=> credentials[h][c] /\ ~(h = g /\ c = d)
      OBVIOUS
    <3>1. CASE h = g /\ c = d
      BY <3>1, <2>1, <2>5
    <3>2. CASE ~(h = g /\ c = d)
      BY <3>2, <2>1, <2>5
    <3>3. QED
      BY <3>1, <3>2
  <2>7. \A h \in GroupIds : {c \in Commitments : credentials'[h][c]} =
           IF h = g THEN {c \in Commitments : credentials[h][c]} \ {d}
                    ELSE {c \in Commitments : credentials[h][c]}
    BY <2>6
  <2>8. Holders' = [Holders EXCEPT ![g] = @ \ {d}]
    BY <2>7 DEF Holders
  <2>9. d \in Holders[g]
    BY <2>1 DEF Holders
  <2>10. Authority!Revoke(g, d)
    BY <2>3, <2>4, <2>8, <2>9 DEF Authority!Revoke
  <2>11. QED
    BY <2>10 DEF Authority!Next
<1>4. QED
  BY <1>1, <1>2, <1>3 DEF CredentialStep

LEMMA RefineNoStep ==
    ASSUME UNCHANGED <<issuerVars, delegateVars, credentialGroups, credentials>>
    PROVE  UNCHANGED Authority!vars
<1>1. UNCHANGED <<GroupIssuers, Authorised>>
  BY AuthorityFrame DEF IssuerOf
<1>2. QED
  BY <1>1 DEF Authority!vars, OpenGroups, Holders

(* Epochs, flags and trees implement the authority a reader expects: removing *)
(* an issuer ends every authority over its groups and approving it again      *)
(* restores the issuer's alone, whatever its delegations were.                *)
THEOREM AuthorityRefined == Spec => AuthoritySpec
<1>1. Init => Authority!Init
  BY RefineInit
<1>2. IndInv /\ [Next]_vars => [Authority!Next]_Authority!vars
  <2> SUFFICES ASSUME IndInv, [Next]_vars PROVE [Authority!Next]_Authority!vars
    OBVIOUS
  <2>1. CASE UNCHANGED vars
    BY <2>1, RefineNoStep DEF vars, credentialVars
  <2>2. CASE Tick
    BY <2>2, RefineNoStep DEF Tick, credentialVars
  <2>3. ASSUME NEW sender \in Accounts, RoleStep(sender) PROVE UNCHANGED Authority!vars
    BY <2>3, RefineNoStep DEF RoleStep, TransferOwnership, AcceptOwnership, SetPauser, Pause,
                             Unpause, PauseIssuer, UnpauseIssuer, credentialVars
  <2>4. CASE \E g \in GroupIds : \E p \in BuildableProofs(g) : ValidateCredential(g, p)
    BY <2>4, RefineNoStep DEF ValidateCredential, credentialVars
  <2>5. QED
    BY <2>1, <2>2, <2>3, <2>4, RefineIssuerStep, RefineGroupStep, RefineCredentialStep DEF Next
<1>3. QED
  BY <1>1, <1>2, Invariance, PTL DEF Spec, AuthoritySpec, Authority!Spec
=============================================================================
