--------------------- MODULE HSKPassportFreshnessProofs ---------------------
(***************************************************************************)
(* The ring buffer of FreshnessRegistry is a rolling window, for every     *)
(* ROOT_HISTORY_SIZE and any number of posts; and replay protection and    *)
(* provenance of freshness proofs, for every set of provers, scopes and    *)
(* groups.                                                                 *)
(***************************************************************************)
EXTENDS HSKPassportFreshness, TLAPS

-----------------------------------------------------------------------------
(* FreshnessRegistry. *)

LEMMA SmallMod == ASSUME NEW x \in Nat, NEW n \in Nat \ {0}, x < n PROVE x % n = x
  OBVIOUS

(* Incrementing modulo the size is incrementing, or going back to 0. *)
LEMMA AdvanceWraps ==
    ASSUME NEW idx \in Slots
    PROVE  Advance(idx) = IF idx + 1 = RootHistorySize THEN 0 ELSE idx + 1
<1>1. RootHistorySize \in Nat \ {0} /\ idx \in Nat /\ idx + 1 <= RootHistorySize
  BY RegistryAssumption DEF Slots
<1>2. CASE idx + 1 = RootHistorySize
  <2>1. RootHistorySize % RootHistorySize = 0
    BY <1>1
  <2>2. QED
    BY <1>2, <2>1 DEF Advance
<1>3. CASE idx + 1 < RootHistorySize
  <2> DEFINE next == idx + 1
  <2>1. next \in Nat /\ next < RootHistorySize
    BY <1>1, <1>3
  <2> HIDE DEF next
  <2>2. next % RootHistorySize = next
    BY <1>1, <2>1, SmallMod
  <2>3. Advance(idx) = next
    BY <2>2 DEF Advance, next
  <2>4. QED
    BY <1>1, <1>3, <2>3 DEF next
<1>4. QED
  BY <1>1, <1>2, <1>3

(* The slots written 1, 2, ... posts ago are all the slots, each once. *)
LEMMA SlotsBack ==
    ASSUME NEW idx \in Slots
    PROVE  /\ \A k \in 1..RootHistorySize : SlotBack(idx, k) \in Slots
           /\ \A i \in Slots : \E k \in 1..RootHistorySize : SlotBack(idx, k) = i
<1>1. RootHistorySize \in Nat \ {0} /\ idx \in Nat /\ idx < RootHistorySize
  BY RegistryAssumption DEF Slots
<1>2. \A k \in 1..RootHistorySize : SlotBack(idx, k) \in Slots
  BY <1>1 DEF SlotBack, Slots
<1>3. ASSUME NEW i \in Slots PROVE \E k \in 1..RootHistorySize : SlotBack(idx, k) = i
  <2>1. i \in Nat /\ i < RootHistorySize
    BY <1>1 DEF Slots
  <2>2. CASE i < idx
    <3>1. idx - i \in 1..RootHistorySize /\ SlotBack(idx, idx - i) = i
      BY <1>1, <2>1, <2>2 DEF SlotBack
    <3>2. QED
      BY <3>1
  <2>3. CASE i >= idx
    <3>1. /\ idx - i + RootHistorySize \in 1..RootHistorySize
          /\ SlotBack(idx, idx - i + RootHistorySize) = i
      BY <1>1, <2>1, <2>3 DEF SlotBack
    <3>2. QED
      BY <3>1
  <2>4. QED
    BY <1>1, <2>1, <2>2, <2>3
<1>4. QED
  BY <1>2, <1>3

(* One write shifts every position by one and puts the new root first. *)
LEMMA SlotsShift ==
    ASSUME NEW idx \in Slots, NEW k \in 1..RootHistorySize
    PROVE  /\ Advance(idx) \in Slots
           /\ k = 1 => SlotBack(Advance(idx), k) = idx
           /\ k > 1 => /\ SlotBack(Advance(idx), k) = SlotBack(idx, k - 1)
                       /\ SlotBack(idx, k - 1) # idx
<1>1. RootHistorySize \in Nat \ {0} /\ idx \in Nat /\ idx < RootHistorySize /\ k \in Nat
  BY RegistryAssumption DEF Slots
<1>2. k >= 1 /\ k <= RootHistorySize
  BY <1>1
<1>3. Advance(idx) = IF idx + 1 = RootHistorySize THEN 0 ELSE idx + 1
  BY AdvanceWraps
<1>4. QED
  BY <1>1, <1>2, <1>3 DEF Slots, SlotBack

LEMMA RegistryInitInv == RegistryInit => RegistryIndInv
<1> SUFFICES ASSUME RegistryInit PROVE RegistryIndInv
  OBVIOUS
<1> USE RegistryAssumption
<1>1. 0 \in Slots
  BY DEF Slots
<1>2. RegistryTypeOK
  <2>1. groupIssuer \in [Groups -> [Accounts -> BOOLEAN]]
    BY DEF RegistryInit
  <2>2. << >> \in Seq(Roots)
    OBVIOUS
  <2>3. QED
    BY <1>1, <2>1, <2>2 DEF RegistryInit, RegistryTypeOK
<1>3. RingInv
  <2> SUFFICES ASSUME NEW g \in Groups
               PROVE /\ leafCount[g] = Len(posted[g])
                     /\ currentRoot[g] = IF posted[g] = << >> THEN NoRoot
                                         ELSE posted[g][Len(posted[g])]
                     /\ \A k \in 1..RootHistorySize :
                           rootBuffer[g][SlotBack(rootBufferIndex[g], k)] =
                              IF k <= Len(posted[g]) THEN posted[g][Len(posted[g]) - k + 1]
                              ELSE NoRoot
    BY DEF RingInv
  <2>1. posted[g] = << >> /\ Len(posted[g]) = 0 /\ rootBufferIndex[g] = 0
    BY DEF RegistryInit
  <2>2. \A i \in Slots : rootBuffer[g][i] = NoRoot
    BY DEF RegistryInit
  <2>3. \A k \in 1..RootHistorySize : SlotBack(0, k) \in Slots
    BY <1>1, SlotsBack
  <2>4. QED
    BY <2>1, <2>2, <2>3 DEF RegistryInit
<1>4. QED
  BY <1>2, <1>3 DEF RegistryIndInv

(* Posting a root keeps the ring buffer in step with the event log. *)
LEMMA AddLeafInv ==
    ASSUME RegistryIndInv, NEW sender \in Accounts, NEW h \in Groups, NEW r \in Roots,
           AddLeaf(sender, h, r)
    PROVE  RegistryIndInv'
<1> USE RegistryAssumption
<1>1. /\ rootBuffer' = [rootBuffer EXCEPT ![h][rootBufferIndex[h]] = r]
      /\ rootBufferIndex' = [rootBufferIndex EXCEPT ![h] = Advance(rootBufferIndex[h])]
      /\ currentRoot' = [currentRoot EXCEPT ![h] = r]
      /\ leafCount' = [leafCount EXCEPT ![h] = leafCount[h] + 1]
      /\ posted' = [posted EXCEPT ![h] = Append(posted[h], r)]
      /\ UNCHANGED <<registryOwner, registryPendingOwner, groupIssuer>>
  BY DEF AddLeaf
<1>2. /\ rootBuffer \in [Groups -> [Slots -> Roots \cup {NoRoot}]]
      /\ rootBufferIndex \in [Groups -> Slots]
      /\ currentRoot \in [Groups -> Roots \cup {NoRoot}]
      /\ leafCount \in [Groups -> Nat]
      /\ posted \in [Groups -> Seq(Roots)]
  BY DEF RegistryIndInv, RegistryTypeOK
<1>3. rootBufferIndex[h] \in Slots /\ Advance(rootBufferIndex[h]) \in Slots
  <2>1. 1 \in 1..RootHistorySize
    OBVIOUS
  <2>2. QED
    BY <1>2, <2>1, SlotsShift
<1>4. Append(posted[h], r) \in Seq(Roots)
  BY <1>2
<1>5. RegistryTypeOK'
  <2>1. rootBuffer' \in [Groups -> [Slots -> Roots \cup {NoRoot}]]
    BY <1>1, <1>2, <1>3
  <2>2. /\ rootBufferIndex' \in [Groups -> Slots]
        /\ currentRoot' \in [Groups -> Roots \cup {NoRoot}]
        /\ leafCount' \in [Groups -> Nat]
        /\ posted' \in [Groups -> Seq(Roots)]
    BY <1>1, <1>2, <1>3, <1>4
  <2>3. QED
    BY <1>1, <2>1, <2>2 DEF RegistryIndInv, RegistryTypeOK
<1>6. RingInv'
  <2> SUFFICES ASSUME NEW g \in Groups
               PROVE /\ leafCount'[g] = Len(posted'[g])
                     /\ currentRoot'[g] = IF posted'[g] = << >> THEN NoRoot
                                          ELSE posted'[g][Len(posted'[g])]
                     /\ \A k \in 1..RootHistorySize :
                           rootBuffer'[g][SlotBack(rootBufferIndex'[g], k)] =
                              IF k <= Len(posted'[g]) THEN posted'[g][Len(posted'[g]) - k + 1]
                              ELSE NoRoot
    BY DEF RingInv
  <2>1. CASE g # h
    <3>1. UNCHANGED <<rootBuffer[g], rootBufferIndex[g], currentRoot[g], leafCount[g], posted[g]>>
      BY <1>1, <1>2, <2>1
    <3>2. QED
      BY <3>1 DEF RegistryIndInv, RingInv
  <2>2. CASE g = h
    <3>1. /\ posted'[g] = Append(posted[g], r)
          /\ Len(posted[g]) \in Nat
          /\ Len(posted'[g]) = Len(posted[g]) + 1
          /\ posted'[g][Len(posted[g]) + 1] = r
          /\ \A j \in 1..Len(posted[g]) : posted'[g][j] = posted[g][j]
          /\ posted'[g] # << >>
      <4>1. posted'[g] = Append(posted[g], r) /\ posted[g] \in Seq(Roots)
        BY <1>1, <1>2, <2>2
      <4>2. Len(posted[g]) \in Nat /\ Len(Append(posted[g], r)) = Len(posted[g]) + 1
        BY <4>1
      <4>3. \A j \in 1..(Len(posted[g]) + 1) :
               Append(posted[g], r)[j] = IF j <= Len(posted[g]) THEN posted[g][j] ELSE r
        BY <4>1, <4>2
      <4>4. Append(posted[g], r) # << >>
        BY <4>1
      <4>5. QED
        BY <4>1, <4>2, <4>3, <4>4
    <3>2. leafCount'[g] = Len(posted'[g]) /\ currentRoot'[g] = posted'[g][Len(posted'[g])]
      BY <1>1, <1>2, <2>2, <3>1 DEF RegistryIndInv, RingInv
    <3>3. ASSUME NEW k \in 1..RootHistorySize
          PROVE  rootBuffer'[g][SlotBack(rootBufferIndex'[g], k)] =
                    IF k <= Len(posted'[g]) THEN posted'[g][Len(posted'[g]) - k + 1]
                    ELSE NoRoot
      <4>1. rootBufferIndex'[g] = Advance(rootBufferIndex[g])
        BY <1>1, <1>2, <2>2
      <4>2. CASE k = 1
        <5>1. SlotBack(rootBufferIndex'[g], k) = rootBufferIndex[g]
          BY <1>3, <2>2, <4>1, <4>2, SlotsShift
        <5>2. rootBuffer'[g][rootBufferIndex[g]] = r
          BY <1>1, <1>2, <1>3, <2>2
        <5>3. QED
          BY <3>1, <4>2, <5>1, <5>2
      <4>3. CASE k > 1
        <5>1. /\ SlotBack(rootBufferIndex'[g], k) = SlotBack(rootBufferIndex[g], k - 1)
              /\ SlotBack(rootBufferIndex[g], k - 1) # rootBufferIndex[g]
          BY <1>3, <2>2, <4>1, <4>3, SlotsShift
        <5>2. k - 1 \in 1..RootHistorySize /\ k \in Nat
          BY <4>3
        <5>3. SlotBack(rootBufferIndex[g], k - 1) \in Slots
          BY <1>3, <2>2, <5>2, SlotsBack
        <5>4. rootBuffer'[g][SlotBack(rootBufferIndex[g], k - 1)] =
                 rootBuffer[g][SlotBack(rootBufferIndex[g], k - 1)]
          BY <1>1, <1>2, <1>3, <2>2, <5>1, <5>3
        <5>5. rootBuffer[g][SlotBack(rootBufferIndex[g], k - 1)] =
                 IF k - 1 <= Len(posted[g]) THEN posted[g][Len(posted[g]) - (k - 1) + 1]
                 ELSE NoRoot
          BY <5>2 DEF RegistryIndInv, RingInv
        <5>6. CASE k - 1 <= Len(posted[g])
          <6>1. /\ Len(posted[g]) - (k - 1) + 1 \in 1..Len(posted[g])
                /\ Len(posted'[g]) - k + 1 = Len(posted[g]) - (k - 1) + 1
                /\ k <= Len(posted'[g])
            BY <3>1, <4>3, <5>2, <5>6
          <6>2. QED
            BY <3>1, <5>1, <5>4, <5>5, <5>6, <6>1
        <5>7. CASE ~(k - 1 <= Len(posted[g]))
          <6>1. ~(k <= Len(posted'[g]))
            BY <3>1, <5>2, <5>7
          <6>2. QED
            BY <5>1, <5>4, <5>5, <5>7, <6>1
        <5>8. QED
          BY <5>6, <5>7
      <4>4. QED
        BY <4>2, <4>3
    <3>4. QED
      BY <3>1, <3>2, <3>3
  <2>3. QED
    BY <2>1, <2>2
<1>7. QED
  BY <1>5, <1>6 DEF RegistryIndInv

(* Ownership and authorisation steps leave the ring buffer alone. *)
LEMMA GovernanceInv ==
    ASSUME RegistryIndInv, NEW sender \in Accounts,
           \/ \E g \in Groups, i \in Accounts : AuthorizeIssuer(sender, g, i)
           \/ \E g \in Groups, i \in Accounts : RevokeIssuer(sender, g, i)
           \/ \E a \in Accounts \cup {NoAccount} : TransferOwnership(sender, a)
           \/ AcceptOwnership(sender)
    PROVE  RegistryIndInv'
<1>1. UNCHANGED ringVars
  BY DEF AuthorizeIssuer, RevokeIssuer, TransferOwnership, AcceptOwnership
<1>2. RingInv'
  BY <1>1 DEF RegistryIndInv, RingInv, ringVars
<1>3. groupIssuer' \in [Groups -> [Accounts -> BOOLEAN]]
  <2>1. groupIssuer \in [Groups -> [Accounts -> BOOLEAN]]
    BY DEF RegistryIndInv, RegistryTypeOK
  <2>2. CASE \E g \in Groups, i \in Accounts : AuthorizeIssuer(sender, g, i)
    BY <2>1, <2>2 DEF AuthorizeIssuer
  <2>3. CASE \E g \in Groups, i \in Accounts : RevokeIssuer(sender, g, i)
    BY <2>1, <2>3 DEF RevokeIssuer
  <2>4. CASE UNCHANGED groupIssuer
    BY <2>1, <2>4
  <2>5. QED
    BY <2>2, <2>3, <2>4 DEF TransferOwnership, AcceptOwnership
<1>4. registryOwner' \in Accounts /\ registryPendingOwner' \in Accounts \cup {NoAccount}
  BY RegistryAssumption
     DEF AuthorizeIssuer, RevokeIssuer, TransferOwnership, AcceptOwnership, RegistryIndInv,
         RegistryTypeOK
<1>5. RegistryTypeOK'
  BY <1>1, <1>3, <1>4 DEF RegistryIndInv, RegistryTypeOK, ringVars
<1>6. QED
  BY <1>2, <1>5 DEF RegistryIndInv

(* The types and the slot-by-slot content of the ring buffers are invariant. *)
THEOREM RegistryInvariance == RegistrySpec => []RegistryIndInv
<1>1. RegistryInit => RegistryIndInv
  BY RegistryInitInv
<1>2. RegistryIndInv /\ [RegistryNext]_registryVars => RegistryIndInv'
  <2> SUFFICES ASSUME RegistryIndInv, [RegistryNext]_registryVars PROVE RegistryIndInv'
    OBVIOUS
  <2>1. CASE UNCHANGED registryVars
    BY <2>1 DEF RegistryIndInv, RegistryTypeOK, RingInv, registryVars, ringVars
  <2>2. CASE RegistryNext
    BY <2>2, AddLeafInv, GovernanceInv DEF RegistryNext, RegistryStep
  <2>3. QED
    BY <2>1, <2>2
<1>3. QED
  BY <1>1, <1>2, PTL DEF RegistrySpec

(* What the ring buffer holds is what was posted in the last                 *)
(* ROOT_HISTORY_SIZE events.                                                 *)
LEMMA RingIsWindow == RegistryIndInv => WindowExact
<1> SUFFICES ASSUME RegistryIndInv, NEW g \in Groups, NEW r \in Roots
             PROVE  IsKnownRoot(g, r) <=> r \in LastPosted(g)
  BY DEF WindowExact
<1> DEFINE n == Len(posted[g])
           idx == rootBufferIndex[g]
<1>1. posted[g] \in Seq(Roots) /\ n \in Nat /\ DOMAIN posted[g] = 1..n /\ idx \in Slots
  BY DEF RegistryIndInv, RegistryTypeOK
<1>2. RootHistorySize \in Nat \ {0} /\ r # NoRoot
  BY RegistryAssumption
<1>3. \A k \in 1..RootHistorySize :
         rootBuffer[g][SlotBack(idx, k)] = IF k <= n THEN posted[g][n - k + 1] ELSE NoRoot
  BY DEF RegistryIndInv, RingInv
<1>4. ASSUME NEW i \in Slots, rootBuffer[g][i] = r PROVE r \in LastPosted(g)
  <2>1. PICK k \in 1..RootHistorySize : SlotBack(idx, k) = i
    BY <1>1, SlotsBack
  <2>2. k <= n /\ r = posted[g][n - k + 1]
    BY <1>2, <1>3, <1>4, <2>1
  <2>3. n - k + 1 \in DOMAIN posted[g] /\ n - k + 1 > n - RootHistorySize
    BY <1>1, <1>2, <2>2
  <2>4. QED
    BY <2>2, <2>3 DEF LastPosted
<1>5. ASSUME r = currentRoot[g] PROVE r \in LastPosted(g)
  <2>1. posted[g] # << >> /\ r = posted[g][n]
    BY <1>2, <1>5 DEF RegistryIndInv, RingInv
  <2>2. n \in DOMAIN posted[g] /\ n > n - RootHistorySize
    BY <1>1, <1>2, <2>1
  <2>3. QED
    BY <2>1, <2>2 DEF LastPosted
<1>6. ASSUME r \in LastPosted(g) PROVE \E i \in Slots : rootBuffer[g][i] = r
  <2>1. PICK j \in DOMAIN posted[g] : j > n - RootHistorySize /\ r = posted[g][j]
    BY <1>6 DEF LastPosted
  <2>2. n - j + 1 \in 1..RootHistorySize /\ n - j + 1 <= n /\ n - (n - j + 1) + 1 = j
    BY <1>1, <1>2, <2>1
  <2>3. rootBuffer[g][SlotBack(idx, n - j + 1)] = r
    BY <1>3, <2>1, <2>2
  <2>4. SlotBack(idx, n - j + 1) \in Slots
    BY <1>1, <2>2, SlotsBack
  <2>5. QED
    BY <2>3, <2>4
<1>7. QED
  BY <1>2, <1>4, <1>5, <1>6 DEF IsKnownRoot

(* isKnownRoot accepts exactly the roots of the last ROOT_HISTORY_SIZE posts. *)
THEOREM RegistryWindow == RegistrySpec => []WindowExact
  BY RegistryInvariance, RingIsWindow, PTL

-----------------------------------------------------------------------------
(* HSKPassportFreshness. *)

(* The event log of the registry only ever grows at its end. *)
LEMMA PostedGrows ==
    ASSUME RegistryIndInv, [RegistryNext]_registryVars, NEW g \in Groups,
           NEW k \in DOMAIN posted[g]
    PROVE  k \in DOMAIN posted'[g] /\ posted'[g][k] = posted[g][k]
<1> USE DEF registryVars, ringVars
<1>1. posted \in [Groups -> Seq(Roots)]
  BY DEF RegistryIndInv, RegistryTypeOK
<1>2. CASE UNCHANGED posted
  BY <1>2
<1>3. CASE \E sender \in Accounts, h \in Groups, r \in Roots : AddLeaf(sender, h, r)
  <2> PICK h \in Groups, r \in Roots : posted' = [posted EXCEPT ![h] = Append(@, r)]
    BY <1>3 DEF AddLeaf
  <2>1. CASE g # h
    BY <1>1, <2>1
  <2>2. CASE g = h
    <3>1. posted'[g] = Append(posted[g], r) /\ posted[g] \in Seq(Roots)
      BY <1>1, <2>2
    <3>2. k \in 1..Len(posted[g]) /\ Len(posted[g]) \in Nat
      BY <3>1
    <3>3. /\ DOMAIN Append(posted[g], r) = 1..(Len(posted[g]) + 1)
          /\ Append(posted[g], r)[k] = posted[g][k]
      BY <3>1, <3>2
    <3>4. QED
      BY <3>1, <3>2, <3>3
  <2>3. QED
    BY <2>1, <2>2
<1>4. QED
  BY <1>2, <1>3
     DEF RegistryNext, RegistryStep, AuthorizeIssuer, RevokeIssuer, TransferOwnership,
         AcceptOwnership

LEMMA FreshnessInit == Init => IndInv
<1> SUFFICES ASSUME Init PROVE IndInv
  OBVIOUS
<1>1. RegistryIndInv
  BY RegistryInitInv DEF Init
<1>2. QED
  BY <1>1 DEF Init, IndInv, TypeOK, RegistryIndInv, OneProofPerScope, BackedByItsGroup

(* A step of the registry keeps the events backed by the log. *)
LEMMA RegistryKeeps ==
    ASSUME IndInv, [RegistryNext]_registryVars, UNCHANGED freshnessVars
    PROVE  IndInv'
<1>1. RegistryIndInv
  BY DEF IndInv, TypeOK, RegistryIndInv
<1>2. RegistryIndInv'
  <2>1. CASE UNCHANGED registryVars
    BY <1>1, <2>1 DEF RegistryIndInv, RegistryTypeOK, RingInv, registryVars, ringVars
  <2>2. CASE RegistryNext
    BY <1>1, <2>2, AddLeafInv, GovernanceInv DEF RegistryNext, RegistryStep
  <2>3. QED
    BY <2>1, <2>2
<1>3. UNCHANGED verified /\ UNCHANGED nullifierConsumed
  BY DEF freshnessVars
<1>4. BackedByItsGroup'
  <2> SUFFICES ASSUME NEW e \in verified
               PROVE  \E k \in DOMAIN posted'[e[1]] :
                         /\ posted'[e[1]][k] = e[2].root
                         /\ \E t \in Times :
                               <<e[2].secret, t>> \in LeavesUnder[e[2].root] /\ t >= e[2].earliest
    BY <1>3 DEF BackedByItsGroup
  <2>1. e[1] \in Groups
    BY DEF IndInv, TypeOK
  <2>2. PICK k \in DOMAIN posted[e[1]] :
           /\ posted[e[1]][k] = e[2].root
           /\ \E t \in Times :
                 <<e[2].secret, t>> \in LeavesUnder[e[2].root] /\ t >= e[2].earliest
    BY DEF IndInv, BackedByItsGroup
  <2>3. k \in DOMAIN posted'[e[1]] /\ posted'[e[1]][k] = posted[e[1]][k]
    BY <1>1, <2>1, PostedGrows
  <2>4. QED
    BY <2>2, <2>3
<1>5. QED
  BY <1>2, <1>3, <1>4 DEF IndInv, TypeOK, RegistryIndInv, OneProofPerScope

(* A verification uses a nullifier no event used, and a root of the log. *)
LEMMA VerifyFreshInv ==
    ASSUME IndInv, NEW g \in Groups, NEW p \in Proofs, VerifyFresh(g, p)
    PROVE  IndInv'
<1> USE DEF registryVars, ringVars
<1>1. /\ nullifierConsumed' = nullifierConsumed \cup {<<p.scope, Nullifier(p)>>}
      /\ verified' = verified \cup {<<g, p>>}
      /\ UNCHANGED registryVars
      /\ <<p.scope, Nullifier(p)>> \notin nullifierConsumed
      /\ IsKnownRoot(g, p.root)
      /\ Satisfies(p)
  BY DEF VerifyFresh, PreviewVerifyFresh
<1>2. TypeOK' /\ RingInv'
  <2>1. <<p.scope, Nullifier(p)>> \in Scopes \X (Secrets \X Scopes)
    BY DEF Proofs, Nullifier
  <2>2. RegistryTypeOK' /\ RingInv'
    BY <1>1 DEF IndInv, TypeOK, RegistryTypeOK, RingInv
  <2>3. QED
    BY <1>1, <2>1, <2>2 DEF IndInv, TypeOK
<1>3. nullifierConsumed' = {<<e[2].scope, Nullifier(e[2])>> : e \in verified'}
  <2> DEFINE used(e) == <<e[2].scope, Nullifier(e[2])>>
  <2>1. nullifierConsumed = {used(e) : e \in verified} /\ used(<<g, p>>) = <<p.scope, Nullifier(p)>>
    BY DEF IndInv
  <2> HIDE DEF used
  <2>2. nullifierConsumed \cup {used(<<g, p>>)} = {used(e) : e \in verified \cup {<<g, p>>}}
    BY <2>1
  <2>3. nullifierConsumed' = {used(e) : e \in verified'}
    BY <1>1, <2>1, <2>2
  <2>4. QED
    BY <2>3 DEF used
<1>4. OneProofPerScope'
  <2>1. ASSUME NEW e \in verified PROVE e[2].secret # p.secret \/ e[2].scope # p.scope
    BY <1>1 DEF IndInv, Nullifier
  <2>2. QED
    BY <1>1, <2>1 DEF IndInv, OneProofPerScope
<1>5. BackedByItsGroup'
  <2>1. p.root \in LastPosted(g)
    BY <1>1, RingIsWindow DEF IndInv, TypeOK, RegistryIndInv, WindowExact, Proofs
  <2>2. \E k \in DOMAIN posted[g] : posted[g][k] = p.root
    BY <2>1 DEF LastPosted
  <2>3. QED
    BY <1>1, <2>2 DEF IndInv, BackedByItsGroup, Satisfies
<1>6. QED
  BY <1>2, <1>3, <1>4, <1>5 DEF IndInv

THEOREM FreshnessInvariance == Spec => []IndInv
<1>1. IndInv /\ [Next]_vars => IndInv'
  BY RegistryKeeps, VerifyFreshInv DEF Next, vars
<1>2. QED
  BY <1>1, FreshnessInit, PTL DEF Spec

(* One secret is accepted once per scope.                                    *)
THEOREM ReplayProtected == Spec => []OneProofPerScope
<1>1. IndInv => OneProofPerScope
  BY DEF IndInv
<1>2. QED
  BY <1>1, FreshnessInvariance, PTL

(* No proof is accepted on a root its own group never posted.                *)
THEOREM ProofsBacked == Spec => []BackedByItsGroup
<1>1. IndInv => BackedByItsGroup
  BY DEF IndInv
<1>2. QED
  BY <1>1, FreshnessInvariance, PTL
=============================================================================
