------------------------ MODULE IssuerRegistryProofs ------------------------
(***************************************************************************)
(* The books of the IssuerRegistry, for any accounts, amounts, cooldown    *)
(* and requirements: the contract is solvent, and no exit passes a slash.  *)
(***************************************************************************)
EXTENDS IssuerRegistry, TLAPS, WellFoundedInduction

-----------------------------------------------------------------------------
(* Sums along a list.                                                      *)

(* Every non-empty set of natural numbers has a least element: induction,  *)
(* in the form the lemmas below use it.                                    *)
LEMMA LeastElement ==
    ASSUME NEW T, T \subseteq Nat, T # {}
    PROVE  \E n \in T : \A m \in T : n <= m
<1> DEFINE R == OpToRel(<, Nat)
<1>1. IsWellFoundedOn(R, Nat)
  BY NatLessThanWellFounded
<1>2. \A x, y \in Nat : x < y => <<x, y>> \in R
  BY DEF OpToRel
<1> HIDE DEF R
<1>3. PICK n \in T : \A y \in T : ~ (<<y, n>> \in R)
  BY <1>1, WFMin
<1>4. \A m \in T : ~ (m < n)
  BY <1>2, <1>3
<1> QED BY <1>4, <1>3

(* t sums the stakes along a list.                                         *)
Sums(t, list, rec) ==
    t = [n \in 0..Len(list) |-> IF n = 0 THEN 0 ELSE t[n - 1] + rec[list[n]].stake]

Records == [Issuers -> IssuerRecord]

LEMMA SumsAt ==
    ASSUME NEW list \in Seq(Issuers), NEW rec \in Records, NEW t, Sums(t, list, rec)
    PROVE  /\ DOMAIN t = 0..Len(list)
           /\ t[0] = 0
           /\ \A n \in 1..Len(list) : t[n] = t[n - 1] + rec[list[n]].stake
<1>1. Len(list) \in Nat
  OBVIOUS
<1>2. DOMAIN t = 0..Len(list)
  BY DEF Sums
<1>3. \A n \in 0..Len(list) : t[n] = IF n = 0 THEN 0 ELSE t[n - 1] + rec[list[n]].stake
  BY DEF Sums
<1> HIDE DEF Sums
<1> QED BY <1>1, <1>2, <1>3

(* There is such a sum.                                                    *)
LEMMA SumsExist ==
    ASSUME NEW list \in Seq(Issuers), NEW rec \in Records
    PROVE  \E t : Sums(t, list, rec)
<1> DEFINE Upto(t, k) == t = [n \in 0..k |-> IF n = 0 THEN 0 ELSE t[n - 1] + rec[list[n]].stake]
           Bad == {k \in Nat : k <= Len(list) /\ ~ \E t : Upto(t, k)}
<1>1. Len(list) \in Nat
  OBVIOUS
<1>2. SUFFICES Bad = {}
  BY <1>1 DEF Sums
<1>3. SUFFICES ASSUME Bad # {} PROVE FALSE
  OBVIOUS
<1>4. PICK k \in Bad : \A m \in Bad : k <= m
  <2>1. Bad \subseteq Nat
    OBVIOUS
  <2> HIDE DEF Bad
  <2> QED BY <1>3, <2>1, LeastElement
<1>5. CASE k = 0
  <2> DEFINE t == [n \in 0..0 |-> 0]
  <2>1. Upto(t, 0)
    OBVIOUS
  <2> QED BY <2>1, <1>4, <1>5
<1>6. CASE k # 0
  <2>10. k \in Nat /\ k <= Len(list)
    BY <1>4
  <2>11. k - 1 \in Nat /\ k - 1 <= Len(list) /\ ~ (k <= k - 1)
    BY <1>1, <1>6, <2>10
  <2>12. k - 1 \notin Bad
    <3> HIDE DEF Bad
    <3> QED BY <1>4, <2>11
  <2>1. k - 1 \in Nat /\ k - 1 <= Len(list) /\ k - 1 \notin Bad
    BY <2>11, <2>12
  <2>2. PICK t : Upto(t, k - 1)
    BY <2>1
  <2> DEFINE u == [n \in 0..k |-> IF n = k THEN t[k - 1] + rec[list[k]].stake ELSE t[n]]
  <2>3. \A n \in 0..k : n # k => n \in 0..(k - 1)
    BY <1>4
  <2>4. \A n \in 0..(k - 1) : t[n] = IF n = 0 THEN 0 ELSE t[n - 1] + rec[list[n]].stake
    BY <2>2, Zenon
  <2>5. \A n \in 0..k : u[n] = IF n = k THEN t[k - 1] + rec[list[k]].stake ELSE t[n]
    OBVIOUS
  <2>6. u[k - 1] = t[k - 1]
    BY <2>1, <1>4, <2>5
  <2>7. \A n \in 0..k : u[n] = IF n = 0 THEN 0 ELSE u[n - 1] + rec[list[n]].stake
    <3> TAKE n \in 0..k
    <3>1. CASE n = k
      BY <3>1, <2>5, <2>6, <1>6
    <3>2. CASE n # k /\ n = 0
      BY <3>2, <2>3, <2>4, <2>5
    <3>3. CASE n # k /\ n # 0
      <4>1. n \in 0..(k - 1) /\ n - 1 \in 0..k /\ n - 1 # k
        BY <3>3, <1>4
      <4>2. u[n] = t[n] /\ u[n - 1] = t[n - 1]
        BY <4>1, <3>3, <2>5
      <4> QED BY <4>1, <4>2, <2>4, <3>3
    <3> QED BY <3>1, <3>2, <3>3
  <2>8. u = [n \in 0..k |-> u[n]]
    OBVIOUS
  <2> HIDE DEF u
  <2>9. Upto(u, k)
    BY <2>7, <2>8
  <2> QED BY <2>9, <1>4
<1> QED BY <1>5, <1>6

LEMMA StakeOfFirstSums ==
    ASSUME issuerList \in Seq(Issuers), issuers \in Records
    PROVE  Sums(StakeOfFirst, issuerList, issuers)
<1>1. PICK t : Sums(t, issuerList, issuers)
  BY SumsExist
<1> QED BY <1>1, Zenon DEF StakeOfFirst, Sums

(* The same of the next state, whose list and records are named.           *)
LEMMA StakeOfFirstSumsNext ==
    ASSUME NEW list \in Seq(Issuers), NEW rec \in Records, issuerList' = list, issuers' = rec
    PROVE  \E u : u = StakeOfFirst' /\ Sums(u, list, rec)
<1>1. PICK t : Sums(t, issuerList', issuers')
  BY SumsExist
<1>2. Sums(StakeOfFirst', issuerList', issuers')
  BY <1>1, Zenon DEF StakeOfFirst, Sums
<1>3. PICK u : u = StakeOfFirst'
  OBVIOUS
<1>4. Sums(u, list, rec)
  BY <1>2, <1>3 DEF Sums
<1> QED BY <1>3, <1>4

(* Sums are natural numbers and grow along the list.                       *)
LEMMA SumsGrow ==
    ASSUME NEW list \in Seq(Issuers), NEW rec \in Records, NEW t, Sums(t, list, rec)
    PROVE  /\ \A n \in 0..Len(list) : t[n] \in Nat
           /\ \A n \in 1..Len(list) : rec[list[n]].stake <= t[Len(list)]
<1>1. /\ Len(list) \in Nat
      /\ t[0] = 0
      /\ \A n \in 1..Len(list) : t[n] = t[n - 1] + rec[list[n]].stake
  BY SumsAt
<1>2. \A n \in 1..Len(list) : rec[list[n]].stake \in Nat
  BY DEF Records, IssuerRecord
<1>3. \A n \in 0..Len(list) : t[n] \in Nat
  <2> DEFINE Bad == {n \in 0..Len(list) : t[n] \notin Nat}
  <2>1. SUFFICES ASSUME Bad # {} PROVE FALSE
    OBVIOUS
  <2>2. PICK k \in Bad : \A m \in Bad : k <= m
    <3>1. Bad \subseteq Nat
      OBVIOUS
    <3> HIDE DEF Bad
    <3> QED BY <2>1, <3>1, LeastElement
  <2>3. k # 0
    BY <1>1
  <2>4. k - 1 \in 0..Len(list) /\ k \in 1..Len(list) /\ ~ (k <= k - 1)
    BY <1>1, <2>3
  <2>5. t[k - 1] \in Nat
    BY <2>2, <2>4
  <2> QED BY <1>1, <1>2, <2>4, <2>5
<1>4. ASSUME NEW n \in 1..Len(list) PROVE rec[list[n]].stake <= t[Len(list)]
  <2> DEFINE Bad == {m \in n..Len(list) : ~ (rec[list[n]].stake <= t[m])}
  <2>1. SUFFICES ASSUME Bad # {} PROVE FALSE
    BY <1>1
  <2>2. PICK k \in Bad : \A m \in Bad : k <= m
    <3>1. Bad \subseteq Nat
      OBVIOUS
    <3> HIDE DEF Bad
    <3> QED BY <2>1, <3>1, LeastElement
  <2>3. k \in 1..Len(list) /\ k - 1 \in 0..Len(list) /\ ~ (k <= k - 1)
    BY <1>1
  <2>4. t[k - 1] \in Nat /\ rec[list[k]].stake \in Nat /\ rec[list[n]].stake \in Nat
    BY <1>2, <1>3, <2>3
  <2>5. t[k] = t[k - 1] + rec[list[k]].stake
    BY <1>1, <2>3
  <2>6. CASE k = n
    BY <2>4, <2>5, <2>6
  <2>7. CASE k # n
    <3>1. k - 1 \in n..Len(list)
      BY <1>1, <2>7
    <3>2. rec[list[n]].stake <= t[k - 1]
      BY <2>2, <2>3, <3>1
    <3> QED BY <2>4, <2>5, <3>2
  <2> QED BY <2>6, <2>7
<1> QED BY <1>3, <1>4

(* Only what the accounts of the list hold counts.                         *)
LEMMA SumsAgree ==
    ASSUME NEW list \in Seq(Issuers), NEW rec \in Records, NEW t, Sums(t, list, rec),
           NEW more \in Seq(Issuers), NEW rec2 \in Records, NEW u, Sums(u, more, rec2),
           Len(list) <= Len(more),
           \A n \in 1..Len(list) : rec2[more[n]].stake = rec[list[n]].stake
    PROVE  u[Len(list)] = t[Len(list)]
<1>1. /\ Len(list) \in Nat /\ Len(more) \in Nat
      /\ t[0] = 0 /\ u[0] = 0
      /\ \A n \in 1..Len(list) : t[n] = t[n - 1] + rec[list[n]].stake
      /\ \A n \in 1..Len(more) : u[n] = u[n - 1] + rec2[more[n]].stake
  BY SumsAt
<1> DEFINE Bad == {n \in 0..Len(list) : u[n] # t[n]}
<1>2. SUFFICES ASSUME Bad # {} PROVE FALSE
  BY <1>1
<1>3. PICK k \in Bad : \A m \in Bad : k <= m
  <2>1. Bad \subseteq Nat
    OBVIOUS
  <2> HIDE DEF Bad
  <2> QED BY <1>2, <2>1, LeastElement
<1>4. k # 0
  BY <1>1
<1>5. k - 1 \in 0..Len(list) /\ k \in 1..Len(list) /\ k \in 1..Len(more) /\ ~ (k <= k - 1)
  BY <1>1, <1>4
<1>6. u[k - 1] = t[k - 1]
  BY <1>3, <1>5
<1> QED BY <1>1, <1>5, <1>6

(* A change of what one account holds changes the sum by as much.          *)
LEMMA SumsChange ==
    ASSUME NEW list \in Seq(Issuers), NEW rec \in Records, NEW t, Sums(t, list, rec),
           NEW rec2 \in Records, NEW u, Sums(u, list, rec2),
           NEW a \in Issuers, NEW k \in 1..Len(list), list[k] = a,
           \A i, j \in 1..Len(list) : list[i] = list[j] => i = j,
           \A b \in Issuers : b # a => rec2[b].stake = rec[b].stake
    PROVE  u[Len(list)] = t[Len(list)] - rec[a].stake + rec2[a].stake
<1>1. /\ Len(list) \in Nat
      /\ t[0] = 0 /\ u[0] = 0
      /\ \A n \in 1..Len(list) : t[n] = t[n - 1] + rec[list[n]].stake
      /\ \A n \in 1..Len(list) : u[n] = u[n - 1] + rec2[list[n]].stake
  <2>1. t[0] = 0 /\ \A n \in 1..Len(list) : t[n] = t[n - 1] + rec[list[n]].stake
    BY SumsAt
  <2>2. u[0] = 0 /\ \A n \in 1..Len(list) : u[n] = u[n - 1] + rec2[list[n]].stake
    BY SumsAt
  <2> QED BY <2>1, <2>2
<1>2. \A n \in 0..Len(list) : t[n] \in Nat
  BY SumsGrow
<1>3. /\ \A n \in 1..Len(list) : n # k => list[n] \in Issuers /\ list[n] # a
      /\ \A b \in Issuers : rec[b].stake \in Nat /\ rec2[b].stake \in Nat
  <2>1. \A n \in 1..Len(list) : n # k => list[n] \in Issuers /\ list[n] # a
    OBVIOUS
  <2>2. \A b \in Issuers : rec[b].stake \in Nat /\ rec2[b].stake \in Nat
    BY DEF Records, IssuerRecord
  <2> QED BY <2>1, <2>2
<1> DEFINE Expected(n) == IF n < k THEN t[n] ELSE t[n] - rec[a].stake + rec2[a].stake
           Bad == {n \in 0..Len(list) : u[n] # Expected(n)}
<1>4. SUFFICES ASSUME Bad # {} PROVE FALSE
  BY <1>1
<1>5. PICK m \in Bad : \A n \in Bad : m <= n
  <2>1. Bad \subseteq Nat
    OBVIOUS
  <2> HIDE DEF Bad
  <2> QED BY <1>4, <2>1, LeastElement
<1>6. m # 0
  BY <1>1
<1>7. m - 1 \in 0..Len(list) /\ m \in 1..Len(list) /\ ~ (m <= m - 1)
  BY <1>1, <1>6
<1>8. u[m - 1] = Expected(m - 1)
  BY <1>5, <1>7
<1>9. t[m] = t[m - 1] + rec[list[m]].stake /\ u[m] = u[m - 1] + rec2[list[m]].stake
  BY <1>1, <1>7
<1>10. CASE m < k
  <2>1. rec2[list[m]].stake = rec[list[m]].stake
    BY <1>3, <1>7, <1>10
  <2>2. m - 1 < k
    BY <1>10, <1>7
  <2> QED BY <1>8, <1>9, <1>10, <2>1, <2>2
<1>11. CASE m = k
  <2>1. m - 1 < k
    BY <1>11, <1>7
  <2> QED BY <1>2, <1>3, <1>7, <1>8, <1>9, <1>11, <2>1
<1>12. CASE m > k
  <2>1. /\ rec2[list[m]].stake = rec[list[m]].stake /\ rec[list[m]].stake \in Nat
    BY <1>3, <1>7, <1>12
  <2>2. ~ (m - 1 < k) /\ ~ (m < k)
    BY <1>12, <1>7
  <2>3. t[m - 1] \in Nat /\ t[m] \in Nat
    BY <1>2, <1>7
  <2>4. rec[a].stake \in Nat /\ rec2[a].stake \in Nat
    BY <1>3
  <2>5. u[m - 1] = t[m - 1] - rec[a].stake + rec2[a].stake
    BY <1>8, <2>2
  <2> DEFINE d == rec[list[m]].stake
  <2>7. t[m] = t[m - 1] + d /\ u[m] = u[m - 1] + d /\ d \in Nat
    BY <1>9, <2>1
  <2> HIDE DEF d
  <2>6. u[m] = t[m] - rec[a].stake + rec2[a].stake
    BY <2>3, <2>4, <2>5, <2>7
  <2> QED BY <1>5, <2>2, <2>6
<1> QED BY <1>7, <1>10, <1>11, <1>12

-----------------------------------------------------------------------------
(* What the contract owes the accounts, over a step.                       *)

Total == StakeOfFirst[Len(issuerList)]

LEMMA TotalOf ==
    ASSUME RegistryTypeOK, ListedOnce
    PROVE  /\ Total \in Nat
           /\ \A a \in Issuers : issuers[a].stake <= Total
<1>1. issuerList \in Seq(Issuers) /\ issuers \in Records
  BY DEF RegistryTypeOK, Records
<1>2. Sums(StakeOfFirst, issuerList, issuers)
  BY <1>1, StakeOfFirstSums
<1>3. /\ \A n \in 0..Len(issuerList) : StakeOfFirst[n] \in Nat
      /\ \A n \in 1..Len(issuerList) : issuers[issuerList[n]].stake <= Total
  BY <1>1, <1>2, SumsGrow DEF Total
<1>4. Total \in Nat
  BY <1>1, <1>3 DEF Total
<1>5. ASSUME NEW a \in Issuers PROVE issuers[a].stake <= Total
  <2>1. CASE issuers[a] = NoIssuer
    BY <1>4, <2>1 DEF NoIssuer
  <2>2. CASE issuers[a] # NoIssuer
    <3>1. PICK n \in DOMAIN issuerList : issuerList[n] = a
      BY <2>2 DEF ListedOnce, registered, Range
    <3>2. n \in 1..Len(issuerList)
      BY <1>1
    <3> QED BY <1>3, <3>1, <3>2
  <2> QED BY <2>1, <2>2
<1> QED BY <1>4, <1>5

(* One account of the list changes.                                        *)
LEMMA TotalChanges ==
    ASSUME RegistryTypeOK, ListedOnce, NEW a \in registered, NEW r \in IssuerRecord,
           issuers' = [issuers EXCEPT ![a] = r], issuerList' = issuerList
    PROVE  /\ issuers' \in Records
           /\ ListedOnce'
           /\ Total' = Total - issuers[a].stake + r.stake
<1>1. issuerList \in Seq(Issuers) /\ issuers \in Records
  BY DEF RegistryTypeOK, Records
<1>2. PICK k \in DOMAIN issuerList : issuerList[k] = a
  BY DEF registered, Range
<1>3. k \in 1..Len(issuerList) /\ a \in Issuers
  BY <1>1, <1>2
<1>4. PICK rec : rec = issuers'
  OBVIOUS
<1>5. rec \in Records /\ rec[a] = r /\ \A b \in Issuers : b # a => rec[b] = issuers[b]
  BY <1>1, <1>3, <1>4 DEF Records
<1>6. ListedOnce'
  BY <1>4, <1>5 DEF ListedOnce, registered, Range
<1>7. Sums(StakeOfFirst, issuerList, issuers)
  BY <1>1, StakeOfFirstSums
<1>8. PICK u : u = StakeOfFirst' /\ Sums(u, issuerList, rec)
  BY <1>1, <1>4, <1>5, StakeOfFirstSumsNext
<1>9. \A i, j \in 1..Len(issuerList) : issuerList[i] = issuerList[j] => i = j
  BY <1>1 DEF ListedOnce
<1>10. \A b \in Issuers : b # a => rec[b].stake = issuers[b].stake
  BY <1>5
<1>11. u[Len(issuerList)] = StakeOfFirst[Len(issuerList)] - issuers[a].stake + rec[a].stake
  BY <1>1, <1>2, <1>3, <1>5, <1>7, <1>8, <1>9, <1>10, SumsChange
<1> QED BY <1>4, <1>5, <1>6, <1>8, <1>11 DEF Total

(* An account joins the list.                                              *)
LEMMA TotalGrows ==
    ASSUME RegistryTypeOK, ListedOnce, NEW a \in Issuers, a \notin registered,
           NEW r \in IssuerRecord,
           issuers' = [issuers EXCEPT ![a] = r], issuerList' = Append(issuerList, a)
    PROVE  /\ issuers' \in Records
           /\ ListedOnce'
           /\ Total' = Total + r.stake
<1>1. issuerList \in Seq(Issuers) /\ issuers \in Records
  BY DEF RegistryTypeOK, Records
<1>2. PICK rec, list : rec = issuers' /\ list = issuerList'
  OBVIOUS
<1>3. rec \in Records /\ rec[a] = r /\ \A b \in Issuers : b # a => rec[b] = issuers[b]
  BY <1>1, <1>2 DEF Records
<1>4. /\ list \in Seq(Issuers) /\ Len(issuerList) \in Nat
      /\ Len(list) = Len(issuerList) + 1
      /\ \A n \in 1..Len(issuerList) : list[n] = issuerList[n]
      /\ list[Len(issuerList) + 1] = a
  BY <1>1, <1>2
<1>5. \A n \in 1..Len(issuerList) : issuerList[n] \in Issuers /\ issuerList[n] # a
  BY <1>1 DEF registered, Range
<1>6. ListedOnce'
  <2>1. \A i, j \in DOMAIN list : list[i] = list[j] => i = j
    <3>1. DOMAIN list = 1..(Len(issuerList) + 1) /\ DOMAIN issuerList = 1..Len(issuerList)
      BY <1>1, <1>4
    <3>2. \A i \in DOMAIN list : i \in 1..Len(issuerList) \/ i = Len(issuerList) + 1
      BY <1>4, <3>1
    <3> QED BY <1>4, <1>5, <3>1, <3>2 DEF ListedOnce
  <2>2. a \in Range(list) /\ Range(issuerList) \subseteq Range(list)
    BY <1>1, <1>4 DEF Range
  <2>3. \A b \in Issuers : rec[b] # NoIssuer => b \in Range(list)
    BY <1>3, <2>2 DEF ListedOnce, registered
  <2> QED BY <1>2, <2>1, <2>3 DEF ListedOnce, registered
<1>7. Sums(StakeOfFirst, issuerList, issuers)
  BY <1>1, StakeOfFirstSums
<1>8. PICK u : u = StakeOfFirst' /\ Sums(u, list, rec)
  BY <1>2, <1>3, <1>4, StakeOfFirstSumsNext
<1>9. u[Len(issuerList)] = StakeOfFirst[Len(issuerList)]
  <2>1. Len(issuerList) <= Len(list)
    BY <1>4
  <2>2. \A n \in 1..Len(issuerList) : rec[list[n]].stake = issuers[issuerList[n]].stake
    BY <1>3, <1>4, <1>5
  <2> QED BY <1>1, <1>3, <1>4, <1>7, <1>8, <2>1, <2>2, SumsAgree
<1>10. u[Len(list)] = u[Len(issuerList)] + r.stake
  <2>1. \A n \in 1..Len(list) : u[n] = u[n - 1] + rec[list[n]].stake
    BY <1>3, <1>4, <1>8, SumsAt
  <2>2. Len(list) \in 1..Len(list) /\ Len(list) - 1 = Len(issuerList)
    BY <1>4
  <2> QED BY <1>3, <1>4, <2>1, <2>2
<1> QED BY <1>2, <1>3, <1>6, <1>8, <1>9, <1>10 DEF Total

-----------------------------------------------------------------------------
(* The inductive invariant.                                                *)

(* A pending exit was asked for on the day of the last slash or later.     *)
ExitAfterSlash ==
    \A a \in Issuers :
        /\ ledger[a].slashedOn <= day
        /\ unstakeRequestedAt[a] # 0 => ledger[a].slashedOn <= unstakeRequestedAt[a]

RegistryIInv == RegistryInv /\ ExitAfterSlash

(* What a step on one account leaves to show of it: its own books.         *)
BooksOf(a, rec, led, req, today) ==
    /\ led.paid = rec.stake + led.returned + rec.slashedAmount
    /\ req # 0 => ~rec.active /\ rec.stake # 0
    /\ led.slashedOn <= today
    /\ req # 0 => led.slashedOn <= req

LedgerRecord == [paid : Nat, returned : Nat, slashedOn : Nat]

LEMMA BooksBefore ==
    ASSUME RegistryIInv, NEW a \in Issuers
    PROVE  /\ issuers[a] \in IssuerRecord /\ ledger[a] \in LedgerRecord /\ unstakeRequestedAt[a] \in Nat
           /\ BooksOf(a, issuers[a], ledger[a], unstakeRequestedAt[a], day)
BY DEF RegistryIInv, RegistryInv, RegistryTypeOK, LedgerBalanced, ArmedIsFrozen, ExitAfterSlash,
       BooksOf, LedgerRecord

(* A step on one account keeps the invariant when the account's books and  *)
(* the contract's balance are right afterwards.                            *)
LEMMA AccountStep ==
    ASSUME RegistryIInv, NEW a \in Issuers,
           NEW rec \in IssuerRecord, NEW led \in LedgerRecord, NEW req \in Nat,
           issuers' = [issuers EXCEPT ![a] = rec],
           ledger' = [ledger EXCEPT ![a] = led],
           unstakeRequestedAt' = [unstakeRequestedAt EXCEPT ![a] = req],
           \/ a \in registered /\ issuerList' = issuerList
           \/ a \notin registered /\ issuerList' = Append(issuerList, a),
           BooksOf(a, rec, led, req, day),
           pendingTreasuryWithdrawals' \in Nat,
           balance' = Total - issuers[a].stake + rec.stake + pendingTreasuryWithdrawals',
           UNCHANGED <<roleVars, day>>
    PROVE  RegistryIInv'
<1> USE DEF RegistryIInv, RegistryInv
<1>1. RegistryTypeOK /\ ListedOnce
  OBVIOUS
<1>2. ListedOnce' /\ Total' = Total - issuers[a].stake + rec.stake
  <2>1. CASE a \in registered /\ issuerList' = issuerList
    BY <1>1, <2>1, TotalChanges
  <2>2. CASE a \notin registered /\ issuerList' = Append(issuerList, a)
    <3>1. issuers[a] = NoIssuer
      BY <2>2 DEF ListedOnce
    <3>2. Total \in Nat /\ rec.stake \in Nat
      BY <1>1, TotalOf DEF IssuerRecord
    <3>3. issuers[a].stake = 0
      BY <3>1 DEF NoIssuer
    <3>4. ListedOnce' /\ Total' = Total + rec.stake
      BY <1>1, <2>2, TotalGrows
    <3> QED BY <3>2, <3>3, <3>4
  <2> QED BY <2>1, <2>2
<1>3. Total \in Nat /\ issuers[a].stake \in Nat /\ rec.stake \in Nat /\ issuers[a].stake <= Total
  BY <1>1, TotalOf DEF IssuerRecord, RegistryTypeOK
<1>4. Solvent'
  BY <1>2 DEF Solvent, Total
<1>5. RegistryTypeOK'
  <2>1. issuerList' \in Seq(Issuers)
    <3>1. issuerList \in Seq(Issuers) /\ Append(issuerList, a) \in Seq(Issuers)
      BY DEF RegistryTypeOK
    <3> QED BY <3>1
  <2>2. balance' \in Nat
    BY <1>3
  <2>3. issuers' \in [Issuers -> IssuerRecord]
    BY DEF RegistryTypeOK
  <2>4. ledger' \in [Issuers -> LedgerRecord] /\ unstakeRequestedAt' \in [Issuers -> Nat]
    BY DEF RegistryTypeOK, LedgerRecord
  <2> QED BY <2>1, <2>2, <2>3, <2>4 DEF RegistryTypeOK, roleVars, LedgerRecord
<1>6. ASSUME NEW b \in Issuers
      PROVE  BooksOf(b, issuers'[b], ledger'[b], unstakeRequestedAt'[b], day)
  <2>1. CASE b = a
    BY <2>1 DEF RegistryTypeOK
  <2>2. CASE b # a
    BY <2>2, BooksBefore DEF RegistryTypeOK
  <2> QED BY <2>1, <2>2
<1>7. LedgerBalanced' /\ ArmedIsFrozen' /\ ExitAfterSlash'
  BY <1>6 DEF LedgerBalanced, ArmedIsFrozen, ExitAfterSlash, BooksOf
<1> QED BY <1>2, <1>4, <1>5, <1>7

LEMMA StakeStep ==
    ASSUME RegistryAssumption, RegistryIInv,
           NEW a \in Issuers, NEW v \in Amounts, NEW uri \in URIs, StakeAndRegister(a, v, uri)
    PROVE  RegistryIInv'
<1>1. issuers[a] \in IssuerRecord /\ ledger[a] \in LedgerRecord
      /\ BooksOf(a, issuers[a], ledger[a], unstakeRequestedAt[a], day)
  BY BooksBefore
<1>2. v \in Nat
  BY DEF RegistryAssumption
<1>3. Staked(a, v) \in IssuerRecord /\ Staked(a, v).stake = issuers[a].stake + v
      /\ Staked(a, v).slashedAmount = issuers[a].slashedAmount
  <2>1. TierForStake(issuers[a].stake + v) \in Tiers
    BY DEF TierForStake, Tiers
  <2>2. issuers[a].stake + v \in Nat
    BY <1>1, <1>2 DEF IssuerRecord
  <2> DEFINE stake == issuers[a].stake + v
             tier == TierForStake(issuers[a].stake + v)
  <2>3. Staked(a, v) = [issuers[a] EXCEPT !.stake = stake, !.active = TRUE, !.tier = tier]
    BY DEF Staked
  <2>4. stake \in Nat /\ tier \in Tiers
    BY <2>1, <2>2
  <2> HIDE DEF stake, tier
  <2>5. Staked(a, v) \in IssuerRecord /\ Staked(a, v).stake = stake
        /\ Staked(a, v).slashedAmount = issuers[a].slashedAmount
    BY <1>1, <2>3, <2>4 DEF IssuerRecord
  <2> QED BY <2>5 DEF stake
<1> DEFINE rec == issuers'[a]
           led == [ledger[a] EXCEPT !.paid = @ + v]
<1>4. issuers \in [Issuers -> IssuerRecord] /\ ledger \in [Issuers -> LedgerRecord]
  BY DEF RegistryIInv, RegistryInv, RegistryTypeOK, LedgerRecord
<1>5. /\ rec \in IssuerRecord /\ rec.stake = issuers[a].stake + v
      /\ rec.slashedAmount = issuers[a].slashedAmount
      /\ issuers' = [issuers EXCEPT ![a] = rec]
  <2>1. CASE a \in registered
    BY <1>3, <1>4, <2>1 DEF StakeAndRegister
  <2>2. CASE a \notin registered
    <3>1. issuers' = [issuers EXCEPT ![a] = [Staked(a, v) EXCEPT !.metadataURI = uri]]
      BY <2>2 DEF StakeAndRegister
    <3>2. rec = [Staked(a, v) EXCEPT !.metadataURI = uri]
      BY <1>4, <3>1
    <3> QED BY <1>3, <1>4, <3>1, <3>2 DEF IssuerRecord
  <2> QED BY <2>1, <2>2
<1>6. led \in LedgerRecord /\ led.paid = ledger[a].paid + v /\ led.returned = ledger[a].returned
      /\ led.slashedOn = ledger[a].slashedOn
  BY <1>1, <1>2 DEF LedgerRecord
<1>7. ledger' = [ledger EXCEPT ![a] = led]
  BY DEF StakeAndRegister
<1>8. BooksOf(a, rec, led, 0, day)
  BY <1>1, <1>2, <1>5, <1>6 DEF BooksOf, IssuerRecord, LedgerRecord
<1>9. balance' = Total - issuers[a].stake + rec.stake + pendingTreasuryWithdrawals'
      /\ pendingTreasuryWithdrawals' \in Nat
  <2>1. Total \in Nat /\ balance = Total + pendingTreasuryWithdrawals
        /\ pendingTreasuryWithdrawals \in Nat
    BY TotalOf DEF RegistryIInv, RegistryInv, RegistryTypeOK, Solvent, Total
  <2>2. balance' = balance + v /\ pendingTreasuryWithdrawals' = pendingTreasuryWithdrawals
    BY DEF StakeAndRegister
  <2>3. issuers[a].stake \in Nat
    BY <1>1 DEF IssuerRecord
  <2> QED BY <1>2, <1>5, <2>1, <2>2, <2>3
<1> HIDE DEF rec, led
<1> QED BY <1>5, <1>6, <1>7, <1>8, <1>9, AccountStep DEF StakeAndRegister

(* The state before a step, as the lemmas below use it.                    *)
LEMMA Before ==
    ASSUME RegistryIInv
    PROVE  /\ issuers \in [Issuers -> IssuerRecord] /\ ledger \in [Issuers -> LedgerRecord]
           /\ unstakeRequestedAt \in [Issuers -> Nat]
           /\ day \in Nat \ {0} /\ pendingTreasuryWithdrawals \in Nat
           /\ Total \in Nat /\ balance = Total + pendingTreasuryWithdrawals
           /\ \A a \in Issuers : issuers[a].stake <= Total
           /\ \A a \in Issuers : issuers[a].stake # 0 \/ issuers[a].active => a \in registered
<1>1. \A a \in Issuers : issuers[a].stake # 0 \/ issuers[a].active => issuers[a] # NoIssuer
  BY DEF NoIssuer
<1> QED BY <1>1, TotalOf DEF RegistryIInv, RegistryInv, RegistryTypeOK, Solvent, Total, ListedOnce, LedgerRecord

LEMMA RequestStep ==
    ASSUME RegistryIInv, NEW a \in Issuers, RequestUnstake(a)
    PROVE  RegistryIInv'
<1> DEFINE rec == [issuers[a] EXCEPT !.active = FALSE]
<1>1. issuers[a] \in IssuerRecord /\ ledger[a] \in LedgerRecord
      /\ BooksOf(a, issuers[a], ledger[a], unstakeRequestedAt[a], day)
  BY BooksBefore
<1>2. rec \in IssuerRecord /\ rec.stake = issuers[a].stake /\ ~rec.active
      /\ rec.slashedAmount = issuers[a].slashedAmount
  BY <1>1 DEF IssuerRecord
<1>3. issuers' = [issuers EXCEPT ![a] = rec] /\ issuers[a].stake # 0
  BY DEF RequestUnstake
<1>4. ledger' = [ledger EXCEPT ![a] = ledger[a]]
  BY Before DEF RequestUnstake
<1> HIDE DEF rec
<1>5. BooksOf(a, rec, ledger[a], day, day)
  BY <1>1, <1>2, <1>3 DEF BooksOf
<1>6. balance' = Total - issuers[a].stake + rec.stake + pendingTreasuryWithdrawals'
      /\ pendingTreasuryWithdrawals' \in Nat
  BY <1>1, <1>2, Before DEF RequestUnstake, IssuerRecord
<1>7. a \in registered /\ day \in Nat
  BY <1>3, Before
<1> QED BY <1>1, <1>2, <1>3, <1>4, <1>5, <1>6, <1>7, AccountStep DEF RequestUnstake

LEMMA WithdrawStep ==
    ASSUME RegistryIInv, NEW a \in Issuers, WithdrawStake(a)
    PROVE  RegistryIInv'
<1> DEFINE rec == [issuers[a] EXCEPT !.stake = 0, !.tier = "None", !.active = FALSE]
           led == [ledger[a] EXCEPT !.returned = @ + issuers[a].stake]
<1>1. issuers[a] \in IssuerRecord /\ ledger[a] \in LedgerRecord
      /\ BooksOf(a, issuers[a], ledger[a], unstakeRequestedAt[a], day)
  BY BooksBefore
<1>2. rec \in IssuerRecord /\ rec.stake = 0 /\ rec.slashedAmount = issuers[a].slashedAmount
  BY <1>1 DEF IssuerRecord, Tiers
<1>3. led \in LedgerRecord /\ led.paid = ledger[a].paid /\ led.slashedOn = ledger[a].slashedOn
      /\ led.returned = ledger[a].returned + issuers[a].stake
  BY <1>1 DEF LedgerRecord, IssuerRecord
<1>4. issuers' = [issuers EXCEPT ![a] = rec] /\ issuers[a].stake # 0
      /\ ledger' = [ledger EXCEPT ![a] = led]
  BY DEF WithdrawStake
<1> HIDE DEF rec, led
<1>5. BooksOf(a, rec, led, 0, day)
  BY <1>1, <1>2, <1>3 DEF BooksOf, IssuerRecord, LedgerRecord
<1>6. balance' = Total - issuers[a].stake + rec.stake + pendingTreasuryWithdrawals'
      /\ pendingTreasuryWithdrawals' \in Nat
  BY <1>1, <1>2, Before DEF WithdrawStake, IssuerRecord
<1>7. a \in registered
  BY <1>4, Before
<1>8. issuerList' = issuerList /\ unstakeRequestedAt' = [unstakeRequestedAt EXCEPT ![a] = 0]
      /\ UNCHANGED <<roleVars, day>>
  BY DEF WithdrawStake
<1>9. rec \in IssuerRecord /\ led \in LedgerRecord
  BY <1>2, <1>3
<1> QED BY <1>4, <1>5, <1>6, <1>7, <1>8, <1>9, AccountStep

LEMMA SlashStep ==
    ASSUME RegistryAssumption, RegistryIInv,
           NEW a \in Issuers, NEW v \in Amounts, Slash(slashingAuthority, a, v)
    PROVE  RegistryIInv'
<1> DEFINE s == Slashed(a, v)
           left == issuers[a].stake - s
           tier == TierForStake(left)
           active == issuers[a].active /\ left > stakeReqs.community
           sum == issuers[a].slashedAmount + s
           rec == [issuers[a] EXCEPT !.stake = left, !.slashedAmount = sum,
                                     !.tier = tier, !.active = active]
           led == [ledger[a] EXCEPT !.slashedOn = day]
<1>1. issuers[a] \in IssuerRecord /\ ledger[a] \in LedgerRecord
      /\ BooksOf(a, issuers[a], ledger[a], unstakeRequestedAt[a], day)
  BY BooksBefore
<1>2. s \in Nat /\ left \in Nat /\ left + s = issuers[a].stake /\ issuers[a].slashedAmount \in Nat
  <2> DEFINE stake == issuers[a].stake
  <2>1. stake \in Nat /\ issuers[a].slashedAmount \in Nat
    BY <1>1 DEF IssuerRecord
  <2>2. v \in Nat
    BY DEF RegistryAssumption
  <2>3. s = IF v > stake THEN stake ELSE v
    BY DEF Slashed
  <2> HIDE DEF stake, s
  <2>4. s \in Nat /\ stake - s \in Nat /\ stake - s + s = stake
    BY <2>1, <2>2, <2>3
  <2> QED BY <2>1, <2>4 DEF stake
<1>3. issuers' = [issuers EXCEPT ![a] = rec] /\ issuers[a].stake # 0
      /\ ledger' = [ledger EXCEPT ![a] = led]
      /\ pendingTreasuryWithdrawals' = pendingTreasuryWithdrawals + s
  BY DEF Slash
<1>4. tier \in Tiers
  BY DEF TierForStake, Tiers
<1>5. active \in BOOLEAN
  OBVIOUS
<1> HIDE DEF s, left, tier, active
<1>6. rec \in IssuerRecord /\ rec.stake = left /\ rec.slashedAmount = issuers[a].slashedAmount + s
  <2>1. sum \in Nat
    BY <1>2
  <2> HIDE DEF sum
  <2>2. rec \in IssuerRecord /\ rec.stake = left /\ rec.slashedAmount = sum
    BY <1>1, <1>2, <1>4, <1>5, <2>1 DEF IssuerRecord
  <2> QED BY <2>2 DEF sum
<1>7. led \in LedgerRecord /\ led.paid = ledger[a].paid /\ led.slashedOn = day
      /\ led.returned = ledger[a].returned
  BY <1>1, Before DEF LedgerRecord
<1> HIDE DEF rec, led
<1>8. BooksOf(a, rec, led, 0, day)
  BY <1>1, <1>2, <1>6, <1>7, Before DEF BooksOf, IssuerRecord, LedgerRecord
<1>9. balance' = Total - issuers[a].stake + rec.stake + pendingTreasuryWithdrawals'
      /\ pendingTreasuryWithdrawals' \in Nat
  BY <1>1, <1>2, <1>3, <1>6, Before DEF Slash, IssuerRecord
<1>10. a \in registered
  BY <1>3, Before
<1>11. issuerList' = issuerList /\ unstakeRequestedAt' = [unstakeRequestedAt EXCEPT ![a] = 0]
       /\ UNCHANGED <<roleVars, day>>
  BY DEF Slash
<1> QED BY <1>3, <1>6, <1>7, <1>8, <1>9, <1>10, <1>11, AccountStep

(* The texts and counters of an account are not part of its books.         *)
LEMMA DetailsStep ==
    ASSUME RegistryIInv, NEW a \in Issuers,
           \/ \E uri \in URIs : SetMetadataURI(a, uri)
           \/ \E k \in {"totalIssued", "totalRevoked"} : Report(a, k)
    PROVE  RegistryIInv'
<1> DEFINE rec == issuers'[a]
<1>1. issuers[a] \in IssuerRecord /\ ledger[a] \in LedgerRecord /\ unstakeRequestedAt[a] \in Nat
      /\ BooksOf(a, issuers[a], ledger[a], unstakeRequestedAt[a], day)
  BY BooksBefore
<1>2. /\ issuers' = [issuers EXCEPT ![a] = rec]
      /\ rec \in IssuerRecord /\ rec.stake = issuers[a].stake /\ rec.active = issuers[a].active
      /\ rec.slashedAmount = issuers[a].slashedAmount /\ issuers[a].active
  <2>1. CASE \E uri \in URIs : SetMetadataURI(a, uri)
    <3>1. PICK uri \in URIs : issuers' = [issuers EXCEPT ![a] = [issuers[a] EXCEPT !.metadataURI = uri]]
                              /\ issuers[a].active
      BY <2>1 DEF SetMetadataURI
    <3>2. rec = [issuers[a] EXCEPT !.metadataURI = uri] /\ issuers' = [issuers EXCEPT ![a] = rec]
      BY <3>1, Before
    <3> HIDE DEF rec
    <3>3. /\ rec \in IssuerRecord /\ rec.stake = issuers[a].stake /\ rec.active = issuers[a].active
          /\ rec.slashedAmount = issuers[a].slashedAmount
      BY <1>1, <3>2 DEF IssuerRecord
    <3> QED BY <3>1, <3>2, <3>3
  <2>2. CASE Report(a, "totalIssued")
    <3>1. issuers' = [issuers EXCEPT ![a] = [issuers[a] EXCEPT !.totalIssued = @ + 1]] /\ issuers[a].active
      BY <2>2 DEF Report
    <3>2. rec = [issuers[a] EXCEPT !.totalIssued = @ + 1] /\ issuers' = [issuers EXCEPT ![a] = rec]
      BY <3>1, Before
    <3> HIDE DEF rec
    <3>3. /\ rec \in IssuerRecord /\ rec.stake = issuers[a].stake /\ rec.active = issuers[a].active
          /\ rec.slashedAmount = issuers[a].slashedAmount
      BY <1>1, <3>2 DEF IssuerRecord
    <3> QED BY <3>1, <3>2, <3>3
  <2>3. CASE Report(a, "totalRevoked")
    <3>1. issuers' = [issuers EXCEPT ![a] = [issuers[a] EXCEPT !.totalRevoked = @ + 1]] /\ issuers[a].active
      BY <2>3 DEF Report
    <3>2. rec = [issuers[a] EXCEPT !.totalRevoked = @ + 1] /\ issuers' = [issuers EXCEPT ![a] = rec]
      BY <3>1, Before
    <3> HIDE DEF rec
    <3>3. /\ rec \in IssuerRecord /\ rec.stake = issuers[a].stake /\ rec.active = issuers[a].active
          /\ rec.slashedAmount = issuers[a].slashedAmount
      BY <1>1, <3>2 DEF IssuerRecord
    <3> QED BY <3>1, <3>2, <3>3
  <2> QED BY <2>1, <2>2, <2>3
<1>3. /\ issuerList' = issuerList /\ unstakeRequestedAt' = unstakeRequestedAt /\ ledger' = ledger
      /\ balance' = balance /\ pendingTreasuryWithdrawals' = pendingTreasuryWithdrawals
      /\ UNCHANGED <<roleVars, day>>
  BY DEF SetMetadataURI, Report
<1> HIDE DEF rec
<1>4. ledger' = [ledger EXCEPT ![a] = ledger[a]]
      /\ unstakeRequestedAt' = [unstakeRequestedAt EXCEPT ![a] = unstakeRequestedAt[a]]
  BY <1>3, Before
<1>5. BooksOf(a, rec, ledger[a], unstakeRequestedAt[a], day)
  BY <1>1, <1>2 DEF BooksOf
<1>6. balance' = Total - issuers[a].stake + rec.stake + pendingTreasuryWithdrawals'
      /\ pendingTreasuryWithdrawals' \in Nat
  BY <1>1, <1>2, <1>3, Before DEF IssuerRecord
<1>7. a \in registered
  BY <1>2, Before
<1> QED BY <1>1, <1>2, <1>3, <1>4, <1>5, <1>6, <1>7, AccountStep

(* Steps that leave the accounts alone.                                    *)
LEMMA ElsewhereStep ==
    ASSUME RegistryAssumption, RegistryIInv,
           \/ WithdrawTreasury
           \/ \E r \in OtherReqs : SetStakeRequirements(owner, r)
           \/ \E x \in Governors : SetSlashingAuthority(owner, x)
           \/ \E x \in Governors : SetReporter(owner, x)
           \/ \E x \in Governors : TransferOwnership(owner, x)
           \/ NextDay
           \/ UNCHANGED registryVars
    PROVE  RegistryIInv'
<1> USE DEF RegistryIInv, RegistryInv
<1>1. UNCHANGED <<issuers, issuerList, unstakeRequestedAt, ledger>>
  BY DEF WithdrawTreasury, SetStakeRequirements, SetSlashingAuthority, SetReporter,
         TransferOwnership, NextDay, registryVars
<1>2. day' \in Nat \ {0} /\ day <= day'
  BY Before DEF WithdrawTreasury, SetStakeRequirements, SetSlashingAuthority, SetReporter,
         TransferOwnership, NextDay, registryVars, roleVars
<1>3. Total' = Total
  BY <1>1 DEF Total, StakeOfFirst
<1>4. /\ pendingTreasuryWithdrawals' \in Nat
      /\ balance' = Total + pendingTreasuryWithdrawals' /\ balance' \in Nat
  BY Before DEF WithdrawTreasury, SetStakeRequirements, SetSlashingAuthority, SetReporter,
         TransferOwnership, NextDay, registryVars
<1>5. /\ stakeReqs' \in [community : Nat, provider : Nat, institutional : Nat]
      /\ {owner', slashingAuthority', reporter'} \subseteq Governors
  BY DEF WithdrawTreasury, SetStakeRequirements, SetSlashingAuthority, SetReporter,
         TransferOwnership, NextDay, registryVars, roleVars, RegistryTypeOK, RegistryAssumption
<1>6. RegistryTypeOK'
  BY <1>1, <1>2, <1>4, <1>5 DEF RegistryTypeOK
<1>7. Solvent'
  BY <1>3, <1>4 DEF Solvent, Total
<1>8. LedgerBalanced' /\ ArmedIsFrozen' /\ ListedOnce'
  BY <1>1 DEF LedgerBalanced, ArmedIsFrozen, ListedOnce, registered
<1>9. ExitAfterSlash'
  <2>1. \A a \in Issuers : ledger[a].slashedOn \in Nat
    BY Before DEF LedgerRecord
  <2> QED BY <1>1, <1>2, <2>1, Before DEF ExitAfterSlash
<1> QED BY <1>6, <1>7, <1>8, <1>9

-----------------------------------------------------------------------------
LEMMA RegistryStarts == ASSUME RegistryAssumption, RegistryInit PROVE RegistryIInv
<1> USE DEF RegistryInit
<1>1. RegistryTypeOK
  BY DEF RegistryTypeOK, RegistryAssumption, NoIssuer, IssuerRecord, Tiers
<1>2. Solvent
  <2>1. Len(issuerList) = 0
    OBVIOUS
  <2>2. Sums(StakeOfFirst, issuerList, issuers)
    BY <1>1, StakeOfFirstSums DEF RegistryTypeOK, Records
  <2>4. issuerList \in Seq(Issuers) /\ issuers \in Records
    BY <1>1 DEF RegistryTypeOK, Records
  <2>3. StakeOfFirst[0] = 0
    <3> HIDE DEF RegistryInit
    <3> QED BY <2>2, <2>4, SumsAt
  <2> QED BY <2>1, <2>3 DEF Solvent
<1>3. LedgerBalanced /\ ArmedIsFrozen /\ ListedOnce /\ ExitAfterSlash
  BY DEF LedgerBalanced, ArmedIsFrozen, ListedOnce, ExitAfterSlash, NoIssuer, registered, Range
<1> QED BY <1>1, <1>2, <1>3 DEF RegistryIInv, RegistryInv

LEMMA RegistryStep ==
    ASSUME RegistryAssumption, RegistryIInv, [RegistryNext]_registryVars
    PROVE  RegistryIInv'
<1>1. CASE \E a \in Issuers, v \in Amounts, uri \in URIs : StakeAndRegister(a, v, uri)
  BY <1>1, StakeStep
<1>2. CASE \E a \in Issuers : RequestUnstake(a)
  BY <1>2, RequestStep
<1>3. CASE \E a \in Issuers : WithdrawStake(a)
  BY <1>3, WithdrawStep
<1>4. CASE \E a \in Issuers, v \in Amounts : Slash(slashingAuthority, a, v)
  BY <1>4, SlashStep
<1>5. CASE \/ \E a \in Issuers, uri \in URIs : SetMetadataURI(a, uri)
           \/ \E a \in Issuers, k \in {"totalIssued", "totalRevoked"} : Report(a, k)
  BY <1>5, DetailsStep
<1>6. CASE \/ WithdrawTreasury
           \/ \E r \in OtherReqs : SetStakeRequirements(owner, r)
           \/ \E x \in Governors : SetSlashingAuthority(owner, x)
           \/ \E x \in Governors : SetReporter(owner, x)
           \/ \E x \in Governors : TransferOwnership(owner, x)
           \/ NextDay
           \/ UNCHANGED registryVars
  BY <1>6, ElsewhereStep
<1> QED BY <1>1, <1>2, <1>3, <1>4, <1>5, <1>6 DEF RegistryNext

(* Through any sequence of calls by any accounts the registry holds        *)
(* exactly what it owes, every account's payments add up, a pending exit   *)
(* is frozen and the list is complete, and an exit pending was asked for   *)
(* after the last slash.                                                   *)
THEOREM BooksBalance == RegistrySpec => []RegistryIInv
<1>1. RegistryAssumption
  BY RegistryAssumption
<1>2. RegistryInit => RegistryIInv
  BY <1>1, RegistryStarts
<1>3. RegistryIInv /\ [RegistryNext]_registryVars => RegistryIInv'
  BY <1>1, RegistryStep
<1> QED BY <1>2, <1>3, PTL DEF RegistrySpec

(* The part of it that the run checks.                                     *)
THEOREM RegistryCorrect == RegistrySpec => []RegistryInv
<1>1. RegistryIInv => RegistryInv
  BY DEF RegistryIInv
<1> QED BY <1>1, BooksBalance, PTL

(* A step returns stake only after a cooldown without a slash.             *)
LEMMA ExitStep ==
    ASSUME RegistryAssumption, RegistryIInv, RegistryNext, NEW a \in Issuers,
           ledger'[a].returned > ledger[a].returned
    PROVE  day >= ledger[a].slashedOn + Cooldown
<1>1. ledger \in [Issuers -> LedgerRecord] /\ ledger[a].returned \in Nat /\ ledger[a].slashedOn \in Nat
  BY Before DEF LedgerRecord
<1>2. ~ (ledger[a].returned > ledger[a].returned)
  BY <1>1
<1>3. CASE \E b \in Issuers : WithdrawStake(b)
  <2>1. PICK b \in Issuers : WithdrawStake(b)
    BY <1>3
  <2>2. b = a
    BY <1>1, <1>2, <2>1 DEF WithdrawStake
  <2>3. /\ unstakeRequestedAt[a] # 0 /\ day >= unstakeRequestedAt[a] + Cooldown
        /\ unstakeRequestedAt[a] \in Nat /\ day \in Nat
    BY <2>1, <2>2, Before DEF WithdrawStake
  <2>4. ledger[a].slashedOn <= unstakeRequestedAt[a]
    BY <2>3 DEF RegistryIInv, ExitAfterSlash
  <2> QED BY <1>1, <2>3, <2>4 DEF RegistryAssumption
<1>4. CASE \E b \in Issuers, v \in Amounts, uri \in URIs : StakeAndRegister(b, v, uri)
  <2>1. PICK b \in Issuers, v \in Amounts : ledger' = [ledger EXCEPT ![b].paid = @ + v]
    BY <1>4 DEF StakeAndRegister
  <2>2. ledger'[a].returned = ledger[a].returned
    BY <1>1, <2>1 DEF LedgerRecord
  <2> QED BY <1>2, <2>2
<1>5. CASE \E b \in Issuers, v \in Amounts : Slash(slashingAuthority, b, v)
  <2>1. PICK b \in Issuers : ledger' = [ledger EXCEPT ![b].slashedOn = day]
    BY <1>5 DEF Slash
  <2>2. ledger'[a].returned = ledger[a].returned
    BY <1>1, <2>1 DEF LedgerRecord
  <2> QED BY <1>2, <2>2
<1>6. CASE ledger' = ledger
  BY <1>2, <1>6
<1>7. \/ ledger' = ledger
      \/ \E b \in Issuers : WithdrawStake(b)
      \/ \E b \in Issuers, v \in Amounts, uri \in URIs : StakeAndRegister(b, v, uri)
      \/ \E b \in Issuers, v \in Amounts : Slash(slashingAuthority, b, v)
  BY DEF RegistryNext, RequestUnstake, SetMetadataURI, Report, WithdrawTreasury, SetStakeRequirements,
         SetSlashingAuthority, SetReporter, TransferOwnership, NextDay
<1> QED BY <1>3, <1>4, <1>5, <1>6, <1>7

(* No order of requests, waits and slashes lets an account out within a    *)
(* cooldown of its last slash, whatever the cooldown is.                   *)
THEOREM SlashAlwaysRestartsExit == RegistrySpec => SlashRestartsExit
<1> DEFINE Late == \A a \in Issuers : ledger'[a].returned > ledger[a].returned
                                       => day >= ledger[a].slashedOn + Cooldown
<1>1. RegistryAssumption
  BY RegistryAssumption
<1>2. RegistryIInv /\ [RegistryNext]_registryVars => [Late]_registryVars
  BY <1>1, ExitStep
<1> HIDE DEF Late
<1>3. RegistrySpec => [][Late]_registryVars
  BY <1>2, BooksBalance, PTL DEF RegistrySpec
<1> QED BY <1>3 DEF SlashRestartsExit, Late
=============================================================================
