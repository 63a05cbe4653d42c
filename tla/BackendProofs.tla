--------------------------- MODULE BackendProofs ----------------------------
(***************************************************************************)
(* The KYC requests, for any number of commitments, types, requests,       *)
(* suspended handlers, deliveries and failures: what the tables satisfy    *)
(* and what becomes of a verdict.  The vouchers, for any number of tabs,   *)
(* sessions and calls: one signature per session, and no claim without     *)
(* one.                                                                    *)
(***************************************************************************)
EXTENDS KYCWorkflow, VoucherFlow, TLAPS, WellFoundedInduction, SequenceTheorems,
        FiniteSetTheorems

-----------------------------------------------------------------------------
(* The KYC requests. *)

(* A commitment's later requests follow a closed one.                      *)
LastPending ==
    \A i, j \in RowIds : rows[i].status = "pending" /\ rows[j].c = rows[i].c => j <= i

RowsInv ==
    /\ rows \in Seq(Row)
    /\ LastPending /\ AutoApprovalBacked /\ KYCVerifiedHasApplicant /\ NotifiedForgotten

(* A pass works on requests that exist; past the receipt the credential of *)
(* the one at its head has been issued.                                    *)
AutoInv ==
    /\ auto \in [pc : AutoStep, queue : Seq(QueueEntry)]
    /\ auto.pc \in {"next", "look", "issue", "mined"} => auto.queue # << >>
    /\ auto.pc = "mined" => <<rows[Req.id].type, rows[Req.id].c>> \in everIssued
    /\ mails \subseteq RowIds

OutsideOK ==
    /\ digests \subseteq DOMAIN deliveries /\ unacked \subseteq DOMAIN deliveries
    /\ deliveries \in Seq(Commitments)
    /\ applicants \in [Commitments -> {"none", "init", "GREEN", "RED"}]
    /\ calls \subseteq Call
    /\ approvers \subseteq {"auto", "human"}
    /\ groups \in [Types -> GroupStatus]
    /\ issued \subseteq everIssued /\ everIssued \subseteq Types \X Commitments
    /\ faults \in 0..MaxFaults

KYCIInv == RowsInv /\ AutoInv /\ OutsideOK

-----------------------------------------------------------------------------
(* Sequences, the latest request and the queue.                            *)

LEMMA LeastElement ==
    ASSUME NEW T, T \subseteq Nat, T # {}
    PROVE  \E n \in T : \A m \in T : n <= m
<1> DEFINE R == OpToRel(<, Nat)
<1>1. IsWellFoundedOn(R, Nat)
  BY NatLessThanWellFounded
<1>2. \A x, y \in Nat : x < y => <<x, y>> \in R
  BY DEF OpToRel
<1> HIDE DEF R
<1>3. PICK n \in T : \A y \in T : ~ (<<y, n>> \in R)
  BY <1>1, WFMin
<1>4. \A m \in T : ~ (m < n)
  BY <1>2, <1>3
<1> QED BY <1>4, <1>3

LEMMA GreatestElement ==
    ASSUME NEW n \in Nat, NEW T, T \subseteq 1..n, T # {}
    PROVE  \E i \in T : \A j \in T : j <= i
<1> DEFINE U == {k \in Nat : n - k \in T}
<1>1. U \subseteq Nat
  OBVIOUS
<1>0. \A i \in T : i \in Nat /\ n - i \in Nat /\ n - (n - i) = i
  OBVIOUS
<1>5. U # {}
  BY <1>0
<1>2. PICK m \in U : \A k \in U : m <= k
  <2> HIDE DEF U
  <2> QED BY <1>1, <1>5, LeastElement
<1>3. n - m \in T /\ m \in Nat
  OBVIOUS
<1>4. \A j \in T : j <= n - m
  <2> TAKE j \in T
  <2>1. n - j \in U
    BY <1>0
  <2>2. m <= n - j
    BY <1>2, <2>1
  <2> QED BY <1>0, <1>3, <2>2
<1> QED BY <1>3, <1>4

(* What KYCByCommitment finds.                                             *)
LEMMA LatestRow ==
    ASSUME rows \in Seq(Row), NEW c
    PROVE  LET i == KYCByCommitment(c)
           IN  \/ i = 0 /\ RowsOf(c) = {}
               \/ i \in RowIds /\ rows[i].c = c /\ \A j \in RowIds : rows[j].c = c => j <= i
<1>1. CASE RowsOf(c) = {}
  BY <1>1 DEF KYCByCommitment
<1>2. CASE RowsOf(c) # {}
  <2>1. Len(rows) \in Nat /\ RowsOf(c) \subseteq 1..Len(rows)
    BY DEF RowsOf, RowIds
  <2>2. \E i \in RowsOf(c) : \A j \in RowsOf(c) : j <= i
    BY <1>2, <2>1, GreatestElement
  <2>3. /\ KYCByCommitment(c) \in RowsOf(c)
        /\ \A j \in RowsOf(c) : j <= KYCByCommitment(c)
    BY <1>2, <2>2 DEF KYCByCommitment
  <2> QED BY <2>3 DEF RowsOf
<1> QED BY <1>1, <1>2

(* A sequence whose entries are replaced stays one, of the same length.    *)
LEMMA SameLength ==
    ASSUME NEW S, NEW s \in Seq(S), NEW t, t = [i \in 1..Len(s) |-> t[i]],
           \A i \in 1..Len(s) : t[i] \in S
    PROVE  t \in Seq(S) /\ Len(t) = Len(s) /\ DOMAIN t = 1..Len(s)
<1>1. Len(s) \in Nat
  OBVIOUS
<1>2. t \in [1..Len(s) -> S]
  OBVIOUS
<1>3. t \in Seq(S)
  BY <1>1, <1>2, IsASeq
<1> QED BY <1>1, <1>2, <1>3, LenProperties

(* Definitions by recursion along the numbers up to m have a solution.     *)
LEMMA QueueExists ==
    ASSUME NEW m \in Nat
    PROVE  \E t : t = [n \in 0..m |->
                         IF n = 0 THEN << >>
                         ELSE LET row == [id |-> n, mail |-> rows[n].email /\ ~rows[n].notified]
                              IN  IF rows[n].status = "pending" THEN <<row>> \o t[n - 1]
                                                                ELSE t[n - 1]]
<1> DEFINE Extend(n, q) == LET row == [id |-> n, mail |-> rows[n].email /\ ~rows[n].notified]
                           IN  IF rows[n].status = "pending" THEN <<row>> \o q ELSE q
           Upto(t, k) == t = [n \in 0..k |-> IF n = 0 THEN << >> ELSE Extend(n, t[n - 1])]
           Bad == {k \in Nat : ~ \E t : Upto(t, k)}
<1>1. SUFFICES Bad = {}
  OBVIOUS
<1> HIDE DEF Extend
<1>2. SUFFICES ASSUME Bad # {} PROVE FALSE
  OBVIOUS
<1>3. PICK k \in Bad : \A j \in Bad : k <= j
  <2>1. Bad \subseteq Nat
    OBVIOUS
  <2> HIDE DEF Bad
  <2> QED BY <1>2, <2>1, LeastElement
<1>4. CASE k = 0
  <2> DEFINE t == [n \in 0..0 |-> << >>]
  <2>1. Upto(t, 0)
    OBVIOUS
  <2> QED BY <2>1, <1>3, <1>4
<1>5. CASE k # 0
  <2>1. k - 1 \in Nat /\ k - 1 \notin Bad
    BY <1>3, <1>5
  <2>2. PICK t : Upto(t, k - 1)
    BY <2>1
  <2> DEFINE u == [n \in 0..k |-> IF n = k THEN Extend(k, t[k - 1]) ELSE t[n]]
  <2>3. \A n \in 0..k : n # k => n \in 0..(k - 1)
    BY <1>3
  <2>4. \A n \in 0..(k - 1) : t[n] = IF n = 0 THEN << >> ELSE Extend(n, t[n - 1])
    BY <2>2, Zenon
  <2>5. \A n \in 0..k : u[n] = IF n = k THEN Extend(k, t[k - 1]) ELSE t[n]
    OBVIOUS
  <2>6. u[k - 1] = t[k - 1]
    BY <2>1, <1>3, <2>5
  <2>7. \A n \in 0..k : u[n] = IF n = 0 THEN << >> ELSE Extend(n, u[n - 1])
    <3> TAKE n \in 0..k
    <3>1. CASE n = k
      BY <3>1, <2>5, <2>6, <1>5
    <3>2. CASE n # k /\ n = 0
      BY <3>2, <2>3, <2>4, <2>5
    <3>3. CASE n # k /\ n # 0
      <4>1. n \in 0..(k - 1) /\ n - 1 \in 0..k /\ n - 1 # k
        BY <3>3, <1>3
      <4>2. u[n] = t[n] /\ u[n - 1] = t[n - 1]
        BY <4>1, <3>3, <2>5
      <4> QED BY <4>1, <4>2, <2>4, <3>3
    <3> QED BY <3>1, <3>2, <3>3
  <2>8. u = [n \in 0..k |-> u[n]]
    OBVIOUS
  <2> HIDE DEF u
  <2>9. Upto(u, k)
    BY <2>7, <2>8
  <2> QED BY <2>9, <1>3
<1> QED BY <1>4, <1>5

(* The queue the auto-issuer reads lists existing requests.                *)
LEMMA QueueTyped ==
    ASSUME rows \in Seq(Row)
    PROVE  KYCQueue \in Seq(QueueEntry)
<1> DEFINE m == Len(rows)
           q == NewestPending
           row(n) == [id |-> n, mail |-> rows[n].email /\ ~rows[n].notified]
<1>1. m \in Nat
  OBVIOUS
<1>2. q = [n \in 0..m |-> IF n = 0 THEN << >>
              ELSE IF rows[n].status = "pending" THEN <<row(n)>> \o q[n - 1] ELSE q[n - 1]]
  BY <1>1, QueueExists, Zenon DEF NewestPending
<1>3. /\ q[0] = << >>
      /\ \A n \in 1..m : q[n] = IF rows[n].status = "pending"
                               THEN <<row(n)>> \o q[n - 1] ELSE q[n - 1]
  <2>1. 0 \in 0..m /\ \A n \in 1..m : n \in 0..m /\ n # 0
    BY <1>1
  <2> QED BY <1>2, <2>1, Zenon
<1>4. \A n \in 1..m : row(n) \in QueueEntry
  BY DEF QueueEntry, RowIds, Row
<1> HIDE DEF q, row
<1>5. \A n \in 0..m : q[n] \in Seq(QueueEntry)
  <2> DEFINE Bad == {n \in 0..m : q[n] \notin Seq(QueueEntry)}
  <2>1. SUFFICES ASSUME Bad # {} PROVE FALSE
    OBVIOUS
  <2>2. PICK k \in Bad : \A j \in Bad : k <= j
    <3>1. Bad \subseteq Nat
      OBVIOUS
    <3> HIDE DEF Bad
    <3> QED BY <2>1, <3>1, LeastElement
  <2>3. k # 0
    <3>1. q[0] \in Seq(QueueEntry)
      BY <1>3, EmptySeq
    <3> QED BY <3>1
  <2>4. k - 1 \in 0..m /\ k \in 1..m /\ ~ (k <= k - 1)
    BY <1>1, <2>3
  <2>5. q[k - 1] \in Seq(QueueEntry)
    BY <2>2, <2>4
  <2>6. <<row(k)>> \in Seq(QueueEntry)
    BY <1>4, <2>4
  <2>7. <<row(k)>> \o q[k - 1] \in Seq(QueueEntry)
    BY <2>5, <2>6, ConcatProperties
  <2>8. q[k] \in Seq(QueueEntry)
    BY <1>3, <2>4, <2>5, <2>7
  <2> QED BY <2>8
<1>6. q[m] \in Seq(QueueEntry)
  BY <1>1, <1>5
<1> QED BY <1>6, KYCAssumption, SMT DEF KYCQueue, KYCAssumption, q

-----------------------------------------------------------------------------
(* What is done to the table. *)

LEMMA RowAt ==
    ASSUME rows \in Seq(Row), NEW i \in RowIds
    PROVE  rows[i] \in Row /\ rows[i].c \in Commitments /\ rows[i].type \in Types
           /\ rows[i].status \in {"pending", "approved", "rejected"}
<1>1. rows[i] \in Row
  BY ElementOfSeq DEF RowIds
<1> QED BY <1>1 DEF Row


(* Requests are never removed, and keep their commitment and type.         *)
Grown == /\ Len(rows) <= Len(rows')
         /\ \A i \in RowIds : rows'[i].c = rows[i].c /\ rows'[i].type = rows[i].type

(* Applicants and issuances are not undone.                                *)
Kept == /\ \A c \in Commitments : applicants[c] # "none" => applicants'[c] # "none"
        /\ everIssued \subseteq everIssued'

(* The step of VerdictStands.                                              *)
VerdictKept ==
    \A i \in RowIds :
         rows[i].status # "pending" /\ rows'[i].status # rows[i].status =>
             /\ rows[i].status = "rejected" /\ rows'[i].status = "approved"
             /\ rows'[i].by = "auto"
             /\ <<rows[i].type, rows[i].c>> \in everIssued

(* A new request, of a commitment without a pending one.                   *)
LEMMA Inserted ==
    ASSUME RowsInv, Kept, NEW c \in Commitments, NEW t \in Types,
           NEW email \in BOOLEAN, NEW fresh \in BOOLEAN,
           InsertKYCRequest(c, t, email, fresh),
           \A i \in RowIds : rows[i].c = c => rows[i].status # "pending",
           t = KYCVerified => applicants'[c] # "none"
    PROVE  RowsInv' /\ Grown /\ VerdictKept
<1> DEFINE m == Len(rows)
           new == [c |-> c, type |-> t, status |-> "pending", by |-> "none",
                   email |-> email, notified |-> FALSE, fresh |-> fresh]
<1>1. rows \in Seq(Row) /\ m \in Nat
  BY DEF RowsInv
<1>2. new \in Row
  BY DEF Row
<1>3. rows' = Append(rows, new)
  BY DEF InsertKYCRequest
<1>4. new.c = c /\ new.type = t /\ new.status = "pending" /\ new.by = "none" /\ new.notified = FALSE
  OBVIOUS
<1> HIDE DEF new
<1>5. rows' \in Seq(Row) /\ Len(rows') = m + 1 /\ rows'[m + 1] = new
  BY <1>1, <1>2, <1>3
<1>6. \A i \in RowIds : rows'[i] = rows[i]
  BY <1>1, <1>2, <1>3 DEF RowIds
<1>7. \A i \in RowIds' : i \in RowIds \/ i = m + 1
  BY <1>1, <1>5 DEF RowIds
<1>8. \A i \in RowIds : i <= m + 1 /\ i \in Nat
  BY <1>1 DEF RowIds
<1>9. LastPending'
  <2> SUFFICES ASSUME NEW i \in RowIds', NEW j \in RowIds',
                      rows'[i].status = "pending", rows'[j].c = rows'[i].c
               PROVE  j <= i
    BY DEF LastPending
  <2>1. CASE i = m + 1
    BY <1>1, <1>7, <1>8, <2>1
  <2>2. CASE i \in RowIds /\ j \in RowIds
    BY <1>6, <2>2 DEF RowsInv, LastPending
  <2>3. CASE i \in RowIds /\ j = m + 1
    BY <1>4, <1>5, <1>6, <2>3
  <2> QED BY <1>7, <2>1, <2>2, <2>3
<1>10. AutoApprovalBacked'
  BY <1>4, <1>5, <1>6, <1>7 DEF RowsInv, AutoApprovalBacked, Kept
<1>11. KYCVerifiedHasApplicant'
  <2>1. \A i \in RowIds : rows[i].c \in Commitments
    BY <1>1, RowAt
  <2> QED BY <1>4, <1>5, <1>6, <1>7, <2>1 DEF RowsInv, KYCVerifiedHasApplicant, Kept
<1>12. NotifiedForgotten'
  BY <1>4, <1>5, <1>6, <1>7 DEF RowsInv, NotifiedForgotten
<1>13. Grown
  BY <1>1, <1>5, <1>6 DEF Grown
<1>14. VerdictKept
  BY <1>6 DEF VerdictKept
<1> QED BY <1>5, <1>9, <1>10, <1>11, <1>12, <1>13, <1>14 DEF RowsInv

(* Requests change in place: none is reopened, none approved by the        *)
(* auto-issuer without its credential.                                     *)
LEMMA Changed ==
    ASSUME RowsInv, Kept, rows' = [i \in RowIds |-> rows'[i]],
           \A i \in RowIds :
               /\ rows'[i] \in Row
               /\ rows'[i].c = rows[i].c /\ rows'[i].type = rows[i].type
               /\ rows'[i].status = "pending" => rows[i].status = "pending"
               /\ rows'[i].by = "auto" =>
                      rows[i].by = "auto" \/ <<rows[i].type, rows[i].c>> \in everIssued
               /\ rows'[i].notified => ~rows'[i].email
    PROVE  RowsInv' /\ Grown
<1>1. rows \in Seq(Row) /\ Len(rows) \in Nat
  BY DEF RowsInv
<1>2. rows' \in Seq(Row) /\ Len(rows') = Len(rows)
  <2>1. PICK t : t = rows'
    OBVIOUS
  <2>2. t = [i \in 1..Len(rows) |-> t[i]] /\ \A i \in 1..Len(rows) : t[i] \in Row
    BY <2>1, Zenon DEF RowIds
  <2>3. t \in Seq(Row) /\ Len(t) = Len(rows)
    BY <1>1, <2>2, SameLength
  <2> QED BY <2>1, <2>3
<1>3. RowIds' = RowIds
  BY <1>2 DEF RowIds
<1>4. LastPending'
  BY <1>3 DEF RowsInv, LastPending
<1>5. AutoApprovalBacked'
  BY <1>3 DEF RowsInv, AutoApprovalBacked, Kept
<1>6. KYCVerifiedHasApplicant'
  <2>1. \A i \in RowIds : rows[i].c \in Commitments
    BY <1>1, RowAt
  <2> QED BY <1>3, <2>1 DEF RowsInv, KYCVerifiedHasApplicant, Kept
<1>7. NotifiedForgotten'
  BY <1>3 DEF NotifiedForgotten
<1>8. Grown
  <2>1. Len(rows) <= Len(rows')
    BY <1>1, <1>2
  <2> QED BY <2>1, Zenon DEF Grown
<1> QED BY <1>2, <1>4, <1>5, <1>6, <1>7, <1>8 DEF RowsInv

LEMMA Untouched ==
    ASSUME RowsInv, Kept, UNCHANGED rows
    PROVE  RowsInv' /\ Grown /\ VerdictKept
<1>1. rows \in Seq(Row)
  BY DEF RowsInv
<1>2. rows = [i \in RowIds |-> rows[i]] /\ \A i \in RowIds : rows[i] \in Row
  <2>1. rows \in [RowIds -> Row]
    BY <1>1, LenProperties DEF RowIds
  <2> QED BY <2>1
<1>3. RowsInv' /\ Grown
  BY <1>2, Changed DEF RowsInv, NotifiedForgotten
<1> QED BY <1>3 DEF VerdictKept

LEMMA FreshnessSet ==
    ASSUME RowsInv, Kept, NEW k, SetFreshnessCommitment(k)
    PROVE  RowsInv' /\ Grown /\ VerdictKept
<1>1. rows \in Seq(Row) /\ DOMAIN rows = RowIds
  BY DEF RowsInv, RowIds
<1>2. /\ rows' = [i \in RowIds |-> rows'[i]]
      /\ \A i \in RowIds : rows'[i] = IF i = k THEN [rows[i] EXCEPT !.fresh = TRUE] ELSE rows[i]
  BY <1>1 DEF SetFreshnessCommitment
<1>3. ASSUME NEW i \in RowIds
      PROVE  /\ rows'[i] \in Row
             /\ rows'[i].c = rows[i].c /\ rows'[i].type = rows[i].type
             /\ rows'[i].status = rows[i].status /\ rows'[i].by = rows[i].by
             /\ rows'[i].notified = rows[i].notified /\ rows'[i].email = rows[i].email
  <2>1. rows[i] \in Row
    BY <1>1, RowAt
  <2> DEFINE set == [rows[i] EXCEPT !.fresh = TRUE]
  <2>2. /\ set \in Row /\ set.c = rows[i].c /\ set.type = rows[i].type /\ set.status = rows[i].status
        /\ set.by = rows[i].by /\ set.notified = rows[i].notified /\ set.email = rows[i].email
    BY <2>1 DEF Row
  <2>3. rows'[i] = set \/ rows'[i] = rows[i]
    BY <1>2
  <2> HIDE DEF set
  <2> QED BY <2>1, <2>2, <2>3
<1>4. RowsInv' /\ Grown
  BY <1>2, <1>3, Changed DEF RowsInv, NotifiedForgotten
<1> QED BY <1>3, <1>4 DEF VerdictKept

LEMMA Notified ==
    ASSUME RowsInv, Kept, NEW k, MarkKYCNotified(k)
    PROVE  RowsInv' /\ Grown /\ VerdictKept
<1>1. rows \in Seq(Row) /\ DOMAIN rows = RowIds
  BY DEF RowsInv, RowIds
<1>2. /\ rows' = [i \in RowIds |-> rows'[i]]
      /\ \A i \in RowIds :
             rows'[i] = IF i = k THEN [rows[i] EXCEPT !.notified = TRUE, !.email = FALSE] ELSE rows[i]
  BY <1>1 DEF MarkKYCNotified
<1>3. ASSUME NEW i \in RowIds
      PROVE  /\ rows'[i] \in Row
             /\ rows'[i].c = rows[i].c /\ rows'[i].type = rows[i].type
             /\ rows'[i].status = rows[i].status /\ rows'[i].by = rows[i].by
             /\ rows'[i].notified => ~rows'[i].email
  <2>1. rows[i] \in Row
    BY <1>1, RowAt
  <2>2. rows[i].notified => ~rows[i].email
    BY DEF RowsInv, NotifiedForgotten
  <2> DEFINE set == [rows[i] EXCEPT !.notified = TRUE, !.email = FALSE]
  <2>3. /\ set \in Row /\ set.c = rows[i].c /\ set.type = rows[i].type /\ set.status = rows[i].status
        /\ set.by = rows[i].by /\ set.email = FALSE
    BY <2>1 DEF Row
  <2>4. rows'[i] = set \/ rows'[i] = rows[i]
    BY <1>2
  <2> HIDE DEF set
  <2> QED BY <2>1, <2>2, <2>3, <2>4
<1>4. RowsInv' /\ Grown
  BY <1>2, <1>3, Changed
<1> QED BY <1>3, <1>4 DEF VerdictKept

(* A verdict on a pending request, or the auto-issuer's on one whose       *)
(* credential has been issued.                                             *)
LEMMA Decided ==
    ASSUME RowsInv, Kept, NEW k, NEW status \in {"approved", "rejected"},
           NEW by \in {"human", "auto"}, UpdateKYCStatus(k, status, by),
           k \in RowIds =>
               \/ by = "human" /\ rows[k].status = "pending"
               \/ by = "auto" /\ status = "approved" /\ <<rows[k].type, rows[k].c>> \in everIssued
    PROVE  RowsInv' /\ Grown /\ VerdictKept
<1>1. rows \in Seq(Row) /\ DOMAIN rows = RowIds
  BY DEF RowsInv, RowIds
<1>2. /\ rows' = [i \in RowIds |-> rows'[i]]
      /\ \A i \in RowIds :
             rows'[i] = IF i = k THEN [rows[i] EXCEPT !.status = status, !.by = by] ELSE rows[i]
  BY <1>1 DEF UpdateKYCStatus
<1>3. ASSUME NEW i \in RowIds
      PROVE  /\ rows'[i] \in Row
             /\ rows'[i].c = rows[i].c /\ rows'[i].type = rows[i].type
             /\ rows'[i].notified = rows[i].notified /\ rows'[i].email = rows[i].email
             /\ i # k => rows'[i] = rows[i]
             /\ i = k => rows'[i].status = status /\ rows'[i].by = by
  <2>1. rows[i] \in Row
    BY <1>1, RowAt
  <2> DEFINE set == [rows[i] EXCEPT !.status = status, !.by = by]
  <2>2. /\ set \in Row /\ set.c = rows[i].c /\ set.type = rows[i].type /\ set.status = status
        /\ set.by = by /\ set.notified = rows[i].notified /\ set.email = rows[i].email
    BY <2>1 DEF Row
  <2>3. rows'[i] = IF i = k THEN set ELSE rows[i]
    BY <1>2
  <2> HIDE DEF set
  <2> QED BY <2>1, <2>2, <2>3
<1>4. RowsInv' /\ Grown
  BY <1>2, <1>3, Changed DEF RowsInv, NotifiedForgotten
<1>5. VerdictKept
  <2> SUFFICES ASSUME NEW i \in RowIds, rows[i].status # "pending", rows'[i].status # rows[i].status
               PROVE  /\ rows[i].status = "rejected" /\ rows'[i].status = "approved"
                      /\ rows'[i].by = "auto"
                      /\ <<rows[i].type, rows[i].c>> \in everIssued
    BY DEF VerdictKept
  <2>1. i = k
    BY <1>3
  <2>2. rows[i].status \in {"pending", "approved", "rejected"}
    BY <1>1, RowAt
  <2> QED BY <1>3, <2>1, <2>2
<1> QED BY <1>4, <1>5

-----------------------------------------------------------------------------
(* The auto-issuer's pass. *)

(* The request at the head of the snapshot exists.                         *)
LEMMA HeadExists ==
    ASSUME AutoInv, auto.pc \in {"next", "look", "issue", "mined"}
    PROVE  Req \in QueueEntry /\ Req.id \in RowIds /\ Turned \in [pc : AutoStep, queue : Seq(QueueEntry)]
           /\ (Turned.pc \in {"idle", "next"} /\ (Turned.pc = "next" => Turned.queue # << >>))
<1>1. auto.queue \in Seq(QueueEntry) /\ auto.queue # << >>
  BY DEF AutoInv
<1>2. Head(auto.queue) \in QueueEntry /\ Tail(auto.queue) \in Seq(QueueEntry)
  BY <1>1, HeadTailProperties
<1>3. Req.id \in RowIds
  BY <1>2 DEF Req, QueueEntry
<1> QED BY <1>2, <1>3 DEF Req, Turned, AutoStep

LEMMA AutoKept ==
    ASSUME AutoInv, rows \in Seq(Row), rows' \in Seq(Row), Grown, Kept,
           mails' \subseteq RowIds,
           \/ UNCHANGED auto
           \/ auto' = Turned /\ auto.pc \in {"next", "look", "issue", "mined"}
           \/ /\ auto.pc \in {"next", "look"}
              /\ auto' = [auto EXCEPT !.pc = "look"] \/ auto' = [auto EXCEPT !.pc = "issue"]
    PROVE  AutoInv'
<1>1. Len(rows) \in Nat /\ Len(rows') \in Nat
  OBVIOUS
<1>2. RowIds \subseteq RowIds'
  BY <1>1 DEF RowIds, Grown
<1>3. QueueEntry \subseteq QueueEntry'
  BY <1>2 DEF QueueEntry
<1>4. \A q \in Seq(QueueEntry) : q \in Seq(QueueEntry')
  BY <1>3, SeqMonotonic
<1>5. mails' \subseteq RowIds'
  BY <1>2
<1>6. CASE UNCHANGED auto
  <2>1. auto' \in [pc : AutoStep, queue : Seq(QueueEntry')]
    BY <1>4, <1>6 DEF AutoInv
  <2>2. auto.pc = "mined" => <<rows'[Req.id].type, rows'[Req.id].c>> \in everIssued'
    BY HeadExists DEF AutoInv, Grown, Kept
  <2>3. Req' = Req
    BY <1>6 DEF Req
  <2> QED BY <1>5, <1>6, <2>1, <2>2, <2>3 DEF AutoInv
<1>7. CASE auto' = Turned /\ auto.pc \in {"next", "look", "issue", "mined"}
  <2>1. PICK a : a = auto'
    OBVIOUS
  <2>2. /\ a \in [pc : AutoStep, queue : Seq(QueueEntry)]
        /\ a.pc \in {"idle", "next"} /\ (a.pc = "next" => a.queue # << >>)
    BY <1>7, <2>1, HeadExists
  <2>3. a \in [pc : AutoStep, queue : Seq(QueueEntry')]
    BY <1>4, <2>2
  <2> QED BY <1>5, <2>1, <2>2, <2>3 DEF AutoInv
<1>8. CASE /\ auto.pc \in {"next", "look"}
           /\ auto' = [auto EXCEPT !.pc = "look"] \/ auto' = [auto EXCEPT !.pc = "issue"]
  <2>1. auto' \in [pc : AutoStep, queue : Seq(QueueEntry')]
    BY <1>4, <1>8 DEF AutoInv, AutoStep
  <2>2. auto'.pc \in {"look", "issue"} /\ auto'.queue = auto.queue
    BY <1>8 DEF AutoInv
  <2> QED BY <1>5, <1>8, <2>1, <2>2 DEF AutoInv
<1> QED BY <1>6, <1>7, <1>8

(* What a step does to the rows, to the pass and to the rest, together.    *)
StepGood == KYCIInv' /\ Grown /\ VerdictKept

LEMMA Finish ==
    ASSUME KYCIInv, RowsInv' /\ Grown /\ VerdictKept, Kept, OutsideOK', UNCHANGED <<auto, mails>>
    PROVE  StepGood
<1>1. rows \in Seq(Row) /\ rows' \in Seq(Row) /\ mails' \subseteq RowIds /\ AutoInv
  BY DEF KYCIInv, RowsInv, AutoInv
<1>2. AutoInv'
  BY <1>1, AutoKept
<1> QED BY <1>2 DEF StepGood, KYCIInv

(* Applicants and issuances stay, so nothing is undone.                    *)
LEMMA KeptIfSame ==
    ASSUME UNCHANGED <<applicants, everIssued>> PROVE Kept
BY DEF Kept

-----------------------------------------------------------------------------
(* The handlers. *)

LEMMA SubmitStep ==
    ASSUME KYCIInv, NEW c \in Commitments, NEW t \in Types, NEW email \in BOOLEAN,
           NEW fresh \in BOOLEAN, Submit(c, t, email, fresh)
    PROVE  StepGood
<1>1. Kept /\ OutsideOK' /\ UNCHANGED <<auto, mails>>
  BY KeptIfSame DEF Submit, sumsubVars, chainVars, KYCIInv, OutsideOK
<1>2. RowsInv /\ rows \in Seq(Row)
  BY DEF KYCIInv, RowsInv
<1>3. CASE SetFreshnessCommitment(KYCByCommitment(c))
  BY <1>1, <1>2, <1>3, FreshnessSet, Finish
<1>4. CASE /\ InsertKYCRequest(c, t, email, fresh)
           /\ ~ (KYCByCommitment(c) # 0 /\ rows[KYCByCommitment(c)].status = "pending")
  <2>1. \A i \in RowIds : rows[i].c = c => rows[i].status # "pending"
    <3> SUFFICES ASSUME NEW i \in RowIds, rows[i].c = c, rows[i].status = "pending" PROVE FALSE
      OBVIOUS
    <3>1. RowsOf(c) # {}
      BY DEF RowsOf
    <3>2. PICK k \in RowIds : /\ k = KYCByCommitment(c) /\ rows[k].c = c
                             /\ \A j \in RowIds : rows[j].c = c => j <= k
      BY <1>2, <3>1, LatestRow
    <3>3. k <= i /\ i <= k
      BY <1>2, <3>2 DEF RowsInv, LastPending
    <3>4. k = i /\ k # 0
      BY <1>2, <3>3 DEF RowIds
    <3> QED BY <1>4, <3>2, <3>4
  <2>2. RowsInv' /\ Grown /\ VerdictKept
    BY <1>1, <1>2, <1>4, <2>1, Inserted DEF Submit
  <2> QED BY <1>1, <2>2, Finish
<1> QED BY <1>3, <1>4 DEF Submit

LEMMA AttachStep ==
    ASSUME KYCIInv, NEW c \in Commitments, AttachFreshness(c)
    PROVE  StepGood
<1>1. Kept /\ OutsideOK' /\ UNCHANGED <<auto, mails>>
  BY KeptIfSame DEF AttachFreshness, sumsubVars, chainVars, KYCIInv, OutsideOK
<1>2. RowsInv' /\ Grown /\ VerdictKept
  BY <1>1, FreshnessSet DEF AttachFreshness, KYCIInv
<1> QED BY <1>1, <1>2, Finish

LEMMA ReviewStep ==
    ASSUME KYCIInv, NEW i \in RowIds, NEW status \in {"approved", "rejected"}, Review(i, status)
    PROVE  StepGood
<1>1. Kept /\ OutsideOK' /\ UNCHANGED <<auto, mails>>
  BY KeptIfSame DEF Review, sumsubVars, chainVars, KYCIInv, OutsideOK
<1>2. RowsInv' /\ Grown /\ VerdictKept
  BY <1>1, Decided DEF Review, KYCIInv
<1> QED BY <1>1, <1>2, Finish

LEMMA InitStep ==
    ASSUME KYCIInv, NEW c \in Commitments, NEW email \in BOOLEAN, NEW fresh \in BOOLEAN,
           SumsubInit(c, email, fresh)
    PROVE  StepGood
<1>1. Kept /\ UNCHANGED <<rows, auto, mails>>
  BY KeptIfSame DEF SumsubInit, sumsubVars, dbVars, chainVars
<1>2. [kind |-> "init", c |-> c, email |-> email, fresh |-> fresh, delivery |-> 0, row |-> 0] \in Call
  BY DEF Call
<1>3. calls' \subseteq Call
  BY <1>2 DEF SumsubInit, NewCall, KYCIInv, OutsideOK
<1>4. OutsideOK'
  BY <1>3 DEF SumsubInit, sumsubVars, dbVars, chainVars, KYCIInv, OutsideOK
<1>5. RowsInv' /\ Grown /\ VerdictKept
  BY <1>1, Untouched DEF KYCIInv
<1> QED BY <1>1, <1>4, <1>5, Finish

(* The placeholder is inserted where the commitment has no request.        *)
LEMMA PlaceholderInserted ==
    ASSUME KYCIInv, Kept, NEW call \in Call, PlaceholderRow(call), applicants'[call.c] # "none"
    PROVE  RowsInv' /\ Grown /\ VerdictKept
<1>1. RowsInv /\ rows \in Seq(Row)
  BY DEF KYCIInv, RowsInv
<1>2. call.c \in Commitments /\ call.email \in BOOLEAN /\ call.fresh \in BOOLEAN /\ KYCVerified \in Types
  BY KYCAssumption DEF Call, KYCAssumption
<1>3. CASE KYCByCommitment(call.c) = 0 /\ InsertKYCRequest(call.c, KYCVerified, call.email, call.fresh)
  <2>1. \A i \in RowIds : rows[i].c = call.c => rows[i].status # "pending"
    BY <1>1, <1>3, LatestRow DEF RowIds, RowsOf
  <2> QED BY <1>1, <1>2, <1>3, <2>1, Inserted
<1>4. CASE SetFreshnessCommitment(KYCByCommitment(call.c))
  BY <1>1, <1>4, FreshnessSet
<1>5. CASE UNCHANGED rows
  BY <1>1, <1>5, Untouched
<1> QED BY <1>3, <1>4, <1>5 DEF PlaceholderRow

LEMMA InitFoundStep ==
    ASSUME KYCIInv, NEW call, InitFound(call)
    PROVE  StepGood
<1>1. Kept /\ UNCHANGED <<digests, applicants, deliveries, unacked, auto, mails, approvers, groups, issued, everIssued, faults>>
  BY KeptIfSame DEF InitFound, sumsubVars, chainVars
<1>2. call \in Call
  BY DEF InitFound, KYCIInv, OutsideOK
<1>3. [call EXCEPT !.kind = "initCreate"] \in Call
  BY <1>2 DEF Call
<1>4. calls' \subseteq Call
  BY <1>3 DEF InitFound, KYCIInv, OutsideOK
<1>5. OutsideOK'
  BY <1>1, <1>4 DEF KYCIInv, OutsideOK
<1>6. RowsInv' /\ Grown /\ VerdictKept
  <2>1. CASE UNCHANGED rows
    BY <1>1, <2>1, Untouched DEF KYCIInv
  <2>2. CASE PlaceholderRow(call) /\ applicants[call.c] # "none"
    BY <1>1, <1>2, <2>2, PlaceholderInserted
  <2> QED BY <2>1, <2>2 DEF InitFound
<1> QED BY <1>1, <1>5, <1>6, Finish

LEMMA InitCreatedStep ==
    ASSUME KYCIInv, NEW call, InitCreated(call)
    PROVE  StepGood
<1>1. UNCHANGED <<digests, deliveries, unacked, auto, mails, approvers, groups, issued, everIssued, faults>>
  BY DEF InitCreated, chainVars
<1>2. call \in Call /\ call.c \in Commitments
  BY DEF InitCreated, KYCIInv, OutsideOK, Call
<1>3. calls' \subseteq Call
  BY DEF InitCreated, KYCIInv, OutsideOK
<1>4. CASE applicants[call.c] # "none"
  <2>1. UNCHANGED <<rows, applicants>>
    BY <1>4 DEF InitCreated
  <2>2. Kept /\ OutsideOK'
    BY <1>1, <1>3, <2>1, KeptIfSame DEF KYCIInv, OutsideOK
  <2>3. RowsInv' /\ Grown /\ VerdictKept
    BY <2>1, <2>2, Untouched DEF KYCIInv
  <2> QED BY <1>1, <2>2, <2>3, Finish
<1>5. CASE /\ applicants[call.c] = "none" /\ PlaceholderRow(call)
           /\ applicants' = [applicants EXCEPT ![call.c] = "init"]
  <2>1. /\ applicants' \in [Commitments -> {"none", "init", "GREEN", "RED"}]
        /\ applicants'[call.c] = "init"
        /\ \A d \in Commitments : applicants[d] # "none" => applicants'[d] # "none"
    BY <1>2, <1>5 DEF KYCIInv, OutsideOK
  <2>2. Kept /\ OutsideOK'
    BY <1>1, <1>3, <2>1 DEF KYCIInv, OutsideOK, Kept
  <2>3. RowsInv' /\ Grown /\ VerdictKept
    BY <1>2, <1>5, <2>1, <2>2, PlaceholderInserted
  <2> QED BY <1>1, <2>2, <2>3, Finish
<1> QED BY <1>4, <1>5 DEF InitCreated

LEMMA SessionStep ==
    ASSUME KYCIInv, NEW c \in Commitments, StartVoucherSession(c)
    PROVE  StepGood
<1>1. UNCHANGED <<rows, digests, deliveries, unacked, calls, auto, mails, approvers, groups, issued, everIssued, faults>>
  BY DEF StartVoucherSession, dbVars, chainVars
<1>2. /\ applicants' \in [Commitments -> {"none", "init", "GREEN", "RED"}]
      /\ \A d \in Commitments : applicants[d] # "none" => applicants'[d] # "none"
  BY DEF StartVoucherSession, KYCIInv, OutsideOK
<1>3. Kept /\ OutsideOK'
  BY <1>1, <1>2 DEF Kept, KYCIInv, OutsideOK
<1>4. RowsInv' /\ Grown /\ VerdictKept
  BY <1>1, <1>3, Untouched DEF KYCIInv
<1> QED BY <1>1, <1>3, <1>4, Finish

LEMMA WebhookStep ==
    ASSUME KYCIInv, NEW n \in DOMAIN deliveries, Webhook(n)
    PROVE  StepGood
<1>1. Kept /\ UNCHANGED <<rows, applicants, deliveries, auto, mails, approvers, groups, issued, everIssued, faults>>
  BY KeptIfSame DEF Webhook, chainVars
<1>2. n \in Nat /\ deliveries[n] \in Commitments
  BY DEF KYCIInv, OutsideOK
<1>3. [kind |-> "webhook", c |-> deliveries[n], email |-> FALSE, fresh |-> FALSE,
       delivery |-> n, row |-> 0] \in Call
  BY <1>2 DEF Call
<1>4. calls' \subseteq Call /\ digests' \subseteq DOMAIN deliveries /\ unacked' \subseteq DOMAIN deliveries
  BY <1>3 DEF Webhook, NewCall, KYCIInv, OutsideOK
<1>5. OutsideOK'
  BY <1>1, <1>4 DEF KYCIInv, OutsideOK
<1>6. RowsInv' /\ Grown /\ VerdictKept
  BY <1>1, Untouched DEF KYCIInv
<1> QED BY <1>1, <1>5, <1>6, Finish

LEMMA WebhookVerdictStep ==
    ASSUME KYCIInv, NEW call, WebhookVerdict(call)
    PROVE  StepGood
<1> DEFINE existing == KYCByCommitment(call.c)
           answer == applicants[call.c]
<1>1. Kept /\ UNCHANGED <<digests, applicants, deliveries, auto, mails, approvers, groups, issued, everIssued, faults>>
  BY KeptIfSame DEF WebhookVerdict, chainVars
<1>2. call \in Call /\ call.c \in Commitments
  BY DEF WebhookVerdict, KYCIInv, OutsideOK, Call
<1>3. RowsInv /\ rows \in Seq(Row)
  BY DEF KYCIInv, RowsInv
<1>4. existing \in Nat
  BY <1>3, LatestRow DEF RowIds
<1>5. [call EXCEPT !.row = existing, !.kind = IF answer = "GREEN" THEN "approvalMail" ELSE "rejectionMail"] \in Call
  BY <1>2, <1>4 DEF Call
<1>6. calls' \subseteq Call /\ unacked' \subseteq DOMAIN deliveries
  BY <1>5 DEF WebhookVerdict, KYCIInv, OutsideOK
<1>7. OutsideOK'
  BY <1>1, <1>6 DEF KYCIInv, OutsideOK
<1>8. RowsInv' /\ Grown /\ VerdictKept
  <2>1. CASE UNCHANGED rows
    BY <1>1, <1>3, <2>1, Untouched
  <2>2. CASE existing = 0 /\ answer = "GREEN" /\ InsertKYCRequest(call.c, KYCVerified, FALSE, FALSE)
    <3>1. \A i \in RowIds : rows[i].c = call.c => rows[i].status # "pending"
      BY <1>3, <2>2, LatestRow DEF RowIds, RowsOf
    <3>2. applicants'[call.c] # "none" /\ KYCVerified \in Types
      BY <1>1, <2>2, KYCAssumption DEF KYCAssumption
    <3> QED BY <1>1, <1>2, <1>3, <2>2, <3>1, <3>2, Inserted
  <2> QED BY <2>1, <2>2 DEF WebhookVerdict
<1> QED BY <1>1, <1>7, <1>8, Finish

LEMMA WebhookMailedStep ==
    ASSUME KYCIInv, NEW call, WebhookMailed(call)
    PROVE  StepGood
<1>1. Kept /\ UNCHANGED <<digests, applicants, deliveries, auto, mails, approvers, groups, issued, everIssued>>
  BY KeptIfSame DEF WebhookMailed, chainVars
<1>2. faults' \in 0..MaxFaults
  BY KYCAssumption DEF WebhookMailed, Faulty, KYCIInv, OutsideOK, KYCAssumption
<1>3. OutsideOK'
  BY <1>1, <1>2 DEF WebhookMailed, KYCIInv, OutsideOK
<1>4. RowsInv' /\ Grown /\ VerdictKept
  BY <1>1, Notified, Untouched DEF WebhookMailed, KYCIInv
<1> QED BY <1>1, <1>3, <1>4, Finish

LEMMA SumsubFailsStep ==
    ASSUME KYCIInv, NEW call, SumsubFails(call)
    PROVE  StepGood
<1>1. UNCHANGED <<rows, digests, deliveries, unacked, auto, mails, approvers, groups, issued, everIssued>>
  BY DEF SumsubFails, dbVars, chainVars
<1>2. faults' \in 0..MaxFaults /\ calls' \subseteq Call
  BY KYCAssumption DEF SumsubFails, Faulty, KYCIInv, OutsideOK, KYCAssumption
<1>3. /\ applicants' \in [Commitments -> {"none", "init", "GREEN", "RED"}]
      /\ \A d \in Commitments : applicants[d] # "none" => applicants'[d] # "none"
  BY DEF SumsubFails, KYCIInv, OutsideOK
<1>4. Kept /\ OutsideOK'
  BY <1>1, <1>2, <1>3 DEF Kept, KYCIInv, OutsideOK
<1>5. RowsInv' /\ Grown /\ VerdictKept
  BY <1>1, <1>4, Untouched DEF KYCIInv
<1> QED BY <1>1, <1>4, <1>5, Finish

-----------------------------------------------------------------------------
(* The auto-issuer. *)

LEMMA PollStep ==
    ASSUME KYCIInv, NEW young \in Nat, AutoPoll(young)
    PROVE  StepGood
<1> DEFINE ripe == SubSeq(KYCQueue, young + 1, Len(KYCQueue))
<1>1. Kept /\ UNCHANGED <<rows, digests, applicants, deliveries, unacked, calls, mails, approvers, groups, issued, everIssued, faults>>
  BY KeptIfSame DEF AutoPoll, dbVars, sumsubVars, chainVars
<1>2. KYCQueue \in Seq(QueueEntry)
  BY QueueTyped DEF KYCIInv, RowsInv
<1>3. ripe \in Seq(QueueEntry)
  <2>1. PICK q \in Seq(QueueEntry) : q = KYCQueue
    BY <1>2
  <2>2. Len(q) \in Nat /\ \A i \in (young + 1)..Len(q) : q[i] \in QueueEntry
    BY ElementOfSeq
  <2>3. SubSeq(q, young + 1, Len(q)) \in Seq(QueueEntry)
    BY <2>2, SubSeqProperties
  <2> QED BY <2>1, <2>3
<1>4. ripe # << >> /\ auto' = [pc |-> "next", queue |-> ripe]
  BY DEF AutoPoll
<1> HIDE DEF ripe
<1>5. auto' \in [pc : AutoStep, queue : Seq(QueueEntry)] /\ auto'.queue # << >> /\ auto'.pc = "next"
  BY <1>3, <1>4 DEF AutoStep
<1>6. RowIds' = RowIds /\ QueueEntry' = QueueEntry
  BY <1>1 DEF RowIds, QueueEntry
<1>7. AutoInv'
  BY <1>1, <1>5, <1>6 DEF AutoInv, KYCIInv
<1>8. RowsInv' /\ Grown /\ VerdictKept
  BY <1>1, Untouched DEF KYCIInv
<1>9. OutsideOK'
  BY <1>1 DEF KYCIInv, OutsideOK
<1> QED BY <1>7, <1>8, <1>9 DEF StepGood, KYCIInv

LEMMA SkipStep ==
    ASSUME KYCIInv, \/ AutoSkip
                    \/ AutoCheck
                    \/ AutoFails
    PROVE  StepGood
<1>1. Kept /\ UNCHANGED <<rows, digests, applicants, deliveries, unacked, calls, mails, approvers, groups, issued, everIssued>>
  BY KeptIfSame DEF AutoSkip, AutoCheck, AutoFails, dbVars, sumsubVars, chainVars
<1>2. \/ auto' = Turned /\ auto.pc \in {"next", "look", "issue", "mined"}
      \/ auto' = [auto EXCEPT !.pc = "look"] /\ auto.pc = "next"
  BY DEF AutoSkip, AutoCheck, AutoFails
<1>3. faults' \in 0..MaxFaults
  BY KYCAssumption DEF AutoSkip, AutoCheck, AutoFails, Faulty, KYCIInv, OutsideOK, KYCAssumption
<1>4. RowsInv' /\ Grown /\ VerdictKept
  BY <1>1, Untouched DEF KYCIInv
<1>5. AutoInv'
  BY <1>1, <1>2, <1>4, AutoKept DEF KYCIInv, RowsInv, AutoInv
<1>6. OutsideOK'
  BY <1>1, <1>3 DEF KYCIInv, OutsideOK
<1> QED BY <1>4, <1>5, <1>6 DEF StepGood, KYCIInv

LEMMA LookStep ==
    ASSUME KYCIInv, AutoLook
    PROVE  StepGood
<1>1. Kept /\ UNCHANGED <<digests, applicants, deliveries, unacked, calls, mails, approvers, groups, issued, everIssued, faults>>
  BY KeptIfSame DEF AutoLook, sumsubVars, chainVars
<1>2. auto.pc = "look" /\ (auto' = Turned \/ auto' = [auto EXCEPT !.pc = "issue"])
  BY DEF AutoLook
<1>3. RowsInv' /\ Grown /\ VerdictKept
  <2>1. CASE UNCHANGED rows
    BY <1>1, <2>1, Untouched DEF KYCIInv
  <2>2. CASE Credential \in issued /\ UpdateKYCStatus(Req.id, "approved", "auto")
    <3>1. <<rows[Req.id].type, rows[Req.id].c>> \in everIssued
      BY <2>2 DEF Credential, KYCIInv, OutsideOK
    <3> QED BY <1>1, <2>2, <3>1, Decided DEF KYCIInv
  <2> QED BY <2>1, <2>2 DEF AutoLook
<1>4. AutoInv'
  BY <1>1, <1>2, <1>3, AutoKept DEF KYCIInv, RowsInv, AutoInv
<1>5. OutsideOK'
  BY <1>1 DEF KYCIInv, OutsideOK
<1> QED BY <1>3, <1>4, <1>5 DEF StepGood, KYCIInv

LEMMA IssueStep ==
    ASSUME KYCIInv, AutoIssue
    PROVE  StepGood
<1>1. UNCHANGED <<rows, digests, applicants, deliveries, unacked, calls, mails, approvers, groups, faults>> /\ auto.pc = "issue"
  BY DEF AutoIssue, dbVars, sumsubVars
<1>2. Req.id \in RowIds
  BY <1>1, HeadExists DEF KYCIInv
<1>3. Credential \in Types \X Commitments
  BY <1>2, RowAt DEF Credential, KYCIInv, RowsInv
<1>4. OutsideOK' /\ Kept
  BY <1>1, <1>3 DEF AutoIssue, KYCIInv, OutsideOK, Kept
<1>5. RowsInv' /\ Grown /\ VerdictKept
  BY <1>1, <1>4, Untouched DEF KYCIInv
<1>6. CASE auto' = Turned
  <2>1. AutoInv'
    BY <1>1, <1>4, <1>5, <1>6, AutoKept DEF KYCIInv, RowsInv, AutoInv
  <2> QED BY <1>4, <1>5, <2>1 DEF StepGood, KYCIInv
<1>7. CASE auto' = [auto EXCEPT !.pc = "mined"] /\ everIssued' = everIssued \cup {Credential}
  <2>1. auto' \in [pc : AutoStep, queue : Seq(QueueEntry)] /\ auto'.queue = auto.queue
    BY <1>7 DEF KYCIInv, AutoInv, AutoStep
  <2>2. RowIds' = RowIds /\ QueueEntry' = QueueEntry
    BY <1>1 DEF RowIds, QueueEntry
  <2>3. Req' = Req
    BY <2>1 DEF Req
  <2>4. <<rows'[Req.id].type, rows'[Req.id].c>> \in everIssued'
    BY <1>1, <1>7 DEF Credential
  <2>5. auto.queue # << >> /\ mails' \subseteq RowIds
    BY <1>1 DEF KYCIInv, AutoInv
  <2>6. AutoInv'
    BY <2>1, <2>2, <2>3, <2>4, <2>5 DEF AutoInv
  <2> QED BY <1>4, <1>5, <2>6 DEF StepGood, KYCIInv
<1> QED BY <1>6, <1>7 DEF AutoIssue

LEMMA RecordStep ==
    ASSUME KYCIInv, AutoRecord
    PROVE  StepGood
<1>1. Kept /\ UNCHANGED <<digests, applicants, deliveries, unacked, calls, approvers, groups, issued, everIssued, faults>>
      /\ auto.pc = "mined" /\ auto' = Turned
  BY KeptIfSame DEF AutoRecord, sumsubVars, chainVars
<1>2. Req.id \in RowIds /\ <<rows[Req.id].type, rows[Req.id].c>> \in everIssued
  BY <1>1, HeadExists DEF KYCIInv, AutoInv
<1>3. RowsInv' /\ Grown /\ VerdictKept
  BY <1>1, <1>2, Decided DEF AutoRecord, KYCIInv
<1>4. mails' \subseteq RowIds
  BY <1>2 DEF AutoRecord, KYCIInv, AutoInv
<1>5. AutoInv'
  BY <1>1, <1>3, <1>4, AutoKept DEF KYCIInv, RowsInv
<1>6. OutsideOK'
  BY <1>1 DEF KYCIInv, OutsideOK
<1> QED BY <1>3, <1>5, <1>6 DEF StepGood, KYCIInv

LEMMA MailedStep ==
    ASSUME KYCIInv, NEW i \in RowIds, AutoMailed(i)
    PROVE  StepGood
<1>1. Kept /\ UNCHANGED <<digests, applicants, deliveries, unacked, calls, auto, approvers, groups, issued, everIssued>>
  BY KeptIfSame DEF AutoMailed, sumsubVars, chainVars
<1>2. faults' \in 0..MaxFaults
  BY KYCAssumption DEF AutoMailed, Faulty, KYCIInv, OutsideOK, KYCAssumption
<1>3. RowsInv' /\ Grown /\ VerdictKept
  BY <1>1, Notified, Untouched DEF AutoMailed, KYCIInv
<1>4. mails' \subseteq RowIds
  BY DEF AutoMailed, KYCIInv, AutoInv
<1>5. AutoInv'
  BY <1>1, <1>3, <1>4, AutoKept DEF KYCIInv, RowsInv
<1>6. OutsideOK'
  BY <1>1, <1>2 DEF KYCIInv, OutsideOK
<1> QED BY <1>3, <1>5, <1>6 DEF StepGood, KYCIInv

-----------------------------------------------------------------------------
(* Sumsub, the chain and the process. *)

LEMMA VerdictStep ==
    ASSUME KYCIInv, NEW c \in Commitments, NEW answer \in {"GREEN", "RED"}, Verdict(c, answer)
    PROVE  StepGood
<1>1. UNCHANGED <<rows, digests, calls, auto, mails, approvers, groups, issued, everIssued, faults>>
  BY DEF Verdict, dbVars, chainVars
<1>2. /\ applicants' \in [Commitments -> {"none", "init", "GREEN", "RED"}]
      /\ \A d \in Commitments : applicants[d] # "none" => applicants'[d] # "none"
  BY DEF Verdict, KYCIInv, OutsideOK
<1>3. deliveries' \in Seq(Commitments) /\ DOMAIN deliveries \subseteq DOMAIN deliveries'
      /\ Len(deliveries) + 1 \in DOMAIN deliveries'
  BY DEF Verdict, KYCIInv, OutsideOK
<1>4. digests' \subseteq DOMAIN deliveries' /\ unacked' \subseteq DOMAIN deliveries'
  BY <1>1, <1>3 DEF Verdict, KYCIInv, OutsideOK
<1>5. Kept /\ OutsideOK'
  BY <1>1, <1>2, <1>3, <1>4 DEF Kept, KYCIInv, OutsideOK
<1>6. RowsInv' /\ Grown /\ VerdictKept
  BY <1>1, <1>5, Untouched DEF KYCIInv
<1> QED BY <1>1, <1>5, <1>6, Finish

LEMMA ChainStep ==
    ASSUME KYCIInv, NEW c \in Commitments, NEW t \in Types,
           IssueOnChain(t, c) \/ RevokeOnChain(t, c)
    PROVE  StepGood
<1>1. UNCHANGED <<rows, digests, applicants, deliveries, unacked, calls, auto, mails, approvers, groups, faults>>
  BY DEF IssueOnChain, RevokeOnChain, dbVars, sumsubVars
<1>2. /\ everIssued \subseteq everIssued' /\ issued' \subseteq everIssued'
      /\ everIssued' \subseteq Types \X Commitments
  <2>1. /\ issued \subseteq everIssued /\ everIssued \subseteq Types \X Commitments
        /\ <<t, c>> \in Types \X Commitments
    BY DEF KYCIInv, OutsideOK
  <2>2. CASE IssueOnChain(t, c)
    BY <2>1, <2>2 DEF IssueOnChain
  <2>3. CASE RevokeOnChain(t, c)
    BY <2>1, <2>3 DEF RevokeOnChain
  <2> QED BY <2>2, <2>3
<1>3. Kept /\ OutsideOK'
  BY <1>1, <1>2 DEF Kept, KYCIInv, OutsideOK
<1>4. RowsInv' /\ Grown /\ VerdictKept
  BY <1>1, <1>3, Untouched DEF KYCIInv
<1> QED BY <1>1, <1>3, <1>4, Finish

LEMMA RemoveStep ==
    ASSUME KYCIInv, NEW a, RemoveApprover(a)
    PROVE  StepGood
<1>1. UNCHANGED <<rows, digests, applicants, deliveries, unacked, calls, auto, mails, groups, issued, everIssued, faults>>
  BY DEF RemoveApprover, dbVars, sumsubVars
<1>2. approvers' \subseteq {"auto", "human"}
  BY DEF RemoveApprover, KYCIInv, OutsideOK
<1>3. Kept /\ OutsideOK'
  BY <1>1, <1>2 DEF Kept, KYCIInv, OutsideOK
<1>4. RowsInv' /\ Grown /\ VerdictKept
  BY <1>1, <1>3, Untouched DEF KYCIInv
<1> QED BY <1>1, <1>3, <1>4, Finish

LEMMA GroupStep ==
    ASSUME KYCIInv, NEW t, NEW to \in GroupStatus, GroupChanges(t, to)
    PROVE  StepGood
<1>1. UNCHANGED <<rows, digests, applicants, deliveries, unacked, calls, auto, mails, approvers, issued, everIssued, faults>>
  BY DEF GroupChanges, dbVars, sumsubVars
<1>2. groups' \in [Types -> GroupStatus]
  BY DEF GroupChanges, KYCIInv, OutsideOK
<1>3. Kept /\ OutsideOK'
  BY <1>1, <1>2 DEF Kept, KYCIInv, OutsideOK
<1>4. RowsInv' /\ Grown /\ VerdictKept
  BY <1>1, <1>3, Untouched DEF KYCIInv
<1> QED BY <1>1, <1>3, <1>4, Finish

LEMMA RestartStep ==
    ASSUME KYCIInv, Restart
    PROVE  StepGood
<1>1. Kept /\ UNCHANGED <<rows, digests, applicants, deliveries, unacked, approvers, groups, issued, everIssued>>
  BY KeptIfSame DEF Restart, dbVars, sumsubVars, chainVars
<1>2. faults' \in 0..MaxFaults /\ calls' = {} /\ mails' = {}
  BY KYCAssumption DEF Restart, Faulty, KYCIInv, OutsideOK, KYCAssumption
<1>3. OutsideOK'
  BY <1>1, <1>2 DEF KYCIInv, OutsideOK
<1>4. auto' \in [pc : AutoStep, queue : Seq(QueueEntry')] /\ auto'.pc \in {"off", "idle"}
  BY EmptySeq DEF Restart, NoPass, AutoStep
<1>5. AutoInv'
  BY <1>2, <1>4 DEF AutoInv
<1>6. RowsInv' /\ Grown /\ VerdictKept
  BY <1>1, Untouched DEF KYCIInv
<1> QED BY <1>3, <1>5, <1>6 DEF StepGood, KYCIInv

LEMMA KYCStarts == ASSUME KYCInit PROVE KYCIInv
<1> USE DEF KYCInit
<1>1. RowsInv
  <2>1. rows \in Seq(Row) /\ RowIds = {}
    BY EmptySeq DEF RowIds
  <2>2. LastPending /\ AutoApprovalBacked
    BY <2>1 DEF LastPending, AutoApprovalBacked
  <2>3. KYCVerifiedHasApplicant
    BY <2>1 DEF KYCVerifiedHasApplicant
  <2>4. NotifiedForgotten
    BY <2>1 DEF NotifiedForgotten
  <2> QED BY <2>1, <2>2, <2>3, <2>4 DEF RowsInv
<1>2. AutoInv
  <2>1. PICK pc \in {"off", "idle"} : auto = [pc |-> pc, queue |-> << >>]
    BY DEF NoPass
  <2>2. << >> \in Seq(QueueEntry)
    BY EmptySeq
  <2>3. auto \in [pc : AutoStep, queue : Seq(QueueEntry)] /\ auto.pc \in {"off", "idle"}
    BY <2>1, <2>2 DEF AutoStep
  <2> QED BY <2>3 DEF AutoInv
<1>3. OutsideOK
  BY KYCAssumption DEF OutsideOK, KYCAssumption, GroupStatus
<1> QED BY <1>1, <1>2, <1>3 DEF KYCIInv

LEMMA KYCStep == ASSUME KYCIInv, [KYCNext]_kycVars PROVE StepGood
<1>1. CASE UNCHANGED kycVars
  <2>1. RowsInv' /\ Grown /\ VerdictKept /\ Kept /\ OutsideOK' /\ UNCHANGED <<auto, mails>>
    BY <1>1, Untouched, KeptIfSame DEF kycVars, KYCIInv, OutsideOK
  <2> QED BY <2>1, Finish
<1>2. People \subseteq Commitments
  BY DEF People
<1>3. CASE KYCNext
  <2>1. CASE \E call \in calls : \/ InitFound(call) \/ InitCreated(call) \/ WebhookVerdict(call)
                                \/ WebhookMailed(call) \/ SumsubFails(call)
    BY <2>1, InitFoundStep, InitCreatedStep, WebhookVerdictStep, WebhookMailedStep, SumsubFailsStep
  <2>2. CASE AutoStepNext
    BY <2>2, SkipStep, LookStep, IssueStep, RecordStep DEF AutoStepNext
  <2>3. CASE \E young \in 0..(QueueLimit - 1) : AutoPoll(young)
    <3>1. PICK young \in 0..(QueueLimit - 1) : AutoPoll(young)
      BY <2>3
    <3>2. young \in Nat
      OBVIOUS
    <3> QED BY <3>1, <3>2, PollStep
  <2>4. CASE \E i \in RowIds : AutoMailed(i)
    BY <2>4, MailedStep
  <2>5. CASE \/ \E c \in People, t \in Types : IssueOnChain(t, c) \/ RevokeOnChain(t, c)
             \/ \E a \in {"auto", "human"} : RemoveApprover(a)
    BY <1>2, <2>5, ChainStep, RemoveStep
  <2>6. CASE \E t \in KnownTypes, to \in GroupStatus : "halt" \in scope /\ GroupChanges(t, to)
    BY <2>6, GroupStep
  <2> QED BY <1>2, <1>3, <2>1, <2>2, <2>3, <2>4, <2>5, <2>6, SubmitStep, SessionStep, AttachStep, ReviewStep, InitStep, WebhookStep,
             SkipStep, VerdictStep, RestartStep DEF KYCNext
<1> QED BY <1>1, <1>3

-----------------------------------------------------------------------------
(* For any requests, any interleaving of handlers, polls, mails, webhooks  *)
(* and crashes: the inductive invariant of the workflow.                   *)
THEOREM KYCInvariance == KYCSpec => []KYCIInv
<1>1. KYCInit => KYCIInv
  BY KYCStarts
<1>2. KYCIInv /\ [KYCNext]_kycVars => KYCIInv'
  BY KYCStep DEF StepGood
<1> QED BY <1>1, <1>2, PTL DEF KYCSpec

(* A commitment with a request keeps one.                                  *)
LEMMA RowsStay ==
    ASSUME KYCIInv, KYCIInv', Grown, NEW c, RowsOf(c) # {}
    PROVE  RowsOf(c)' # {}
<1>1. PICK i \in RowIds : rows[i].c = c
  BY DEF RowsOf
<1>2. Len(rows) \in Nat /\ Len(rows') \in Nat
  BY DEF KYCIInv, RowsInv
<1>3. i \in RowIds' /\ rows'[i].c = c
  BY <1>1, <1>2 DEF RowIds, Grown
<1> QED BY <1>3 DEF RowsOf

(* Reports that are due stay due, or are worked on.                        *)
LEMMA StillRecorded ==
    ASSUME KYCIInv, KYCIInv', Grown, PassedIsRecorded,
           faults' = 0 =>
               /\ faults = 0
               /\ \A c \in Commitments :
                      applicants'[c] = "GREEN" => applicants[c] = "GREEN" \/ ReportDue(c)'
               /\ \A n \in unacked \ digests :
                      deliveries'[n] = deliveries[n] /\ ReportDue(deliveries[n])'
               /\ \A call \in calls : call.kind = "webhook" =>
                      \/ ReportDue(call.c)' \/ RowsOf(call.c)' # {}
                      \/ applicants'[call.c] # "GREEN"
    PROVE  PassedIsRecorded'
<1> SUFFICES ASSUME faults' = 0, NEW c \in Commitments, applicants'[c] = "GREEN"
             PROVE  RowsOf(c)' # {} \/ ReportDue(c)'
  BY DEF PassedIsRecorded
<1>1. ReportDue(c)' \/ RowsOf(c) # {} \/ ReportDue(c)
  BY DEF PassedIsRecorded
<1>2. ASSUME RowsOf(c) # {} PROVE RowsOf(c)' # {}
  BY <1>2, RowsStay
<1>3. ASSUME ReportDue(c) PROVE RowsOf(c)' # {} \/ ReportDue(c)'
  <2>1. CASE \E n \in unacked \ digests : deliveries[n] = c
    BY <2>1
  <2>2. CASE \E call \in calls : call.kind = "webhook" /\ call.c = c
    BY <2>2
  <2> QED BY <1>3, <2>1, <2>2 DEF ReportDue
<1> QED BY <1>1, <1>2, <1>3

(* Nothing happens to applicants, deliveries and calls.                    *)
LEMMA RecordedKept ==
    ASSUME KYCIInv, KYCIInv', Grown, PassedIsRecorded,
           UNCHANGED <<digests, applicants, deliveries, unacked, calls>>, faults' = 0 => faults = 0
    PROVE  PassedIsRecorded'
<1>1. \A n \in unacked \ digests : ReportDue(deliveries[n])'
  BY DEF ReportDue
<1>2. \A call \in calls : call.kind = "webhook" => ReportDue(call.c)'
  BY DEF ReportDue
<1> QED BY <1>1, <1>2, StillRecorded

(* A call that is no webhook's first one comes or goes.                    *)
LEMMA RecordedOverCalls ==
    ASSUME KYCIInv, KYCIInv', Grown, PassedIsRecorded,
           UNCHANGED <<digests, deliveries, faults>>,
           \A c \in Commitments : applicants'[c] = "GREEN" => applicants[c] = "GREEN",
           \A n \in unacked \ digests : n \in unacked',
           \A call \in calls : call.kind = "webhook" => call \in calls'
    PROVE  PassedIsRecorded'
<1>1. \A n \in unacked \ digests : ReportDue(deliveries[n])'
  BY DEF ReportDue
<1>2. \A call \in calls : call.kind = "webhook" => ReportDue(call.c)'
  BY DEF ReportDue
<1> QED BY <1>1, <1>2, StillRecorded

(* A delivery in work has been recorded as seen.                           *)
CallsSeen == \A call \in calls : call.kind \in {"webhook", "approvalMail", "rejectionMail"}
                                 => call.delivery \in digests

(* The deliveries in work stay recorded; a report is not forgotten.        *)
LEMMA RecordedStep ==
    ASSUME KYCIInv, KYCIInv', Grown, CallsSeen, PassedIsRecorded, [KYCNext]_kycVars
    PROVE  CallsSeen' /\ PassedIsRecorded'
<1>0. faults \in Nat /\ faults' \in Nat /\ (Faulty /\ faults' = faults + 1 => faults' # 0)
  BY KYCAssumption DEF KYCIInv, OutsideOK, KYCAssumption
<1>1. CASE UNCHANGED <<digests, applicants, deliveries, unacked, calls>> /\ (faults' = 0 => faults = 0)
  BY <1>1, RecordedKept DEF CallsSeen
<1>2. CASE UNCHANGED kycVars
  BY <1>1, <1>2 DEF kycVars
<1>3. ASSUME NEW c \in Commitments, NEW email \in BOOLEAN, NEW fresh \in BOOLEAN, SumsubInit(c, email, fresh)
      PROVE  CallsSeen' /\ PassedIsRecorded'
  <2>1. UNCHANGED <<digests, applicants, deliveries, unacked, faults>>
    BY <1>3 DEF SumsubInit, dbVars, sumsubVars
  <2>2. PICK new : new.kind = "init" /\ calls' = calls \cup {new}
    BY <1>3 DEF SumsubInit, NewCall
  <2>3. CallsSeen'
    BY <2>1, <2>2 DEF CallsSeen
  <2> QED BY <2>1, <2>2, <2>3, RecordedOverCalls
<1>4. ASSUME NEW c \in Commitments, StartVoucherSession(c)
      PROVE  CallsSeen' /\ PassedIsRecorded'
  <2>1. UNCHANGED <<digests, deliveries, unacked, calls, faults>>
    BY <1>4 DEF StartVoucherSession, dbVars
  <2>2. \A d \in Commitments : applicants'[d] = "GREEN" => applicants[d] = "GREEN"
    BY <1>4 DEF StartVoucherSession, KYCIInv, OutsideOK
  <2> QED BY <2>1, <2>2, RecordedOverCalls DEF CallsSeen
<1>5. ASSUME NEW call \in calls, InitFound(call)
      PROVE  CallsSeen' /\ PassedIsRecorded'
  <2>1. UNCHANGED <<digests, applicants, deliveries, unacked, faults>> /\ call.kind = "init"
    BY <1>5 DEF InitFound, sumsubVars
  <2>2. PICK new : new.kind = "initCreate" /\ calls \ {call} \subseteq calls' /\ calls' \subseteq calls \cup {new}
    <3>1. [call EXCEPT !.kind = "initCreate"].kind = "initCreate"
      BY DEF KYCIInv, OutsideOK, Call
    <3> QED BY <1>5, <3>1 DEF InitFound
  <2>3. CallsSeen'
    BY <2>1, <2>2 DEF CallsSeen
  <2> QED BY <2>1, <2>2, <2>3, RecordedOverCalls
<1>6. ASSUME NEW call \in calls, InitCreated(call)
      PROVE  CallsSeen' /\ PassedIsRecorded'
  <2>1. UNCHANGED <<digests, deliveries, unacked, faults>> /\ calls' = calls \ {call} /\ call.kind = "initCreate"
    BY <1>6 DEF InitCreated
  <2>2. \A d \in Commitments : applicants'[d] = "GREEN" => applicants[d] = "GREEN"
    BY <1>6 DEF InitCreated, KYCIInv, OutsideOK
  <2>3. CallsSeen'
    BY <2>1 DEF CallsSeen
  <2> QED BY <2>1, <2>2, <2>3, RecordedOverCalls
<1>7. ASSUME NEW n \in DOMAIN deliveries, Webhook(n)
      PROVE  CallsSeen' /\ PassedIsRecorded'
  <2>1. UNCHANGED <<applicants, deliveries, faults>>
    BY <1>7 DEF Webhook
  <2>2. CASE n \in digests /\ unacked' = unacked \ {n} /\ UNCHANGED <<digests, calls>>
    BY <2>1, <2>2, RecordedOverCalls, StillRecorded DEF CallsSeen, ReportDue
  <2>3. CASE n \notin digests
    <3> DEFINE new == [kind |-> "webhook", c |-> deliveries[n], email |-> FALSE, fresh |-> FALSE,
                       delivery |-> n, row |-> 0]
    <3>1. digests' = digests \cup {n} /\ calls' = calls \cup {new} /\ UNCHANGED unacked
      BY <1>7, <2>3 DEF Webhook, NewCall
    <3>2. new.kind = "webhook" /\ new.c = deliveries[n] /\ new.delivery = n
      OBVIOUS
    <3> HIDE DEF new
    <3>3. CallsSeen'
      BY <3>1, <3>2 DEF CallsSeen
    <3>4. \A m \in unacked \ digests : ReportDue(deliveries[m])'
      BY <2>1, <3>1, <3>2 DEF ReportDue
    <3>5. \A call \in calls : call.kind = "webhook" => ReportDue(call.c)'
      BY <3>1 DEF ReportDue
    <3> QED BY <2>1, <3>3, <3>4, <3>5, StillRecorded
  <2> QED BY <1>7, <2>2, <2>3 DEF Webhook
<1>8. ASSUME NEW call \in calls, WebhookVerdict(call)
      PROVE  CallsSeen' /\ PassedIsRecorded'
  <2>1. UNCHANGED <<digests, applicants, deliveries, faults>> /\ call.kind = "webhook"
    BY <1>8 DEF WebhookVerdict
  <2>2. call \in Call /\ call.c \in Commitments /\ call.delivery \in digests
    BY <2>1 DEF KYCIInv, OutsideOK, Call, CallsSeen
  <2>3. \A n \in unacked \ digests : n \in unacked'
    BY <1>8, <2>2 DEF WebhookVerdict
  <2>4. CallsSeen'
    <3>1. \A x \in calls' : x \in calls \/ x.delivery = call.delivery
      BY <1>8, <2>2 DEF WebhookVerdict, Call
    <3> QED BY <2>1, <2>2, <3>1 DEF CallsSeen
  <2>5. \A x \in calls : x # call => x \in calls'
    BY <1>8 DEF WebhookVerdict
  <2>6. applicants'[call.c] = "GREEN" => RowsOf(call.c)' # {}
    <3>1. CASE RowsOf(call.c) # {}
      BY <3>1, RowsStay
    <3>2. CASE RowsOf(call.c) = {} /\ applicants[call.c] = "GREEN"
      <4>1. InsertKYCRequest(call.c, KYCVerified, FALSE, FALSE)
        BY <1>8, <3>2 DEF WebhookVerdict, KYCByCommitment
      <4>2. rows \in Seq(Row) /\ rows' \in Seq(Row)
        BY DEF KYCIInv, RowsInv
      <4> DEFINE new == [c |-> call.c, type |-> KYCVerified, status |-> "pending", by |-> "none",
                         email |-> FALSE, notified |-> FALSE, fresh |-> FALSE]
      <4>3. rows' = Append(rows, new) /\ new.c = call.c
        BY <4>1 DEF InsertKYCRequest
      <4>4. new \in Row
        BY <2>2, KYCAssumption DEF Row, KYCAssumption
      <4> HIDE DEF new
      <4>5. Len(rows') = Len(rows) + 1 /\ rows'[Len(rows) + 1] = new /\ Len(rows) \in Nat
        BY <4>2, <4>3, <4>4
      <4> QED BY <4>3, <4>5 DEF RowsOf, RowIds
    <3> QED BY <2>1, <3>1, <3>2
  <2>7. \A n \in unacked \ digests : ReportDue(deliveries[n])'
    BY <2>1, <2>3 DEF ReportDue
  <2>8. \A x \in calls : x.kind = "webhook" =>
            ReportDue(x.c)' \/ RowsOf(x.c)' # {} \/ applicants'[x.c] # "GREEN"
    <3> TAKE x \in calls
    <3>1. CASE x = call
      BY <2>6, <3>1
    <3>2. CASE x # call
      BY <2>5, <3>2 DEF ReportDue
    <3> QED BY <3>1, <3>2
  <2> QED BY <2>1, <2>4, <2>7, <2>8, StillRecorded
<1>9. ASSUME NEW call \in calls, WebhookMailed(call)
      PROVE  CallsSeen' /\ PassedIsRecorded'
  <2>1. /\ UNCHANGED <<digests, applicants, deliveries>> /\ calls' = calls \ {call}
        /\ unacked' = unacked \ {call.delivery} /\ call.kind \in {"approvalMail", "rejectionMail"}
    BY <1>9 DEF WebhookMailed
  <2>2. CallsSeen' /\ call.delivery \in digests
    BY <2>1 DEF CallsSeen
  <2>3. faults' = 0 => faults = 0
    BY <1>0, <1>9 DEF WebhookMailed
  <2>4. \A n \in unacked \ digests : ReportDue(deliveries[n])'
    BY <2>1, <2>2 DEF ReportDue
  <2>5. \A x \in calls : x.kind = "webhook" => ReportDue(x.c)'
    BY <2>1 DEF ReportDue
  <2> QED BY <2>1, <2>2, <2>3, <2>4, <2>5, StillRecorded
<1>10. ASSUME NEW call \in calls, SumsubFails(call)
       PROVE  CallsSeen' /\ PassedIsRecorded'
  <2>1. faults' # 0 /\ calls' \subseteq calls /\ UNCHANGED digests
    BY <1>0, <1>10 DEF SumsubFails, dbVars
  <2> QED BY <2>1 DEF CallsSeen, PassedIsRecorded
<1>11. ASSUME NEW c \in Commitments, NEW answer \in {"GREEN", "RED"}, Verdict(c, answer)
       PROVE  CallsSeen' /\ PassedIsRecorded'
  <2> DEFINE m == Len(deliveries) + 1
  <2>1. /\ UNCHANGED <<digests, calls, faults>> /\ unacked' = unacked \cup {m}
        /\ deliveries' = Append(deliveries, c) /\ applicants' = [applicants EXCEPT ![c] = answer]
    BY <1>11 DEF Verdict, dbVars
  <2>2. deliveries \in Seq(Commitments) /\ digests \subseteq DOMAIN deliveries /\ unacked \subseteq DOMAIN deliveries
    BY DEF KYCIInv, OutsideOK
  <2>3. m \notin digests /\ deliveries'[m] = c /\ \A n \in DOMAIN deliveries : deliveries'[n] = deliveries[n]
    BY <2>1, <2>2
  <2> HIDE DEF m
  <2>4. CallsSeen'
    BY <2>1 DEF CallsSeen
  <2>5. ReportDue(c)'
    BY <2>1, <2>3 DEF ReportDue
  <2>6. \A n \in unacked \ digests : deliveries'[n] = deliveries[n] /\ ReportDue(deliveries[n])'
    <3> TAKE n \in unacked \ digests
    <3>1. deliveries'[n] = deliveries[n]
      BY <2>2, <2>3
    <3>2. n \in unacked' \ digests'
      BY <2>1
    <3> QED BY <3>1, <3>2 DEF ReportDue
  <2>7. \A x \in calls : x.kind = "webhook" => ReportDue(x.c)'
    BY <2>1 DEF ReportDue
  <2>8. \A d \in Commitments : applicants'[d] = "GREEN" => applicants[d] = "GREEN" \/ ReportDue(d)'
    BY <2>1, <2>5 DEF KYCIInv, OutsideOK
  <2> QED BY <2>1, <2>4, <2>6, <2>7, <2>8, StillRecorded
<1>12. CASE Restart
  <2>1. faults' # 0 /\ calls' = {}
    BY <1>0, <1>12 DEF Restart
  <2> QED BY <2>1 DEF CallsSeen, PassedIsRecorded
<1>13. CASE KYCNext
  <2>1. People \subseteq Commitments
    BY DEF People
  <2>2. ASSUME NEW c \in Commitments, NEW t, NEW email, NEW fresh, Submit(c, t, email, fresh) \/ AttachFreshness(c)
        PROVE  CallsSeen' /\ PassedIsRecorded'
    BY <1>1, <2>2 DEF Submit, AttachFreshness, sumsubVars
  <2>3. ASSUME NEW i, NEW status, Review(i, status) PROVE CallsSeen' /\ PassedIsRecorded'
    BY <1>1, <2>3 DEF Review, sumsubVars
  <2>4. CASE AutoStepNext \/ AutoFails
    <3>1. UNCHANGED <<digests, applicants, deliveries, unacked, calls>> /\ (faults' = 0 => faults = 0)
      BY <1>0, <2>4 DEF AutoStepNext, AutoSkip, AutoCheck, AutoLook, AutoIssue, AutoRecord, AutoFails, dbVars, sumsubVars
    <3> QED BY <1>1, <3>1
  <2>5. ASSUME NEW young, AutoPoll(young) PROVE CallsSeen' /\ PassedIsRecorded'
    BY <1>1, <2>5 DEF AutoPoll, dbVars, sumsubVars
  <2>6. ASSUME NEW i, AutoMailed(i) PROVE CallsSeen' /\ PassedIsRecorded'
    BY <1>0, <1>1, <2>6 DEF AutoMailed, sumsubVars
  <2>7. ASSUME NEW t, NEW c, IssueOnChain(t, c) \/ RevokeOnChain(t, c) PROVE CallsSeen' /\ PassedIsRecorded'
    BY <1>1, <2>7 DEF IssueOnChain, RevokeOnChain, dbVars, sumsubVars
  <2>8. ASSUME NEW a, RemoveApprover(a) PROVE CallsSeen' /\ PassedIsRecorded'
    BY <1>1, <2>8 DEF RemoveApprover, dbVars, sumsubVars
  <2>9. ASSUME NEW t, NEW to, GroupChanges(t, to) PROVE CallsSeen' /\ PassedIsRecorded'
    BY <1>1, <2>9 DEF GroupChanges, dbVars, sumsubVars
  <2> QED BY <1>3, <1>4, <1>5, <1>6, <1>7, <1>8, <1>9, <1>10, <1>11, <1>12, <1>13,
             <2>1, <2>2, <2>3, <2>4, <2>5, <2>6, <2>7, <2>8, <2>9 DEF KYCNext
<1> QED BY <1>2, <1>13

(* For any deliveries and repeats, in any order: who passed has a request  *)
(* or a report that is still to be worked on, as long as nothing failed.   *)
THEOREM PassedRecorded == KYCSpec => []PassedIsRecorded
<1>1. KYCInit => CallsSeen /\ PassedIsRecorded
  BY DEF KYCInit, CallsSeen, PassedIsRecorded
<1>2. KYCIInv /\ KYCIInv' /\ CallsSeen /\ PassedIsRecorded /\ [KYCNext]_kycVars
          => (CallsSeen /\ PassedIsRecorded)'
  <2>1. KYCIInv /\ [KYCNext]_kycVars => Grown
    BY KYCStep DEF StepGood
  <2> QED BY <2>1, RecordedStep
<1> QED BY <1>1, <1>2, KYCInvariance, PTL DEF KYCSpec

(* At most one request of a commitment is pending, the latest; rows of     *)
(* Sumsub's type have an applicant; who was told is forgotten, and who     *)
(* passed is not.                                                          *)
THEOREM WorkflowCorrect == KYCSpec => []KYCInv
<1>1. KYCIInv /\ PassedIsRecorded => KYCInv
  <2> SUFFICES ASSUME KYCIInv, PassedIsRecorded PROVE KYCInv
    OBVIOUS
  <2>1. KYCTypeOK
    BY DEF KYCTypeOK, KYCIInv, RowsInv, AutoInv, OutsideOK
  <2>2. OnePending
    <3> SUFFICES ASSUME NEW i \in RowIds, rows[i].status = "pending"
                 PROVE  i = KYCByCommitment(rows[i].c)
      BY DEF OnePending
    <3>1. RowsOf(rows[i].c) # {}
      BY DEF RowsOf
    <3>2. PICK k \in RowIds : /\ k = KYCByCommitment(rows[i].c) /\ rows[k].c = rows[i].c
                             /\ \A j \in RowIds : rows[j].c = rows[i].c => j <= k
      BY <3>1, LatestRow DEF KYCIInv, RowsInv
    <3>3. k <= i /\ i <= k
      BY <3>2 DEF KYCIInv, RowsInv, LastPending
    <3>4. i \in Nat /\ k \in Nat
      BY DEF RowIds
    <3> QED BY <3>2, <3>3, <3>4
  <2> QED BY <2>1, <2>2 DEF KYCInv, KYCIInv, RowsInv
<1> QED BY <1>1, KYCInvariance, PassedRecorded, PTL

(* Whatever fails, reverts or is answered late, the auto-issuer approves   *)
(* no request whose credential was never issued.                           *)
THEOREM AutoApprovalsBacked == KYCSpec => []AutoApprovalBacked
<1>1. KYCIInv => AutoApprovalBacked
  BY DEF KYCIInv, RowsInv
<1> QED BY <1>1, KYCInvariance, PTL

(* A closed request keeps its verdict through any number of steps, but for *)
(* the auto-issuer's approval after the credential was issued.             *)
THEOREM VerdictsStand == KYCSpec => VerdictStands
<1>1. KYCIInv /\ [KYCNext]_kycVars =>
        [\A i \in RowIds :
            rows[i].status # "pending" /\ rows'[i].status # rows[i].status =>
                /\ rows[i].status = "rejected" /\ rows'[i].status = "approved"
                /\ rows'[i].by = "auto"
                /\ <<rows[i].type, rows[i].c>> \in everIssued]_kycVars
  BY KYCStep DEF StepGood, VerdictKept
<1> QED BY <1>1, KYCInvariance, PTL DEF KYCSpec, VerdictStands

-----------------------------------------------------------------------------
(* The vouchers. *)

(* A call that waits for Sumsub is for a session that exists; an answer    *)
(* that carries a signature carries one that was made.                     *)
SignatureMade ==
    \A r \in requests : /\ r.pc = "signature" => r.call \in signed
                        /\ r.pc = "fetching" => r.call.session \in created

(* Only commitments with a signature were claimed.                         *)
ClaimsSigned == claimed \subseteq {x.c : x \in signed}

(* The invariant is inductive with what the answers under way carry.       *)
VoucherIInv ==
    /\ VoucherTypeOK
    /\ OneVoucherPerSession /\ SpentExactly /\ PageBacked
    /\ SignatureMade /\ ClaimsSigned /\ IsFiniteSet(spent)

LEMMA VoucherStarts == ASSUME VoucherAssumption, VoucherInit PROVE VoucherIInv
<1> USE VoucherAssumption DEF VoucherAssumption, VoucherInit
<1>1. VoucherTypeOK
  <2>1. page \in [Browsers -> Page] /\ \A b \in Browsers : page[b] = Intro
    BY DEF Page, Stages, Intro
  <2>2. sent \in [Browsers -> 0..MaxRequests]
    BY SMT
  <2> QED BY <2>1, <2>2 DEF VoucherTypeOK, Intro
<1>2. OneVoucherPerSession /\ SpentExactly /\ SignatureMade /\ ClaimsSigned
  BY DEF OneVoucherPerSession, SpentExactly, SignatureMade, ClaimsSigned
<1>3. PageBacked
  BY SMT DEF PageBacked, Intro
<1>4. IsFiniteSet(spent)
  BY FS_EmptySet
<1> QED BY <1>1, <1>2, <1>3, <1>4 DEF VoucherIInv

-----------------------------------------------------------------------------
(* Steps of a tab. *)

(* What the invariant says of sessions, signatures and claims is kept by a *)
(* step that changes none of them.                                         *)
LEMMA NothingSigned ==
    ASSUME VoucherIInv, UNCHANGED <<spent, signed, claimed>>,
           \A s \in spent : verdict'[s] = verdict[s]
    PROVE  (OneVoucherPerSession /\ SpentExactly /\ ClaimsSigned /\ IsFiniteSet(spent))'
<1>1. OneVoucherPerSession'
  BY DEF VoucherIInv, OneVoucherPerSession
<1>2. SpentExactly'
  BY DEF VoucherIInv, SpentExactly
<1>3. ClaimsSigned'
  BY DEF VoucherIInv, ClaimsSigned
<1>4. IsFiniteSet(spent)'
  BY DEF VoucherIInv
<1> QED BY <1>1, <1>2, <1>3, <1>4

LEMMA ConnectStep ==
    ASSUME VoucherAssumption, VoucherIInv,
           NEW b \in Browsers, NEW s \in Sessions, NEW answered \in BOOLEAN,
           ConnectAndVerify(b, s, answered)
    PROVE  VoucherIInv'
<1> USE VoucherAssumption DEF VoucherAssumption, VoucherIInv, ConnectAndVerify, serverVars, claimVars
<1>1. s \notin spent
  BY DEF VoucherTypeOK
<1>2. page' \in [Browsers -> Page]
  BY SMT DEF VoucherTypeOK, Page, Stages
<1>3. \A t \in Browsers : page'[t].stage = "intro" <=> page'[t].session = NoSession
  BY SMT DEF VoucherTypeOK, Page
<1>4. VoucherTypeOK'
  BY <1>2, <1>3, SMT DEF VoucherTypeOK
<1>5. PageBacked'
  BY SMT DEF VoucherTypeOK, PageBacked
<1>6. \A t \in spent : verdict'[t] = verdict[t]
  BY <1>1, SMT DEF VoucherTypeOK
<1>7. (OneVoucherPerSession /\ SpentExactly /\ ClaimsSigned /\ IsFiniteSet(spent))'
  BY <1>6, NothingSigned
<1>8. SignatureMade'
  BY DEF SignatureMade
<1> QED BY <1>4, <1>5, <1>7, <1>8

(* A new call arrives.                                                     *)
LEMMA ArrivalStep ==
    ASSUME VoucherIInv, NEW b \in Browsers, NEW s \in Sessions,
           NEW c \in VoucherCommitments \cup {Malformed},
           sent[b] < MaxRequests, sent' = [sent EXCEPT ![b] = @ + 1],
           requests' = requests \cup
             {[call |-> [n |-> sent[b] + 1, b |-> b, session |-> s, c |-> c], pc |-> "arriving"]},
           UNCHANGED <<serverVars, verdict, page, claimVars, lossy>>,
           VoucherAssumption
    PROVE  VoucherIInv'
<1> USE DEF VoucherAssumption, VoucherIInv, serverVars, claimVars
<1> DEFINE call == [n |-> sent[b] + 1, b |-> b, session |-> s, c |-> c]
<1>1. sent[b] + 1 \in 1..MaxRequests /\ sent' \in [Browsers -> 0..MaxRequests]
  BY SMT DEF VoucherTypeOK
<1>2. call \in Request
  BY <1>1 DEF Request
<1>3. requests' = requests \cup {[call |-> call, pc |-> "arriving"]}
  OBVIOUS
<1> HIDE DEF call
<1>4. VoucherTypeOK'
  BY <1>1, <1>2, <1>3, SMT DEF VoucherTypeOK
<1>5. SignatureMade'
  BY <1>3, SMT DEF SignatureMade
<1>6. PageBacked'
  BY DEF PageBacked
<1>7. (OneVoucherPerSession /\ SpentExactly /\ ClaimsSigned /\ IsFiniteSet(spent))'
  BY NothingSigned
<1> QED BY <1>4, <1>5, <1>6, <1>7

(* The stage of a tab changes, or it starts over; calls disappear.         *)
LEMMA TabStep ==
    ASSUME VoucherIInv, requests' \subseteq requests,
           page' \in [Browsers -> Page],
           \A t \in Browsers : page'[t].stage = "intro" <=> page'[t].session = NoSession,
           PageBacked',
           UNCHANGED <<serverVars, verdict, sent, claimVars, lossy>>
    PROVE  VoucherIInv'
<1> USE DEF VoucherIInv, serverVars, claimVars
<1>1. VoucherTypeOK'
  BY SMT DEF VoucherTypeOK
<1>2. SignatureMade'
  BY DEF SignatureMade
<1>3. (OneVoucherPerSession /\ SpentExactly /\ ClaimsSigned /\ IsFiniteSet(spent))'
  BY NothingSigned
<1> QED BY <1>1, <1>2, <1>3

LEMMA ReplyStep ==
    ASSUME VoucherAssumption, VoucherIInv, NEW r \in requests, VoucherReply(r)
    PROVE  VoucherIInv'
<1> USE VoucherAssumption DEF VoucherAssumption, VoucherIInv
<1> DEFINE b == r.call.b
<1>1. r.call \in Request /\ b \in Browsers /\ r.call.session \in Sessions
  BY SMT DEF VoucherTypeOK, Request
<1>2. requests' \subseteq requests /\ UNCHANGED <<serverVars, verdict, sent, claimVars, lossy>>
  BY DEF VoucherReply
<1>3. CASE page' = page
  <2>1. PageBacked'
    BY <1>2, <1>3 DEF PageBacked, serverVars
  <2> QED BY <1>2, <1>3, <2>1, TabStep DEF VoucherTypeOK
<1>4. CASE /\ r.pc = "signature" /\ page[b].session = r.call.session
           /\ r.call.c = CommitmentIn[b]
           /\ page' = [page EXCEPT ![b].stage = "claim"]
  <2>1. page' \in [Browsers -> Page]
    BY <1>1, <1>4, SMT DEF VoucherTypeOK, Page, Stages
  <2>2. \A t \in Browsers : page'[t].stage = "intro" <=> page'[t].session = NoSession
    BY <1>1, <1>4, SMT DEF VoucherTypeOK, Page
  <2>3. r.call \in signed
    BY <1>4 DEF SignatureMade
  <2>4. PageBacked'
    <3> SUFFICES ASSUME NEW t \in Browsers, page'[t].stage \in {"claim", "claiming", "done"}
                 PROVE  \E x \in signed' : x.session = page'[t].session /\ x.c = CommitmentIn[t]
      BY DEF PageBacked
    <3>1. signed' = signed /\ page'[t].session = page[t].session
      BY <1>1, <1>2, <1>4, SMT DEF VoucherTypeOK, Page, serverVars
    <3>2. CASE t = b
      BY <1>4, <2>3, <3>1, <3>2
    <3>3. CASE t # b
      BY <1>1, <1>4, <3>1, <3>3, SMT DEF PageBacked, VoucherTypeOK
    <3> QED BY <3>2, <3>3
  <2> QED BY <1>2, <2>1, <2>2, <2>4, TabStep
<1> QED BY <1>3, <1>4 DEF VoucherReply

LEMMA ReloadStep ==
    ASSUME VoucherAssumption, VoucherIInv, NEW b \in Browsers, Reload(b)
    PROVE  VoucherIInv'
<1> USE VoucherAssumption DEF VoucherAssumption, VoucherIInv
<1>1. requests' \subseteq requests /\ UNCHANGED <<serverVars, verdict, sent, claimVars, lossy>>
  BY DEF Reload
<1>2. page' \in [Browsers -> Page]
  BY SMT DEF VoucherTypeOK, Reload, Page, Intro, Stages
<1>3. \A t \in Browsers : page'[t].stage = "intro" <=> page'[t].session = NoSession
  BY SMT DEF VoucherTypeOK, Reload, Intro
<1>4. PageBacked'
  BY <1>1, SMT DEF VoucherTypeOK, PageBacked, Reload, Intro, serverVars
<1> QED BY <1>1, <1>2, <1>3, <1>4, TabStep

LEMMA ConfirmedStep ==
    ASSUME VoucherAssumption, VoucherIInv, NEW b \in Browsers, ClaimConfirmed(b)
    PROVE  VoucherIInv'
<1> USE VoucherAssumption DEF VoucherAssumption, VoucherIInv, ClaimConfirmed
<1>1. requests' \subseteq requests /\ UNCHANGED <<serverVars, verdict, sent, claimVars, lossy>>
  OBVIOUS
<1>2. page' \in [Browsers -> Page]
  BY SMT DEF VoucherTypeOK, Page, Stages
<1>3. \A t \in Browsers : page'[t].stage = "intro" <=> page'[t].session = NoSession
  BY SMT DEF VoucherTypeOK, Page
<1>4. PageBacked'
  BY <1>1, SMT DEF VoucherTypeOK, PageBacked, Page, serverVars
<1> QED BY <1>1, <1>2, <1>3, <1>4, TabStep

-----------------------------------------------------------------------------
(* Steps of the server. *)

(* A call goes on without a signature.                                     *)
LEMMA CallStep ==
    ASSUME VoucherIInv, NEW r \in requests, NEW pc \in {"fetching", "refused"},
           pc = "fetching" => r.call.session \in created,
           requests' = At(r, pc),
           UNCHANGED <<serverVars, verdict, page, sent, claimVars, lossy>>
    PROVE  VoucherIInv'
<1> USE DEF VoucherIInv, serverVars, claimVars
<1> DEFINE next == [r EXCEPT !.pc = pc]
<1>1. next = [call |-> r.call, pc |-> pc] /\ r.call \in Request
  BY SMT DEF VoucherTypeOK
<1>2. requests' = (requests \ {r}) \cup {next}
  BY DEF At
<1> HIDE DEF next
<1>3. VoucherTypeOK'
  BY <1>1, <1>2, SMT DEF VoucherTypeOK
<1>4. SignatureMade'
  BY <1>1, <1>2, SMT DEF SignatureMade
<1>5. PageBacked'
  BY DEF PageBacked
<1>6. (OneVoucherPerSession /\ SpentExactly /\ ClaimsSigned /\ IsFiniteSet(spent))'
  BY NothingSigned
<1> QED BY <1>3, <1>4, <1>5, <1>6

(* The signature: the session was unspent, so no call for it was signed.   *)
LEMMA SignStep ==
    ASSUME VoucherIInv, NEW r \in Stored("fetching"),
           verdict[r.call.session] = "GREEN",
           SpendVoucherSession(r.call.session),
           requests' = At(r, "signature"), signed' = signed \cup {r.call},
           UNCHANGED <<created, verdict, page, sent, claimVars, lossy>>
    PROVE  VoucherIInv'
<1> USE DEF VoucherIInv, claimVars
<1> DEFINE next == [r EXCEPT !.pc = "signature"]
           call == r.call
<1>0. r \in requests
  BY DEF Stored
<1>1. next = [call |-> call, pc |-> "signature"] /\ call \in Request
  BY <1>0, SMT DEF VoucherTypeOK
<1>2. requests' = (requests \ {r}) \cup {next}
  BY DEF At
<1>3. /\ call.session \notin spent /\ spent' = spent \cup {call.session}
      /\ signed' = signed \cup {call} /\ verdict[call.session] = "GREEN"
      /\ call.session \in created
  BY <1>0 DEF SpendVoucherSession, SignatureMade, Stored
<1> HIDE DEF next, call
<1>4. VoucherTypeOK'
  BY <1>1, <1>2, <1>3, SMT DEF VoucherTypeOK
<1>5. \A x \in signed : x.session # call.session
  BY <1>3 DEF SpentExactly
<1>6. OneVoucherPerSession'
  BY <1>3, <1>5 DEF OneVoucherPerSession
<1>7. SpentExactly'
  <2>1. spent' = {x.session : x \in signed'}
    BY <1>3 DEF SpentExactly
  <2>2. \A s \in spent' : verdict'[s] = "GREEN"
    BY <1>3 DEF SpentExactly
  <2> QED BY <2>1, <2>2 DEF SpentExactly
<1>8. SignatureMade'
  BY <1>1, <1>2, <1>3, SMT DEF SignatureMade
<1>9. ClaimsSigned'
  BY <1>3 DEF ClaimsSigned
<1>10. PageBacked'
  BY <1>3 DEF PageBacked
<1>11. IsFiniteSet(spent)'
  BY <1>3, FS_AddElement
<1> QED BY <1>4, <1>6, <1>7, <1>8, <1>9, <1>10, <1>11

-----------------------------------------------------------------------------
(* The contract. *)

(* A claim for a commitment with a signature.                              *)
LEMMA ClaimStep ==
    ASSUME VoucherIInv, NEW c \in VoucherCommitments, NEW s, ClaimOnChain(c, s),
           c \in {x.c : x \in signed},
           UNCHANGED <<serverVars, verdict, page, requests, sent, delegate, lossy>>
    PROVE  VoucherIInv'
<1> USE DEF VoucherIInv, ClaimOnChain, VerifySignature, serverVars
<1>1. VoucherTypeOK'
  BY SMT DEF VoucherTypeOK
<1>2. (OneVoucherPerSession /\ SpentExactly /\ IsFiniteSet(spent))'
  BY DEF OneVoucherPerSession, SpentExactly
<1>3. ClaimsSigned'
  BY DEF ClaimsSigned
<1>4. SignatureMade' /\ PageBacked'
  BY DEF SignatureMade, PageBacked
<1> QED BY <1>1, <1>2, <1>3, <1>4

(* What a step of the tab's claim does to its page.                        *)
LEMMA ClaimingPage ==
    ASSUME VoucherIInv, NEW b \in Browsers, CanClaim(b), NEW stage \in {"claiming", "done"},
           page' = [page EXCEPT ![b].stage = stage], UNCHANGED signed
    PROVE  /\ page' \in [Browsers -> Page]
           /\ \A t \in Browsers : page'[t].stage = "intro" <=> page'[t].session = NoSession
           /\ PageBacked'
<1> USE DEF VoucherIInv, CanClaim
<1>1. page' \in [Browsers -> Page]
  BY SMT DEF VoucherTypeOK, Page, Stages
<1>2. \A t \in Browsers : page'[t].stage = "intro" <=> page'[t].session = NoSession
  BY SMT DEF VoucherTypeOK, Page
<1>3. PageBacked'
  BY SMT DEF VoucherTypeOK, PageBacked, Page
<1> QED BY <1>1, <1>2, <1>3

LEMMA HandleClaimStep ==
    ASSUME VoucherIInv, NEW b \in Browsers, HandleClaim(b)
    PROVE  VoucherIInv'
<1> DEFINE c == CommitmentIn[b]
<1>1. UNCHANGED <<serverVars, verdict, requests, sent, delegate, lossy>> /\ UNCHANGED signed
  BY DEF HandleClaim, serverVars
<1>2. c \in VoucherCommitments
  BY DEF VoucherCommitments
<1>3. c \in {x.c : x \in signed}
  BY DEF HandleClaim, CanClaim, VoucherIInv, PageBacked
<1>4. CASE ClaimOnChain(c, c) /\ page' = [page EXCEPT ![b].stage = "claiming"]
  <2> USE DEF VoucherIInv, ClaimOnChain, VerifySignature, serverVars
  <2>1. /\ page' \in [Browsers -> Page]
        /\ \A t \in Browsers : page'[t].stage = "intro" <=> page'[t].session = NoSession
        /\ PageBacked'
    BY <1>1, <1>4, ClaimingPage DEF HandleClaim
  <2>2. VoucherTypeOK'
    BY <1>1, <1>2, <1>4, <2>1, SMT DEF VoucherTypeOK
  <2>3. (OneVoucherPerSession /\ SpentExactly /\ IsFiniteSet(spent))'
    BY <1>1 DEF OneVoucherPerSession, SpentExactly
  <2>4. ClaimsSigned'
    BY <1>1, <1>3, <1>4 DEF ClaimsSigned
  <2>5. SignatureMade'
    BY <1>1 DEF SignatureMade
  <2> QED BY <2>1, <2>2, <2>3, <2>4, <2>5
<1>5. CASE /\ page' = [page EXCEPT ![b].stage = "done"]
           /\ UNCHANGED <<usedNullifier, claimed, members>>
  <2>1. /\ page' \in [Browsers -> Page]
        /\ \A t \in Browsers : page'[t].stage = "intro" <=> page'[t].session = NoSession
        /\ PageBacked'
    BY <1>1, <1>5, ClaimingPage DEF HandleClaim
  <2>2. requests' \subseteq requests /\ UNCHANGED <<serverVars, verdict, sent, claimVars, lossy>>
    BY <1>1, <1>5 DEF claimVars
  <2> QED BY <2>1, <2>2, TabStep
<1> QED BY <1>4, <1>5 DEF HandleClaim

-----------------------------------------------------------------------------
(* The environment. *)

(* Verdicts change only while no session rests on them; the group and the  *)
(* delegate are not part of the books.                                     *)
LEMMA OutsideStep ==
    ASSUME VoucherIInv,
           verdict' \in [Sessions -> {"none", "init", "GREEN", "RED"}],
           \A s \in Sessions : verdict[s] = "GREEN" => verdict'[s] = "GREEN",
           members' \subseteq VoucherCommitments, delegate' \in BOOLEAN,
           UNCHANGED <<serverVars, page, requests, sent, usedNullifier, claimed, lossy>>
    PROVE  VoucherIInv'
<1> USE DEF VoucherIInv, serverVars
<1>1. VoucherTypeOK'
  BY SMT DEF VoucherTypeOK
<1>2. \A s \in spent : verdict'[s] = verdict[s]
  BY DEF VoucherTypeOK, SpentExactly
<1>3. (OneVoucherPerSession /\ SpentExactly /\ ClaimsSigned /\ IsFiniteSet(spent))'
  BY <1>2, NothingSigned
<1>4. SignatureMade' /\ PageBacked'
  BY DEF SignatureMade, PageBacked
<1> QED BY <1>1, <1>3, <1>4

LEMMA VoucherStep ==
    ASSUME VoucherAssumption, VoucherIInv, [VoucherNext]_voucherVars
    PROVE  VoucherIInv'
<1> USE VoucherAssumption
<1>1. ASSUME NEW b \in Browsers, NEW s \in Sessions, NEW answered \in BOOLEAN,
             ConnectAndVerify(b, s, answered)
      PROVE  VoucherIInv'
  BY <1>1, ConnectStep
<1>2. ASSUME NEW b \in Browsers, ObtainVoucher(b) PROVE VoucherIInv'
  <2>1. page[b].session \in Sessions
    BY <1>2, SMT DEF ObtainVoucher, CanVerify, VoucherIInv, VoucherTypeOK, Page
  <2>2. CommitmentIn[b] \in VoucherCommitments \cup {Malformed}
    BY DEF VoucherCommitments
  <2> QED BY <1>2, <2>1, <2>2, ArrivalStep DEF ObtainVoucher
<1>3. ASSUME NEW b \in Browsers, NEW s \in Sessions,
             NEW c \in VoucherCommitments \cup {Malformed}, ForeignRequest(b, s, c)
      PROVE  VoucherIInv'
  BY <1>3, ArrivalStep DEF ForeignRequest
<1>4. ASSUME NEW r \in requests, LoseReply(r) PROVE VoucherIInv'
  <2>1. requests' \subseteq requests /\ UNCHANGED <<serverVars, verdict, page, sent, claimVars, lossy>>
    BY <1>4 DEF LoseReply
  <2>2. PageBacked'
    BY <2>1 DEF VoucherIInv, PageBacked, serverVars
  <2> QED BY <2>1, <2>2, TabStep DEF VoucherIInv, VoucherTypeOK
<1>5. ASSUME NEW r \in requests, LookUpSession(r) PROVE VoucherIInv'
  BY <1>5, CallStep DEF LookUpSession
<1>6. ASSUME NEW r \in requests, SignAndSpend(r) PROVE VoucherIInv'
  <2>1. CASE requests' = At(r, "refused") /\ UNCHANGED <<spent, signed>>
    <3>1. UNCHANGED <<serverVars, verdict, page, sent, claimVars, lossy>>
      BY <1>6, <2>1 DEF SignAndSpend, serverVars
    <3> QED BY <2>1, <3>1, CallStep
  <2>2. CASE /\ verdict[r.call.session] = "GREEN" /\ SpendVoucherSession(r.call.session)
             /\ requests' = At(r, "signature") /\ signed' = signed \cup {r.call}
    BY <1>6, <2>2, SignStep DEF SignAndSpend
  <2> QED BY <1>6, <2>1, <2>2 DEF SignAndSpend
<1>7. ASSUME NEW r \in requests, FetchFails(r) PROVE VoucherIInv'
  BY <1>7, CallStep DEF FetchFails
<1>8. ASSUME NEW c \in VoucherCommitments, NEW call \in signed, ClaimDirectly(c, call)
      PROVE  VoucherIInv'
  <2>1. ClaimOnChain(c, call.c) /\ c \in {x.c : x \in signed}
    BY <1>8 DEF ClaimDirectly, ClaimOnChain, VerifySignature
  <2> QED BY <1>8, <2>1, ClaimStep DEF ClaimDirectly
<1>9. ASSUME NEW s \in Sessions, NEW answer \in {"GREEN", "RED"}, SessionVerdict(s, answer)
      PROVE  VoucherIInv'
  <2>1. verdict' \in [Sessions -> {"none", "init", "GREEN", "RED"}]
    BY <1>9, SMT DEF SessionVerdict, VoucherIInv, VoucherTypeOK
  <2>2. \A t \in Sessions : verdict[t] = "GREEN" => verdict'[t] = "GREEN"
    BY <1>9, SMT DEF SessionVerdict, VoucherIInv, VoucherTypeOK
  <2>3. members' \subseteq VoucherCommitments /\ delegate' \in BOOLEAN
    BY <1>9 DEF SessionVerdict, VoucherIInv, VoucherTypeOK, claimVars
  <2> QED BY <1>9, <2>1, <2>2, <2>3, OutsideStep DEF SessionVerdict, claimVars
<1>10. CASE ApproveClaimDelegate
  BY <1>10, OutsideStep DEF ApproveClaimDelegate, VoucherIInv, VoucherTypeOK
<1>11. ASSUME NEW c \in VoucherCommitments, IssueMember(c) \/ RevokeMember(c)
       PROVE  VoucherIInv'
  BY <1>11, OutsideStep DEF IssueMember, RevokeMember, VoucherIInv, VoucherTypeOK
<1>12. CASE UNCHANGED voucherVars
  <2>1. requests' \subseteq requests /\ UNCHANGED <<serverVars, verdict, page, sent, claimVars, lossy>>
    BY <1>12 DEF voucherVars, serverVars, claimVars
  <2>2. PageBacked'
    BY <2>1 DEF VoucherIInv, PageBacked, serverVars
  <2> QED BY <2>1, <2>2, TabStep DEF VoucherIInv, VoucherTypeOK
<1> QED BY <1>1, <1>2, <1>3, <1>4, <1>5, <1>6, <1>7, <1>8, <1>9, <1>10, <1>11, <1>12,
           ReplyStep, ReloadStep, HandleClaimStep, ConfirmedStep DEF VoucherNext

(* For any number of tabs, sessions and overlapping calls, own or foreign: *)
(* sessions, signatures and pages agree, and claims have signatures.       *)
THEOREM VoucherInvariance == VoucherSpec => []VoucherIInv
<1>1. VoucherInit => VoucherIInv
  BY VoucherAssumption, VoucherStarts
<1>2. VoucherIInv /\ [VoucherNext]_voucherVars => VoucherIInv'
  BY VoucherAssumption, VoucherStep
<1> QED BY <1>1, <1>2, PTL DEF VoucherSpec

(* What the run checks of sessions, signatures and pages.                  *)
THEOREM VouchersCorrect == VoucherSpec => []VoucherInv
<1>1. VoucherIInv => VoucherInv
  BY DEF VoucherIInv, VoucherInv
<1> QED BY <1>1, VoucherInvariance, PTL

(* No more credentials are claimed than sessions were verified: a claimed  *)
(* commitment leads to its signature, the signature to its session, and no *)
(* two of them to the same.                                                *)
LEMMA ClaimsCounted == ASSUME VoucherIInv PROVE ClaimsBacked
<1> USE DEF VoucherIInv
<1> DEFINE call(c) == CHOOSE x \in signed : x.c = c
           f == [c \in claimed |-> call(c).session]
<1>1. \A c \in claimed : call(c) \in signed /\ call(c).c = c
  BY DEF ClaimsSigned
<1> HIDE DEF call
<1>2. \A c \in claimed : call(c).session \in spent
  BY <1>1 DEF SpentExactly
<1>3. \A c, d \in claimed : call(c).session = call(d).session => c = d
  BY <1>1 DEF OneVoucherPerSession
<1>4. f \in Injection(claimed, spent)
  BY <1>2, <1>3 DEF Injection, IsInjective
<1>5. Cardinality(claimed) <= Cardinality(spent)
  BY <1>4, FS_Injection
<1> QED BY <1>5 DEF ClaimsBacked, ClaimsSigned

(* However many sessions are approved, calls repeated and signatures       *)
(* passed on, the contract issues at most one credential for each session. *)
THEOREM ClaimsAlwaysBacked == VoucherSpec => []ClaimsBacked
<1>1. VoucherIInv => ClaimsBacked
  BY ClaimsCounted
<1> QED BY <1>1, VoucherInvariance, PTL
=============================================================================
