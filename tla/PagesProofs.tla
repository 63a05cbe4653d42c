----------------------------- MODULE PagesProofs -----------------------------
(***************************************************************************)
(* What an issuer and a visitor are told, for any instance: the issuer     *)
(* dashboard against the nonces and reviews of the backend, the report of  *)
(* the backend's health with the rate limiter of /api/issuers, whose data  *)
(* the verification page holds, the freshness demo with its tree, and the  *)
(* checks of a document and of a face in the browser.                      *)
(***************************************************************************)
EXTENDS IssuerDashboard, ServiceHealth, KYCPage, FreshPage, KYCDocument,
        SequenceTheorems, FiniteSetTheorems, WellFoundedInduction, TLAPS

-----------------------------------------------------------------------------
(* The issuer dashboard, for any rows, windows and any size from which     *)
(* nonces are collected.                                                   *)

Times == 0..MaxTime

QueueRead == [filter : Filters, nonce : Times, at : {"sent", "checking", "full", "redacted"},
              rows : SUBSET Rows, since : Times, after : BOOLEAN]
DashState == [connected : BOOLEAN, issuer : BOOLEAN, auth : Times, closure : Times,
              filter : Filters, queue : [kind : {"full", "redacted"}, rows : SUBSET Rows],
              crashed : BOOLEAN]
RefreshState == [pc : {"idle", "sign", "counts", "queue"}, nonce : Times, filter : Filters,
                 left : {0, 1, 3}]
ReviewPcs == {"idle", "issue", "sign", "post", "checking"}
ReviewState == [pc : ReviewPcs, row : Rows \cup {"none"},
                action : {"approve", "reject"}, nonce : Times, auth : Times,
                status : {"none"} \cup Filters]

StateOK ==
    /\ clock \in 1..MaxTime /\ issued \subseteq Rows
    /\ kyc \in [Rows -> {"none"} \cup Filters]
    /\ used \subseteq Times \X Times
    /\ reads \subseteq QueueRead
    /\ approver \in BOOLEAN
    /\ dash \in DashState /\ refresh \in RefreshState /\ review \in ReviewState
    /\ burnt \in [nonces : SUBSET Times, replayed : SUBSET Times, clicks : Nat]

(* A nonce that was accepted is remembered or has left the window: what    *)
(* gcNonces drops was recorded after the time the nonce stands for.        *)
NoncesRemembered ==
    /\ \A e \in used : e[1] <= e[2]
    /\ \A n \in burnt.nonces : IsUsed(n) \/ clock - n > NonceWindow
    /\ \A q \in reads : ~q.after /\ (q.at = "checking" => q.nonce <= q.since)
    /\ burnt.replayed = {}

(* An approval is signed and posted only for a row that was issued.        *)
ApprovalIssued ==
    /\ review.pc # "idle" => review.row \in Rows
    /\ review.pc \in {"sign", "post", "checking"} /\ review.action = "approve" => review.row \in issued
    /\ ApprovedIsIssued

DashIInv == StateOK /\ NoncesRemembered /\ ApprovalIssued

LEMMA Constants ==
    NonceWindow \in Nat /\ MaxTime \in Nat \ {0} /\ 0 \in Times /\ UnknownRows \subseteq Rows
BY DashboardAssumption DEF DashboardAssumption, Times

LEMMA DashStarts == ASSUME DashInit PROVE DashIInv
<1> USE DashboardAssumption DEF DashInit, DashboardAssumption, Times
<1>1. dash \in DashState /\ dash.queue.rows = {}
  BY DEF DashState, NoQueue, Filters
<1>2. refresh \in RefreshState
  BY DEF RefreshState, NoRefresh, Filters
<1>3. review \in ReviewState /\ review.pc = "idle"
  BY DEF ReviewState, ReviewPcs, NoReview, Filters
<1>4. /\ burnt \in [nonces : SUBSET Times, replayed : SUBSET Times, clicks : Nat]
      /\ burnt.nonces = {} /\ burnt.replayed = {}
  OBVIOUS
<1>5. kyc \in [Rows -> {"none"} \cup Filters] /\ \A r \in Rows : kyc[r] # "approved"
  BY DEF Filters
<1>6. clock \in 1..MaxTime /\ issued \subseteq Rows /\ used = {} /\ reads = {} /\ approver \in BOOLEAN
  OBVIOUS
<1>7. StateOK
  BY <1>1, <1>2, <1>3, <1>4, <1>5, <1>6 DEF StateOK
<1>8. NoncesRemembered
  BY <1>4, <1>6 DEF NoncesRemembered
<1>9. ApprovalIssued
  BY <1>3, <1>5 DEF ApprovalIssued, ApprovedIsIssued
<1> QED BY <1>7, <1>8, <1>9 DEF DashIInv

-----------------------------------------------------------------------------
(* The read of the queue. *)

LEMMA AnsweredTyped ==
    ASSUME NEW q \in QueueRead, NEW kind \in {"full", "redacted"}
    PROVE  LET a == Answered(q, kind)
           IN  a \in QueueRead /\ a.at = kind /\ a.at # "checking" /\ ~a.after
<1> DEFINE v == IF refresh.pc = "queue" THEN q.rows ELSE {}
           a == [q EXCEPT !.at = kind, !.rows = v, !.since = 0, !.after = FALSE]
<1>1. v \in SUBSET Rows /\ 0 \in Times
  BY DashboardAssumption DEF QueueRead, Times, DashboardAssumption
<1>2. Answered(q, kind) = a
  BY DEF Answered
<1> HIDE DEF v
<1>3. a \in QueueRead /\ a.at = kind /\ ~a.after
  BY <1>1 DEF QueueRead
<1> QED BY <1>2, <1>3

LEMMA Arrives ==
    ASSUME DashIInv, ReadArrives
    PROVE  DashIInv'
<1> USE DashboardAssumption DEF DashboardAssumption, Times
<1>1. UNCHANGED <<clock, kyc, issued, approver, dash, refresh, review, burnt>>
  BY DEF ReadArrives
<1>2. PICK q \in reads :
         /\ q.at = "sent"
         /\ IF Young(q.nonce) /\ ~IsUsed(q.nonce)
            THEN /\ used' = Collected(clock)
                 /\ reads' = (reads \ {q}) \cup
                      {[q EXCEPT !.at = "checking", !.rows = RowsOf(q.filter), !.since = clock,
                                 !.after = q.nonce \in burnt.nonces]}
            ELSE /\ UNCHANGED used
                 /\ reads' = (reads \ {q}) \cup {Answered([q EXCEPT !.rows = RowsOf(q.filter)], "redacted")}
  BY DEF ReadArrives
<1>3. q \in QueueRead /\ RowsOf(q.filter) \subseteq Rows /\ clock \in Times
  BY DEF DashIInv, StateOK, RowsOf
<1>4. ApprovalIssued'
  BY <1>1 DEF DashIInv, ApprovalIssued, ApprovedIsIssued
<1>5. CASE Young(q.nonce) /\ ~IsUsed(q.nonce)
  <2> DEFINE next == [q EXCEPT !.at = "checking", !.rows = RowsOf(q.filter), !.since = clock,
                               !.after = q.nonce \in burnt.nonces]
  <2>1. q.nonce \notin burnt.nonces
    <3> SUFFICES ASSUME q.nonce \in burnt.nonces PROVE FALSE
      OBVIOUS
    <3> DEFINE age == clock - q.nonce
    <3>1. age > NonceWindow
      BY <1>5 DEF DashIInv, NoncesRemembered
    <3>2. age <= NonceWindow
      BY <1>5 DEF Young
    <3>3. q.nonce \in Times
      BY <1>3 DEF QueueRead
    <3>4. age \in Int /\ NonceWindow \in Int
      BY <1>3, <3>3, Constants
    <3> HIDE DEF age
    <3> QED BY <3>1, <3>2, <3>4
  <2>2. next \in QueueRead /\ next.nonce = q.nonce /\ next.since = clock /\ ~next.after
    <3> DEFINE found == RowsOf(q.filter)
               after == q.nonce \in burnt.nonces
    <3>1. found \in SUBSET Rows /\ after = FALSE
      BY <1>3, <2>1
    <3>2. next = [q EXCEPT !.at = "checking", !.rows = found, !.since = clock, !.after = FALSE]
      BY <3>1
    <3> HIDE DEF found, after
    <3> QED BY <1>3, <3>1, <3>2 DEF QueueRead
  <2>3. reads' = (reads \ {q}) \cup {next} /\ used' = Collected(clock)
    BY <1>2, <1>5
  <2> HIDE DEF next
  <2>4. used' \subseteq used
    BY <2>3 DEF Collected
  <2>5. \A e \in used : e \notin used' => clock - e[2] > NonceWindow
    BY <2>3 DEF Collected, DashIInv, StateOK
  <2>6. \A e \in used : e[1] \in Nat /\ e[2] \in Nat /\ e[1] <= e[2]
    BY DEF DashIInv, StateOK, NoncesRemembered
  <2>7. StateOK'
    BY <1>1, <2>2, <2>3, <2>4 DEF DashIInv, StateOK
  <2>8. \A n \in burnt.nonces : IsUsed(n)' \/ clock - n > NonceWindow
    <3> TAKE n \in burnt.nonces
    <3>1. CASE clock - n > NonceWindow
      BY <3>1
    <3>2. CASE IsUsed(n)
      <4>1. PICK e \in used : e[1] = n
        BY <3>2 DEF IsUsed
      <4>2. CASE e \in used'
        BY <4>1, <4>2 DEF IsUsed
      <4>3. CASE e \notin used'
        BY <4>1, <4>3, <2>5, <2>6, <1>3
      <4> QED BY <4>2, <4>3
    <3> QED BY <3>1, <3>2 DEF DashIInv, NoncesRemembered
  <2>9. \A r \in reads' : ~r.after /\ (r.at = "checking" => r.nonce <= r.since)
    BY <1>5, <2>2, <2>3 DEF Young, DashIInv, NoncesRemembered
  <2>10. NoncesRemembered'
    BY <1>1, <2>4, <2>6, <2>8, <2>9 DEF DashIInv, NoncesRemembered
  <2> QED BY <1>4, <2>7, <2>10 DEF DashIInv
<1>6. CASE ~ (Young(q.nonce) /\ ~IsUsed(q.nonce))
  <2> DEFINE base == [q EXCEPT !.rows = RowsOf(q.filter)]
             next == Answered(base, "redacted")
  <2>0. base \in QueueRead
    BY <1>3 DEF QueueRead
  <2>1. next \in QueueRead /\ next.at = "redacted" /\ ~next.after
    <3> HIDE DEF base
    <3> QED BY <2>0, AnsweredTyped
  <2>2. reads' = (reads \ {q}) \cup {next} /\ UNCHANGED used
    BY <1>2, <1>6
  <2> HIDE DEF next
  <2>3. StateOK'
    BY <1>1, <2>1, <2>2 DEF DashIInv, StateOK
  <2>4. NoncesRemembered'
    BY <1>1, <2>1, <2>2 DEF DashIInv, NoncesRemembered, IsUsed
  <2> QED BY <1>4, <2>3, <2>4 DEF DashIInv
<1> QED BY <1>5, <1>6

LEMMA CheckedRead ==
    ASSUME DashIInv, ReadChecked
    PROVE  DashIInv'
<1> USE DashboardAssumption DEF DashboardAssumption, Times
<1>1. UNCHANGED <<clock, kyc, issued, approver, dash, refresh, review>>
  BY DEF ReadChecked
<1>2. PICK q \in reads :
         /\ q.at = "checking"
         /\ \/ /\ reads' = (reads \ {q}) \cup {Answered(q, "full")}
               /\ used' = {e \in used : e[1] # q.nonce} \cup {<<q.nonce, q.since>>}
               /\ burnt' = [burnt EXCEPT !.nonces = @ \cup {q.nonce},
                                         !.replayed = @ \cup (IF q.after THEN {q.nonce} ELSE {})]
            \/ /\ reads' = (reads \ {q}) \cup {Answered(q, "redacted")}
               /\ UNCHANGED <<used, burnt>>
  BY DEF ReadChecked
<1>3. q \in QueueRead /\ ~q.after /\ q.nonce <= q.since
  BY <1>2 DEF DashIInv, StateOK, NoncesRemembered
<1>4. ApprovalIssued'
  BY <1>1 DEF DashIInv, ApprovalIssued, ApprovedIsIssued
<1>5. ASSUME NEW kind \in {"full", "redacted"}, reads' = (reads \ {q}) \cup {Answered(q, kind)}
      PROVE  reads' \subseteq QueueRead
             /\ \A r \in reads' : ~r.after /\ (r.at = "checking" => r.nonce <= r.since)
  <2> DEFINE next == Answered(q, kind)
  <2>1. next \in QueueRead /\ next.at # "checking" /\ ~next.after
    BY <1>3, AnsweredTyped
  <2>2. reads' = (reads \ {q}) \cup {next}
    BY <1>5
  <2> HIDE DEF next
  <2> QED BY <2>1, <2>2 DEF DashIInv, StateOK, NoncesRemembered
<1>6. CASE /\ reads' = (reads \ {q}) \cup {Answered(q, "full")}
           /\ used' = {e \in used : e[1] # q.nonce} \cup {<<q.nonce, q.since>>}
           /\ burnt' = [burnt EXCEPT !.nonces = @ \cup {q.nonce},
                                     !.replayed = @ \cup (IF q.after THEN {q.nonce} ELSE {})]
  <2>1. /\ burnt' \in [nonces : SUBSET Times, replayed : SUBSET Times, clicks : Nat]
        /\ burnt'.nonces = burnt.nonces \cup {q.nonce} /\ burnt'.replayed = burnt.replayed
    BY <1>3, <1>6 DEF DashIInv, StateOK, QueueRead
  <2>2. <<q.nonce, q.since>> \in Times \X Times
    BY <1>3 DEF QueueRead
  <2>3. StateOK'
    BY <1>1, <1>5, <1>6, <2>1, <2>2 DEF DashIInv, StateOK
  <2> DEFINE new == <<q.nonce, q.since>>
  <2>9. new[1] = q.nonce /\ new[2] = q.since /\ new \in used'
    BY <1>6
  <2>8. \A e \in used' : e \in used \/ e = new
    BY <1>6
  <2>11. \A e \in used : e[1] # q.nonce => e \in used'
    BY <1>6
  <2> HIDE DEF new
  <2>4. \A e \in used' : e[1] <= e[2]
    BY <1>3, <2>8, <2>9 DEF DashIInv, NoncesRemembered
  <2>6. IsUsed(q.nonce)'
    BY <2>9 DEF IsUsed
  <2>5. \A n : IsUsed(n) => IsUsed(n)'
    <3> TAKE n
    <3>1. CASE n = q.nonce
      BY <2>6, <3>1
    <3>2. CASE n # q.nonce
      BY <2>11, <3>2 DEF IsUsed
    <3> QED BY <3>1, <3>2
  <2>7. NoncesRemembered'
    BY <1>1, <1>5, <1>6, <2>1, <2>4, <2>5, <2>6 DEF DashIInv, NoncesRemembered
  <2> QED BY <1>4, <2>3, <2>7 DEF DashIInv
<1>7. CASE reads' = (reads \ {q}) \cup {Answered(q, "redacted")} /\ UNCHANGED <<used, burnt>>
  <2>1. StateOK'
    BY <1>1, <1>5, <1>7 DEF DashIInv, StateOK
  <2>2. NoncesRemembered'
    BY <1>1, <1>5, <1>7 DEF DashIInv, NoncesRemembered, IsUsed
  <2> QED BY <1>4, <2>1, <2>2 DEF DashIInv
<1> QED BY <1>2, <1>6, <1>7

-----------------------------------------------------------------------------
(* The page. *)

(* Reads that are sent and reads that are dropped leave the nonces alone.  *)
LEMMA PageStep ==
    ASSUME DashIInv, dash' \in DashState, refresh' \in RefreshState,
           \A q \in reads' : q \in reads \/ (q \in QueueRead /\ q.at = "sent" /\ ~q.after),
           burnt' \in [nonces : SUBSET Times, replayed : SUBSET Times, clicks : Nat],
           burnt'.nonces = burnt.nonces, burnt'.replayed = burnt.replayed,
           review' \in ReviewState,
           review'.pc # "idle" => review'.row \in Rows,
           review'.pc \in {"sign", "post", "checking"} /\ review'.action = "approve" => review'.row \in issued',
           issued \subseteq issued', issued' \subseteq Rows,
           kyc' \in [Rows -> {"none"} \cup Filters],
           \A r \in Rows : kyc'[r] = "approved" => kyc[r] = "approved" \/ r \in issued',
           UNCHANGED <<clock, used, approver>>
    PROVE  DashIInv'
<1>1. StateOK'
  BY DEF DashIInv, StateOK
<1>2. NoncesRemembered'
  BY DEF DashIInv, NoncesRemembered, IsUsed
<1>3. ApprovalIssued'
  BY DEF DashIInv, ApprovalIssued, ApprovedIsIssued
<1> QED BY <1>1, <1>2, <1>3 DEF DashIInv

(* What such a step leaves alone satisfies the conditions on it.           *)
LEMMA Quiet ==
    ASSUME DashIInv
    PROVE  /\ UNCHANGED dash => dash' \in DashState
           /\ UNCHANGED refresh => refresh' \in RefreshState
           /\ UNCHANGED reads => \A q \in reads' : q \in reads
           /\ UNCHANGED <<review, issued>> =>
                /\ review' \in ReviewState
                /\ review'.pc # "idle" => review'.row \in Rows
                /\ review'.pc \in {"sign", "post", "checking"} /\ review'.action = "approve"
                       => review'.row \in issued'
           /\ UNCHANGED issued => issued \subseteq issued' /\ issued' \subseteq Rows
           /\ UNCHANGED kyc => /\ kyc' \in [Rows -> {"none"} \cup Filters]
                               /\ \A r \in Rows : kyc'[r] = "approved" => kyc[r] = "approved"
           /\ UNCHANGED burnt \/ DashClick =>
                /\ burnt' \in [nonces : SUBSET Times, replayed : SUBSET Times, clicks : Nat]
                /\ burnt'.nonces = burnt.nonces /\ burnt'.replayed = burnt.replayed
BY DEF DashIInv, StateOK, ApprovalIssued, DashClick

LEMMA SentReads ==
    ASSUME NEW filters \in SUBSET Filters, NEW nonce \in Times
    PROVE  \A q \in Send(filters, nonce) : q \in QueueRead /\ q.at = "sent" /\ ~q.after
<1> SUFFICES ASSUME NEW f \in filters
             PROVE  LET q == [filter |-> f, nonce |-> nonce, at |-> "sent", rows |-> {}, since |-> 0, after |-> FALSE]
                    IN  q \in QueueRead /\ q.at = "sent" /\ ~q.after
  BY DEF Send
<1> QED BY DashboardAssumption DEF QueueRead, Times, DashboardAssumption

LEMMA Refreshed ==
    ASSUME DashIInv, NEW auth \in Times, StartRefresh(auth)
    PROVE  /\ refresh' \in RefreshState
           /\ \A q \in reads' : q \in reads \/ (q \in QueueRead /\ q.at = "sent" /\ ~q.after)
<1>1. dash.filter \in Filters
  BY DEF DashIInv, StateOK, DashState
<1>2. refresh' \in RefreshState
  BY <1>1 DEF StartRefresh, RefreshState
<1>3. \A q \in Send(Filters, auth) : q \in QueueRead /\ q.at = "sent" /\ ~q.after
  BY SentReads
<1> QED BY <1>2, <1>3 DEF StartRefresh

LEMMA ShowTyped == ASSUME NEW d \in DashState PROVE Show(d) \in DashState
BY DEF Show, DashState

LEMMA ConnectsAndFilters ==
    ASSUME DashIInv, HandleConnect \/ \E f \in Filters : Filter(f)
    PROVE  DashIInv'
<1> USE DashboardAssumption DEF DashboardAssumption
<1>1. UNCHANGED <<clock, kyc, issued, approver, used, reads, refresh, review>> /\ DashClick
  BY DEF HandleConnect, Filter
<1>2. dash' \in DashState
  <2>0. dash \in DashState /\ clock \in Times /\ approver \in BOOLEAN
    BY DEF DashIInv, StateOK, Times
  <2>1. CASE HandleConnect
    <3> DEFINE a == [dash EXCEPT !.connected = TRUE, !.issuer = TRUE, !.auth = clock]
               b == [dash EXCEPT !.connected = TRUE, !.issuer = approver]
    <3>1. a \in DashState
      BY <2>0 DEF DashState
    <3>2. CASE dash' = Show(a)
      <4> HIDE DEF a
      <4> QED BY <3>1, <3>2, ShowTyped
    <3>3. b \in DashState
      BY <2>0 DEF DashState
    <3>4. CASE dash' = Show(b)
      <4> HIDE DEF b
      <4> QED BY <3>3, <3>4, ShowTyped
    <3> QED BY <2>1, <3>2, <3>4 DEF HandleConnect
  <2>2. CASE \E f \in Filters : Filter(f)
    BY <2>0, <2>2 DEF Filter, DashState
  <2> QED BY <2>1, <2>2
<1> QED BY <1>1, <1>2, Quiet, PageStep

LEMMA RefreshSteps ==
    ASSUME DashIInv, RefreshQueue \/ Resigned \/ CountsAnswered \/ QueueAnswered \/ RefreshFails
    PROVE  DashIInv'
<1> USE DashboardAssumption DEF DashboardAssumption
<1>1. UNCHANGED <<clock, kyc, issued, approver, used, review>> /\ (UNCHANGED burnt \/ DashClick)
  BY DEF RefreshQueue, Resigned, CountsAnswered, QueueAnswered, RefreshFails
<1>2. /\ dash \in DashState /\ dash.auth \in Times /\ dash.closure \in Times /\ dash.filter \in Filters
      /\ refresh \in RefreshState /\ refresh.nonce \in Times /\ refresh.filter \in Filters
      /\ clock \in Times /\ 0 \in Times
  BY DEF DashIInv, StateOK, Times, DashState, RefreshState
<1>3. NoRefresh \in RefreshState
  BY DEF NoRefresh, RefreshState, Filters, Times
<1>4. CASE RefreshQueue
  <2>1. UNCHANGED dash
    BY <1>4 DEF RefreshQueue
  <2>2. StartRefresh(dash.closure) \/ StartRefresh(dash.auth)
    BY <1>4 DEF RefreshQueue
  <2> QED BY <1>1, <1>2, <2>1, <2>2, Refreshed, Quiet, PageStep
<1>5. CASE Resigned
  <2>1. PICK nonce \in {0, clock} :
           /\ refresh' = [refresh EXCEPT !.pc = "counts", !.nonce = nonce, !.left = 3]
           /\ reads' = Send(Filters, nonce)
           /\ dash' = IF nonce = 0 THEN dash ELSE [dash EXCEPT !.auth = nonce]
    BY <1>5 DEF Resigned
  <2>2. nonce \in Times
    BY <1>2
  <2>3. refresh' \in RefreshState /\ dash' \in DashState
    BY <1>2, <2>1, <2>2 DEF RefreshState, DashState
  <2>4. \A q \in reads' : q \in QueueRead /\ q.at = "sent" /\ ~q.after
    BY <2>1, <2>2, SentReads
  <2> QED BY <1>1, <2>3, <2>4, Quiet, PageStep
<1>6. CASE CountsAnswered
  <2>1. refresh' \in RefreshState /\ UNCHANGED dash
    BY <1>2, <1>6 DEF CountsAnswered, RefreshState
  <2>2. reads' = Send({refresh.filter}, refresh.nonce)
    BY <1>6 DEF CountsAnswered
  <2>3. \A q \in reads' : q \in QueueRead /\ q.at = "sent" /\ ~q.after
    BY <1>2, <2>2, SentReads
  <2> QED BY <1>1, <2>1, <2>3, Quiet, PageStep
<1>7. CASE QueueAnswered
  <2>1. PICK q \in Answers : dash' = Show([dash EXCEPT !.queue = [kind |-> q.at, rows |-> q.rows]])
    BY <1>7 DEF QueueAnswered
  <2>2. q \in QueueRead /\ q.at \in {"full", "redacted"}
    BY DEF Answers, DashIInv, StateOK
  <2> DEFINE d == [dash EXCEPT !.queue = [kind |-> q.at, rows |-> q.rows]]
  <2>3. d \in DashState
    BY <1>2, <2>2 DEF DashState, QueueRead
  <2>4. dash' = Show(d)
    BY <2>1
  <2> HIDE DEF d
  <2>5. dash' \in DashState
    BY <2>3, <2>4, ShowTyped
  <2>6. reads' = {} /\ refresh' \in RefreshState
    BY <1>3, <1>7 DEF QueueAnswered
  <2> QED BY <1>1, <2>5, <2>6, Quiet, PageStep
<1>8. CASE RefreshFails
  <2>1. reads' = {} /\ refresh' \in RefreshState /\ UNCHANGED dash
    BY <1>3, <1>8 DEF RefreshFails
  <2> QED BY <1>1, <2>1, Quiet, PageStep
<1> QED BY <1>4, <1>5, <1>6, <1>7, <1>8

-----------------------------------------------------------------------------
(* Reviews. *)

LEMMA ReviewSteps ==
    ASSUME DashIInv, \/ HandleApprove \/ HandleReject \/ IssueMined \/ ReviewSigned
                     \/ ReviewArrives \/ ReviewFails
    PROVE  DashIInv'
<1>1. UNCHANGED <<clock, kyc, approver, used, reads, dash, refresh>> /\ (UNCHANGED burnt \/ DashClick)
  BY DEF HandleApprove, HandleReject, IssueMined, ReviewSigned, ReviewArrives, ReviewFails
<1>2. /\ review \in ReviewState /\ clock \in Times /\ dash.auth \in Times /\ NoReview \in ReviewState
      /\ issued \subseteq Rows
      /\ review.pc # "idle" => review.row \in Rows
      /\ \A r \in Rows : kyc[r] \in {"none"} \cup Filters
  BY Constants DEF DashIInv, StateOK, Times, DashState, NoReview, ReviewState, ReviewPcs, ApprovalIssued
<1> DEFINE Conditions ==
        /\ review' \in ReviewState
        /\ review'.pc # "idle" => review'.row \in Rows
        /\ review'.pc \in {"sign", "post", "checking"} /\ review'.action = "approve" => review'.row \in issued'
        /\ issued \subseteq issued' /\ issued' \subseteq Rows
<1>3. CASE HandleApprove
  <2>1. PICK r \in Rows : review' = [NoReview EXCEPT !.pc = "issue", !.row = r, !.auth = dash.auth]
    BY <1>3 DEF HandleApprove
  <2> DEFINE n == [NoReview EXCEPT !.pc = "issue", !.row = r, !.auth = dash.auth]
  <2>4. n \in ReviewState /\ n.pc = "issue" /\ n.row = r
    BY <1>2 DEF ReviewState, ReviewPcs
  <2>2. review' \in ReviewState /\ review'.pc = "issue" /\ review'.row = r
    <3>1. review' = n
      BY <2>1
    <3> HIDE DEF n
    <3> QED BY <3>1, <2>4
  <2>3. Conditions
    BY <1>2, <1>3, <2>2 DEF HandleApprove
  <2> QED BY <1>1, <2>3, Quiet, PageStep
<1>4. CASE HandleReject
  <2>1. PICK r \in Rows :
           review' = [NoReview EXCEPT !.pc = "sign", !.row = r, !.action = "reject", !.auth = dash.auth]
    BY <1>4 DEF HandleReject
  <2> DEFINE n == [NoReview EXCEPT !.pc = "sign", !.row = r, !.action = "reject", !.auth = dash.auth]
  <2>4. n \in ReviewState /\ n.action = "reject" /\ n.row = r
    BY <1>2 DEF ReviewState, ReviewPcs
  <2>2. review' \in ReviewState /\ review'.action = "reject" /\ review'.row = r
    <3>1. review' = n
      BY <2>1
    <3> HIDE DEF n
    <3> QED BY <3>1, <2>4
  <2>3. Conditions
    BY <1>2, <1>4, <2>2 DEF HandleReject
  <2> QED BY <1>1, <2>3, Quiet, PageStep
<1>5. CASE IssueMined
  <2>1. PICK pc \in {"sign", "idle"} :
           /\ review' = [review EXCEPT !.pc = pc]
           /\ \/ issued' = issued \cup {review.row}
              \/ issued' = issued /\ (pc = "sign" => review.row \in issued)
    BY <1>5 DEF IssueMined, AfterIssueError
  <2>3. review.row \in Rows
    BY <1>2, <1>5 DEF IssueMined
  <2> DEFINE n == [review EXCEPT !.pc = pc]
  <2>5. n \in ReviewState /\ n.pc = pc /\ n.row = review.row
    BY <1>2 DEF ReviewState, ReviewPcs
  <2>2. review' \in ReviewState /\ review'.pc = pc /\ review'.row = review.row
    <3>1. review' = n
      BY <2>1
    <3> HIDE DEF n
    <3> QED BY <3>1, <2>5
  <2>4. Conditions
    BY <1>2, <2>1, <2>2, <2>3
  <2> QED BY <1>1, <2>4, Quiet, PageStep
<1>6. CASE ReviewSigned \/ ReviewArrives \/ ReviewFails
  <2>1. UNCHANGED issued
    BY <1>6 DEF ReviewSigned, ReviewArrives, ReviewFails
  <2>2. /\ review.pc \in {"sign", "post", "checking"}
        /\ \/ review' = NoReview
           \/ review' = [review EXCEPT !.pc = "post", !.nonce = clock]
           \/ review' = [review EXCEPT !.pc = "checking", !.status = kyc[review.row]]
    BY <1>6 DEF ReviewSigned, ReviewArrives, ReviewFails
  <2>3. review.row \in Rows /\ kyc[review.row] \in {"none"} \cup Filters
    BY <1>2, <2>2
  <2>4. /\ review' \in ReviewState
        /\ review'.pc = "idle" \/ (review'.row = review.row /\ review'.action = review.action)
    <3>1. CASE review' = NoReview
      BY <1>2, <3>1 DEF NoReview
    <3> DEFINE sent == [review EXCEPT !.pc = "post", !.nonce = clock]
               checking == [review EXCEPT !.pc = "checking", !.status = kyc[review.row]]
    <3>4. /\ sent \in ReviewState /\ sent.row = review.row /\ sent.action = review.action
          /\ checking \in ReviewState /\ checking.row = review.row /\ checking.action = review.action
      BY <1>2, <2>3 DEF ReviewState, ReviewPcs
    <3>2. CASE review' = sent
      <4> HIDE DEF sent
      <4> QED BY <3>2, <3>4
    <3>3. CASE review' = checking
      <4> HIDE DEF checking
      <4> QED BY <3>3, <3>4
    <3> QED BY <2>2, <3>1, <3>2, <3>3
  <2>5. Conditions
    BY <1>2, <2>1, <2>2, <2>3, <2>4 DEF DashIInv, ApprovalIssued
  <2> QED BY <1>1, <2>5, Quiet, PageStep
<1> QED BY <1>3, <1>4, <1>5, <1>6

LEMMA DecideStep ==
    ASSUME DashIInv, ReviewDecides
    PROVE  DashIInv'
<1> USE DashboardAssumption DEF DashboardAssumption
<1>1. UNCHANGED <<clock, issued, approver, used, dash, burnt>>
  BY DEF ReviewDecides
<1>2. /\ review \in ReviewState /\ review.row \in Rows /\ review.auth \in Times
      /\ review.action = "approve" => review.row \in issued
      /\ kyc \in [Rows -> {"none"} \cup Filters]
  BY DEF ReviewDecides, DashIInv, StateOK, ReviewState, ApprovalIssued
<1>3. review' \in ReviewState /\ review'.pc = "idle"
  BY DEF ReviewDecides, NoReview, ReviewState, ReviewPcs, Times
<1>4. /\ kyc' \in [Rows -> {"none"} \cup Filters]
      /\ \A r \in Rows : kyc'[r] = "approved" => kyc[r] = "approved" \/ r \in issued'
  BY <1>1, <1>2 DEF ReviewDecides, Filters
<1>5. /\ refresh' \in RefreshState
      /\ \A q \in reads' : q \in reads \/ (q \in QueueRead /\ q.at = "sent" /\ ~q.after)
  BY <1>2, Refreshed, Quiet DEF ReviewDecides
<1> QED BY <1>1, <1>3, <1>4, <1>5, Quiet, PageStep

LEMMA OthersStep ==
    ASSUME DashIInv, OthersAct
    PROVE  DashIInv'
<1>1. UNCHANGED <<clock, approver, used, reads, dash, refresh, review, burnt>>
  BY DEF OthersAct
<1>2. /\ kyc' \in [Rows -> {"none"} \cup Filters]
      /\ \A r \in Rows : kyc'[r] = "approved" => kyc[r] = "approved"
      /\ issued \subseteq issued' /\ issued' \subseteq Rows
  BY DEF OthersAct, DashIInv, StateOK, Filters
<1>3. /\ review' \in ReviewState
      /\ review'.pc # "idle" => review'.row \in Rows
      /\ review'.pc \in {"sign", "post", "checking"} /\ review'.action = "approve" => review'.row \in issued'
  BY <1>1, <1>2 DEF DashIInv, StateOK, ApprovalIssued
<1> QED BY <1>1, <1>2, <1>3, Quiet, PageStep

LEMMA TimeStep ==
    ASSUME DashIInv, PassTime
    PROVE  DashIInv'
<1> USE DashboardAssumption DEF DashboardAssumption, PassTime
<1>1. clock' = clock + 1 /\ clock' \in 1..MaxTime
  BY DEF DashIInv, StateOK
<1>2. StateOK'
  BY <1>1 DEF DashIInv, StateOK
<1>3. \A n \in burnt.nonces : n \in Nat
  BY DEF DashIInv, StateOK, Times
<1>4. NoncesRemembered'
  BY <1>1, <1>3 DEF DashIInv, StateOK, NoncesRemembered, IsUsed
<1>5. ApprovalIssued'
  BY DEF DashIInv, ApprovalIssued, ApprovedIsIssued
<1> QED BY <1>2, <1>4, <1>5 DEF DashIInv

LEMMA DashStep == ASSUME DashIInv, [DashNext]_dashVars PROVE DashIInv'
<1>1. CASE UNCHANGED dashVars
  BY <1>1 DEF dashVars, DashIInv, StateOK, NoncesRemembered, ApprovalIssued, ApprovedIsIssued, IsUsed
<1>2. CASE DashNext
  BY <1>2, TimeStep, OthersStep, Arrives, CheckedRead, ConnectsAndFilters, RefreshSteps, ReviewSteps,
     DecideStep DEF DashNext
<1> QED BY <1>1, <1>2

(* For any rows, windows and clocks: no nonce is accepted in a read that   *)
(* comes after its use, and approvals follow issuances.                    *)
THEOREM DashInvariance == DashSpec => []DashIInv
<1>1. DashInit => DashIInv
  BY DashStarts
<1>2. DashIInv /\ [DashNext]_dashVars => DashIInv'
  BY DashStep
<1> QED BY <1>1, <1>2, PTL DEF DashSpec

(* What the run checks of reads, nonces and reviews.                       *)
THEOREM DashCorrect == DashSpec => []DashInv
<1>1. DashIInv => DashInv
  BY DEF DashIInv, StateOK, NoncesRemembered, ApprovalIssued, DashInv, DashTypeOK, NoReplayAfterUse,
         QueueRead, DashState, RefreshState, Times
<1> QED BY <1>1, DashInvariance, PTL

(* A decision is final whatever other issuers do between the arrival of a  *)
(* review and its last await.                                              *)
THEOREM DecisionsFinal == DashSpec => DecidedOnce
<1>1. DashIInv /\ [DashNext]_dashVars =>
        [\A r \in Rows : kyc[r] \in {"approved", "rejected"} => kyc'[r] = kyc[r]]_dashVars
  <2> SUFFICES ASSUME DashIInv, DashNext,
                      NEW r \in Rows, kyc[r] \in {"approved", "rejected"}
               PROVE  kyc'[r] = kyc[r]
    OBVIOUS
  <2>1. kyc \in [Rows -> {"none"} \cup Filters]
    BY DEF DashIInv, StateOK
  <2>2. CASE OthersAct
    BY <2>1, <2>2 DEF OthersAct
  <2>3. CASE ReviewDecides
    BY <2>1, <2>3 DEF ReviewDecides, StatusNow
  <2>4. CASE UNCHANGED kyc
    BY <2>4
  <2> QED BY <2>2, <2>3, <2>4 DEF DashNext, PassTime, ReadArrives, ReadChecked, HandleConnect, Filter,
          RefreshQueue, Resigned, CountsAnswered, QueueAnswered, RefreshFails, HandleApprove, HandleReject,
          IssueMined, ReviewSigned, ReviewArrives, ReviewFails
<1> QED BY <1>1, DashInvariance, PTL DEF DashSpec, DecidedOnce
-----------------------------------------------------------------------------
(* The report of the backend's health.                                     *)

LEMMA HealthBounds ==
    /\ DeployBlock \in Nat /\ LagOk \in Nat /\ LagWarn \in Nat /\ SyncOk \in Nat /\ SyncWarn \in Nat
    /\ RpcMax \in Nat /\ RateWindow \in Nat /\ RateLimit \in Nat /\ MaxFailures \in Nat
    /\ HeadTTL \in Nat /\ HeadTTL >= 1 /\ BalanceTTL \in Nat /\ BalanceTTL >= 1
    /\ MaxKeys \in Nat /\ MaxKeys >= 1 /\ MaxNow \in Nat /\ MaxNow >= 1
    /\ LagOk <= LagWarn /\ SyncOk <= SyncWarn /\ Growths \in [Parts -> SUBSET Nat]
    /\ DeployBlock > LagOk
<1>1. /\ DeployBlock \in Nat /\ LagOk \in Nat /\ LagWarn \in Nat /\ SyncOk \in Nat /\ SyncWarn \in Nat
      /\ RpcMax \in Nat /\ RateWindow \in Nat /\ RateLimit \in Nat /\ MaxFailures \in Nat
  BY HealthAssumption
<1>2. /\ HeadTTL \in Nat \ {0} /\ BalanceTTL \in Nat \ {0}
      /\ MaxKeys \in Nat \ {0} /\ MaxNow \in Nat \ {0}
  BY HealthAssumption
<1> QED BY <1>1, <1>2, HealthAssumption

HeadEntry == [block : Nat, ok : BOOLEAN, at : Nat]
BalanceEntry == [level : Levels, ok : BOOLEAN, at : Nat]
BuiltReport == [pc : {"idle", "reading"}, since : Nat,
                head : HeadEntry, headPc : {"asked", "served", "have"},
                balance : BalanceEntry, balancePc : {"asked", "have"}]
Moment == [head : Nat, balance : Levels]
RecordOf(allowed) == [success : Nat, failed : BOOLEAN, allowed : allowed, reports : Nat,
                      passes : Nat, restarts : Nat, failures : Nat]
HealthRecord == RecordOf([Clients -> Seq(Nat)])

(* The head of the chain only grows, and the balance is only spent.        *)
ChainSound ==
    /\ part \in Parts /\ chain \in Seq(Moment) /\ Now \in 1..MaxNow
    /\ \A s, t \in 1..Now : s <= t =>
           /\ chain[s].head <= chain[t].head
           /\ chain[t].balance = 2 => chain[s].balance = 2

(* What the passes recorded: a failure shows until a pass succeeds, and    *)
(* the recorded time is that of a success.                                 *)
PassesSound ==
    /\ sync \in [block : Nat, at : Nat, error : BOOLEAN]
    /\ pass \in [pc : {"idle", "syncing"}, latest : Nat]
    /\ record \in HealthRecord
    /\ sync.at <= Now /\ sync.block <= HeadBlock /\ pass.latest <= HeadBlock
    /\ sync.at <= record.success /\ record.success <= Now
    /\ record.failed => sync.error

(* A cached head was the chain's at most a call before it was cached.      *)
CacheSound ==
    /\ cache \in [head : HeadEntry, balance : BalanceEntry]
    /\ cache.head.at <= Now /\ cache.balance.at <= Now /\ cache.head.block <= HeadBlock
    /\ cache.head.ok => /\ cache.head.at >= 1
                        /\ chain[Before(cache.head.at, RpcMax)].head <= cache.head.block
    /\ cache.balance.ok => /\ cache.balance.at >= 1
                           /\ cache.balance.level = 2 => chain[cache.balance.at].balance = 2

ReportSound(b) ==
    /\ b.head.block <= HeadBlock /\ b.since <= Now
    /\ b.pc = "idle" => b.headPc = "have"
    /\ b.pc = "idle" => b.balancePc = "have"
    /\ b.pc = "reading" =>
           /\ b.since >= 1 /\ Now <= b.since + RpcMax
           /\ b.headPc = "served" => chain[b.since].head <= b.head.block
           /\ b.headPc = "have" /\ b.head.ok =>
                  chain[Before(b.since, HeadTTL - 1 + RpcMax)].head <= b.head.block
           /\ b.balancePc = "have" /\ b.balance.ok /\ b.balance.level = 2 =>
                  chain[Before(b.since, BalanceTTL - 1)].balance = 2

ReadsSound ==
    /\ CacheSound
    /\ reports \in [Routes -> BuiltReport]
    /\ \A r \in Routes : ReportSound(reports[r])

LEMMA BeforeIsEarlier ==
    ASSUME NEW n \in Nat, NEW t \in 1..n, NEW ago \in Nat
    PROVE  Before(t, ago) \in 1..t /\ Before(t, ago) \in 1..n
BY DEF Before

LEMMA BeforeMonotone ==
    ASSUME NEW s \in Nat, s >= 1, NEW t \in Nat, t >= 1, NEW a \in Nat, NEW b \in Nat, t - b <= s - a
    PROVE  Before(t, b) <= Before(s, a)
BY DEF Before

LEMMA ChainFacts ==
    ASSUME ChainSound
    PROVE  /\ Now \in Nat /\ Now >= 1 /\ Now <= MaxNow
           /\ \A t \in 1..Now : chain[t].head \in Nat /\ chain[t].balance \in Levels
           /\ HeadBlock \in Nat /\ HeadBlock = chain[Now].head
           /\ \A s, t \in 1..Now : s <= t =>
                  /\ chain[s].head <= chain[t].head
                  /\ chain[t].balance = 2 => chain[s].balance = 2
<1>1. Now \in Nat /\ Now >= 1 /\ Now <= MaxNow
  BY HealthBounds DEF ChainSound
<1>2. \A t \in 1..Now : chain[t] \in Moment
  BY ElementOfSeq DEF ChainSound, Now
<1>3. \A t \in 1..Now : chain[t].head \in Nat /\ chain[t].balance \in Levels
  BY <1>2 DEF Moment
<1>4. HeadBlock \in Nat /\ HeadBlock = chain[Now].head
  BY <1>1, <1>3 DEF HeadBlock
<1> QED BY <1>1, <1>3, <1>4 DEF ChainSound

LEMMA TimeKeeps ==
    ASSUME ChainSound, PassesSound, ReadsSound, TimeGoesOn
    PROVE  /\ ChainSound' /\ PassesSound' /\ ReadsSound' /\ Now' = Now + 1
<1>0. /\ Now \in Nat /\ Now >= 1 /\ Now <= MaxNow /\ HeadBlock \in Nat
      /\ \A t \in 1..Now : chain[t].head \in Nat /\ chain[t].balance \in Levels
      /\ \A s, t \in 1..Now : s <= t =>
            /\ chain[s].head <= chain[t].head
            /\ chain[t].balance = 2 => chain[s].balance = 2
      /\ chain \in Seq(Moment) /\ Now = Len(chain) /\ part \in Parts /\ HeadBlock = chain[Now].head
  BY ChainFacts DEF ChainSound, Now
<1>1. PICK growth \in Growths[part], balance \in {0, chain[Now].balance} :
          chain' = Append(chain, [head |-> HeadBlock + growth, balance |-> balance])
  BY DEF TimeGoesOn
<1> DEFINE m == [head |-> HeadBlock + growth, balance |-> balance]
<1>2. growth \in Nat
  BY <1>0, HealthBounds
<1>3. m \in Moment /\ m.head >= HeadBlock /\ m.head \in Nat /\ m.balance \in {0, chain[Now].balance}
  BY <1>0, <1>2 DEF Moment, Levels
<1>4. chain' = Append(chain, m)
  BY <1>1
<1> HIDE DEF m
<1>5. /\ chain' \in Seq(Moment) /\ Now' = Now + 1
      /\ \A t \in 1..Now : chain'[t] = chain[t]
      /\ chain'[Now + 1] = m
  BY <1>0, <1>3, <1>4, AppendProperties DEF Now
<1>6. HeadBlock' = m.head
  BY <1>5 DEF HeadBlock
<1>7. Now < MaxNow /\ UNCHANGED <<part, sync, pass, cache, reports, record>>
      /\ \A r \in Routes : reports[r].pc = "reading" => Now < reports[r].since + RpcMax
  BY DEF TimeGoesOn
<1>8. ChainSound'
  <2>1. Now' \in 1..MaxNow
    BY <1>0, <1>5, <1>7, HealthBounds
  <2>2. ASSUME NEW s \in 1..Now', NEW t \in 1..Now', s <= t
        PROVE  /\ chain'[s].head <= chain'[t].head
               /\ chain'[t].balance = 2 => chain'[s].balance = 2
    <3>1. CASE t \in 1..Now
      <4>1. s \in 1..Now
        BY <1>0, <2>2, <3>1
      <4> QED BY <1>0, <1>5, <2>2, <3>1, <4>1
    <3>2. CASE t = Now + 1 /\ s = Now + 1
      BY <1>3, <1>5, <3>2
    <3>3. CASE t = Now + 1 /\ s \in 1..Now
      <4>1. chain[s].head <= HeadBlock /\ chain[s].head \in Nat
            /\ (chain[Now].balance = 2 => chain[s].balance = 2)
        BY <1>0, <3>3
      <4> QED BY <1>0, <1>3, <1>5, <3>3, <4>1
    <3> QED BY <1>0, <1>5, <3>1, <3>2, <3>3
  <2> QED BY <1>0, <1>5, <1>7, <2>1, <2>2 DEF ChainSound
<1>9. PassesSound'
  <2>1. /\ UNCHANGED <<sync, pass, record>> /\ HeadBlock' >= HeadBlock /\ HeadBlock' \in Nat
        /\ Now' >= Now /\ Now' \in Nat
    BY <1>0, <1>3, <1>5, <1>6, <1>7
  <2>2. record.success \in Nat /\ sync.at \in Nat /\ sync.block \in Nat /\ pass.latest \in Nat
    BY DEF PassesSound, HealthRecord, RecordOf
  <2> QED BY <1>0, <2>1, <2>2 DEF PassesSound
<1>10. CacheSound'
  <2>1. cache.head.at \in Nat /\ cache.balance.at \in Nat /\ cache.head.block \in Nat
    BY DEF ReadsSound, CacheSound, HeadEntry, BalanceEntry
  <2>2. cache.head.ok => /\ Before(cache.head.at, RpcMax) \in 1..Now
    <3>1. cache.head.ok => cache.head.at \in 1..Now
      BY <1>0, <2>1 DEF ReadsSound, CacheSound
    <3> QED BY <1>0, <3>1, BeforeIsEarlier, HealthBounds
  <2>3. cache.head.ok => chain'[Before(cache.head.at, RpcMax)].head <= cache.head.block
    BY <1>5, <2>2 DEF ReadsSound, CacheSound
  <2>4. cache.balance.ok /\ cache.balance.level = 2 => chain'[cache.balance.at].balance = 2
    BY <1>0, <1>5, <2>1 DEF ReadsSound, CacheSound
  <2>5. cache.head.at <= Now' /\ cache.balance.at <= Now' /\ cache.head.block <= HeadBlock'
    BY <1>0, <1>3, <1>5, <1>6, <2>1 DEF ReadsSound, CacheSound
  <2> QED BY <1>7, <2>3, <2>4, <2>5 DEF ReadsSound, CacheSound, Before
<1>11. ASSUME NEW r \in Routes
       PROVE  ReportSound(reports[r])'
  <2> DEFINE b == reports[r]
  <2>1. b \in BuiltReport /\ ReportSound(b) /\ b' = b
    BY <1>7 DEF ReadsSound
  <2>2. b.since \in Nat /\ b.head.block \in Nat
    BY <2>1 DEF BuiltReport, HeadEntry
  <2>3. b.pc = "reading" => b.since \in 1..Now /\ Now' <= b.since + RpcMax
    BY <1>0, <1>5, <1>7, <2>1, <2>2, HealthBounds DEF ReportSound
  <2>4. b.pc = "reading" => /\ Before(b.since, HeadTTL - 1 + RpcMax) \in 1..Now
                            /\ Before(b.since, BalanceTTL - 1) \in 1..Now
    <3>1. HeadTTL - 1 + RpcMax \in Nat /\ BalanceTTL - 1 \in Nat
      BY HealthBounds
    <3> HIDE DEF b
    <3> QED BY <1>0, <2>3, <3>1, BeforeIsEarlier
  <2>5. b.head.block <= HeadBlock' /\ b.since <= Now'
    BY <1>0, <1>3, <1>5, <1>6, <2>1, <2>2 DEF ReportSound
  <2> HIDE DEF b
  <2>6. /\ b.pc = "reading" /\ b.headPc = "served" => chain'[b.since].head <= b.head.block
        /\ b.pc = "reading" /\ b.headPc = "have" /\ b.head.ok =>
               chain'[Before(b.since, HeadTTL - 1 + RpcMax)].head <= b.head.block
        /\ b.pc = "reading" /\ b.balancePc = "have" /\ b.balance.ok /\ b.balance.level = 2 =>
               chain'[Before(b.since, BalanceTTL - 1)].balance = 2
    BY <1>5, <2>1, <2>3, <2>4 DEF ReportSound
  <2>7. ReportSound(b)'
    BY <2>1, <2>3, <2>5, <2>6 DEF ReportSound, Before
  <2> QED BY <2>7 DEF b
<1> QED BY <1>5, <1>7, <1>8, <1>9, <1>10, <1>11 DEF ReadsSound

LEMMA RecordNumbers ==
    ASSUME record \in HealthRecord
    PROVE  /\ record.success \in Nat /\ record.failures + 1 \in Nat /\ record.restarts + 1 \in Nat
           /\ record.reports + 1 \in Nat /\ record.passes + 1 \in Nat
           /\ record.allowed \in [Clients -> Seq(Nat)]
BY DEF HealthRecord, RecordOf

LEMMA RecordFailed ==
    ASSUME record \in HealthRecord, NEW n \in Nat, NEW f \in BOOLEAN,
           record' = [record EXCEPT !.failures = n, !.failed = f]
    PROVE  /\ record' \in HealthRecord /\ record'.allowed = record.allowed
           /\ record'.success = record.success /\ record'.failed = f
<1> DEFINE A == [Clients -> Seq(Nat)]
<1>1. record \in RecordOf(A)
  BY DEF HealthRecord
<1> HIDE DEF A
<1>2. /\ record' \in RecordOf(A) /\ record'.allowed = record.allowed
      /\ record'.success = record.success /\ record'.failed = f
  BY <1>1 DEF RecordOf
<1> QED BY <1>2 DEF HealthRecord, A

LEMMA RecordRestart ==
    ASSUME record \in HealthRecord, NEW n \in Nat, NEW m \in Nat,
           record' = [record EXCEPT !.restarts = n, !.success = m]
    PROVE  /\ record' \in HealthRecord /\ record'.allowed = record.allowed
           /\ record'.success = m /\ record'.failed = record.failed
<1> DEFINE A == [Clients -> Seq(Nat)]
<1>1. record \in RecordOf(A)
  BY DEF HealthRecord
<1> HIDE DEF A
<1>2. /\ record' \in RecordOf(A) /\ record'.allowed = record.allowed
      /\ record'.success = m /\ record'.failed = record.failed
  BY <1>1 DEF RecordOf
<1> QED BY <1>2 DEF HealthRecord, A

LEMMA RecordCounts ==
    ASSUME record \in HealthRecord, NEW n \in Nat,
           record' \in {record, [record EXCEPT !.failures = n], [record EXCEPT !.reports = n]}
    PROVE  /\ record' \in HealthRecord /\ record'.allowed = record.allowed
           /\ record'.success = record.success /\ record'.failed = record.failed
<1> DEFINE A == [Clients -> Seq(Nat)]
<1>1. record \in RecordOf(A)
  BY DEF HealthRecord
<1> HIDE DEF A
<1>2. /\ record' \in RecordOf(A) /\ record'.allowed = record.allowed
      /\ record'.success = record.success /\ record'.failed = record.failed
  BY <1>1 DEF RecordOf
<1> QED BY <1>2 DEF HealthRecord, A

LEMMA SameChain ==
    ASSUME ChainSound, UNCHANGED <<part, chain>>
    PROVE  ChainSound' /\ Now' = Now /\ HeadBlock' = HeadBlock
BY DEF ChainSound, Now, HeadBlock

(* The passes of the indexer and a restart.                                *)
LEMMA PassesKeep ==
    ASSUME ChainSound, PassesSound, ReadsSound, PassStarts \/ PassSucceeds \/ PassFails \/ Restart
    PROVE  PassesSound' /\ ReadsSound' /\ UNCHANGED <<part, chain, buckets>> /\ record'.allowed = record.allowed
<1>0. /\ UNCHANGED <<part, chain, buckets>>
  BY DEF PassStarts, PassSucceeds, PassFails, Restart
<1>1. Now' = Now /\ HeadBlock' = HeadBlock /\ Now \in Nat /\ Now >= 1 /\ HeadBlock \in Nat
  BY <1>0, SameChain, ChainFacts
<1>2. /\ sync \in [block : Nat, at : Nat, error : BOOLEAN]
      /\ pass \in [pc : {"idle", "syncing"}, latest : Nat] /\ record \in HealthRecord
      /\ sync.at <= Now /\ sync.block <= HeadBlock /\ pass.latest <= HeadBlock
      /\ sync.at <= record.success /\ record.success <= Now
      /\ record.failed => sync.error
  BY DEF PassesSound
<1>10. /\ record \in HealthRecord /\ record.success \in Nat
       /\ record.failures + 1 \in Nat /\ record.restarts + 1 \in Nat
  BY <1>2, RecordNumbers
<1>3. NoPass \in [pc : {"idle", "syncing"}, latest : Nat] /\ NoPass.latest = 0
  BY DEF NoPass
<1>4. ReadsSound'
  <2>1. CASE UNCHANGED <<cache, reports>>
    BY <1>0, <1>1, <2>1 DEF ReadsSound, CacheSound, ReportSound, Before
  <2>2. CASE Restart
    <3>1. cache' = NoCaches /\ reports' = [r \in Routes |-> NotBuilding]
      BY <2>2 DEF Restart
    <3>2. NoEntry \in HeadEntry /\ NoBalance \in BalanceEntry
      BY DEF NoEntry, NoBalance, HeadEntry, BalanceEntry, Levels
    <3>3. NotBuilding \in BuiltReport
      BY <3>2 DEF NotBuilding, BuiltReport
    <3>4. CacheSound'
      BY <1>1, <3>1, <3>2 DEF CacheSound, NoCaches, NoEntry, NoBalance
    <3>5. \A r \in Routes : ReportSound(reports[r])'
      BY <1>1, <3>1 DEF ReportSound, NotBuilding, NoEntry
    <3> QED BY <3>1, <3>3, <3>4, <3>5 DEF ReadsSound
  <2> QED BY <2>1, <2>2 DEF PassStarts, PassSucceeds, PassFails
<1>5. ASSUME NEW writes \in 0..3
      PROVE  /\ Recorded(writes) \in [block : Nat, at : Nat, error : BOOLEAN]
             /\ Recorded(writes).block <= HeadBlock
             /\ Recorded(writes).at = IF writes >= 2 THEN Now ELSE sync.at
             /\ Recorded(writes).error = IF writes >= 3 THEN FALSE ELSE sync.error
  BY <1>1, <1>2 DEF Recorded, Cursor
<1>6. CASE PassStarts
  <2>1. /\ pass' = [pc |-> "syncing", latest |-> HeadBlock] /\ UNCHANGED sync
        /\ record' = [record EXCEPT !.passes = @ + 1]
    BY <1>6 DEF PassStarts
  <2>2. /\ record' \in HealthRecord /\ record'.allowed = record.allowed
        /\ record'.success = record.success /\ record'.failed = record.failed
    <3> DEFINE A == [Clients -> Seq(Nat)]
               n == record.passes + 1
    <3>1. record \in RecordOf(A) /\ n \in Nat /\ record' = [record EXCEPT !.passes = n]
      BY <1>2, <2>1, RecordNumbers DEF HealthRecord
    <3> HIDE DEF A, n
    <3>2. /\ record' \in RecordOf(A) /\ record'.allowed = record.allowed
          /\ record'.success = record.success /\ record'.failed = record.failed
      BY <3>1 DEF RecordOf
    <3> QED BY <3>2 DEF HealthRecord, A
  <2>3. pass' \in [pc : {"idle", "syncing"}, latest : Nat] /\ pass'.latest <= HeadBlock'
    BY <1>1, <2>1
  <2>4. PassesSound'
    BY <1>1, <1>2, <2>1, <2>2, <2>3 DEF PassesSound
  <2> QED BY <1>0, <1>4, <2>2, <2>4
<1>7. CASE PassSucceeds
  <2>1. /\ sync' = Recorded(3) /\ pass' = NoPass
        /\ record' = [record EXCEPT !.success = Now, !.failed = FALSE]
    BY <1>7 DEF PassSucceeds
  <2>2. sync' \in [block : Nat, at : Nat, error : BOOLEAN] /\ sync'.block <= HeadBlock /\ sync'.at = Now
    BY <1>5, <2>1
  <2>3. /\ record' \in HealthRecord /\ record'.allowed = record.allowed
        /\ record'.success = Now /\ ~record'.failed
    BY <1>1, <1>10, <2>1 DEF HealthRecord, RecordOf
  <2>4. PassesSound'
    BY <1>1, <1>3, <2>1, <2>2, <2>3 DEF PassesSound
  <2> QED BY <1>0, <1>4, <2>3, <2>4
<1>8. CASE PassFails
  <2>1. /\ sync' = [sync EXCEPT !.error = TRUE] /\ pass' = NoPass
        /\ record' = [record EXCEPT !.failures = @ + 1, !.failed = TRUE]
    BY <1>8 DEF PassFails, RecordedError, FailedOnce
  <2>2. /\ record' \in HealthRecord /\ record'.allowed = record.allowed
        /\ record'.success = record.success
    <3> DEFINE n == record.failures + 1
    <3>1. n \in Nat /\ record' = [record EXCEPT !.failures = n, !.failed = TRUE]
      BY <1>10, <2>1
    <3> HIDE DEF n
    <3> QED BY <1>10, <3>1, RecordFailed
  <2>3. /\ sync' \in [block : Nat, at : Nat, error : BOOLEAN] /\ sync'.block = sync.block
        /\ sync'.at = sync.at /\ sync'.error
    BY <1>2, <2>1
  <2>4. PassesSound'
    BY <1>1, <1>2, <1>3, <2>1, <2>2, <2>3 DEF PassesSound
  <2> QED BY <1>0, <1>4, <2>2, <2>4
<1>9. CASE Restart
  <2> PICK writes \in IF pass.pc = "syncing" THEN 0..2 ELSE {0} :
          /\ sync' = Recorded(writes)
          /\ record' = [record EXCEPT !.restarts = @ + 1, !.success = IF writes > 0 THEN Now ELSE @]
    BY <1>9 DEF Restart
  <2>0. writes \in 0..2 /\ writes \in 0..3
    OBVIOUS
  <2>1. /\ sync' \in [block : Nat, at : Nat, error : BOOLEAN] /\ sync'.block <= HeadBlock
        /\ sync'.at = (IF writes >= 2 THEN Now ELSE sync.at) /\ sync'.error = sync.error
    BY <1>5, <2>0
  <2>2. /\ record' \in HealthRecord /\ record'.allowed = record.allowed
        /\ record'.success = (IF writes > 0 THEN Now ELSE record.success) /\ record'.failed = record.failed
    <3> DEFINE n == record.restarts + 1
               success == IF writes > 0 THEN Now ELSE record.success
    <3>1. n \in Nat /\ success \in Nat /\ record' = [record EXCEPT !.restarts = n, !.success = success]
      BY <1>1, <1>10
    <3>2. success = IF writes > 0 THEN Now ELSE record.success
      OBVIOUS
    <3> HIDE DEF n, success
    <3> QED BY <1>10, <3>1, <3>2, RecordRestart
  <2>3. pass' = NoPass
    BY <1>9 DEF Restart
  <2>4. sync'.at <= Now' /\ sync'.at <= record'.success /\ record'.success <= Now'
    BY <1>1, <1>2, <1>10, <2>0, <2>1, <2>2
  <2>5. record'.failed => sync'.error
    BY <1>2, <2>1, <2>2
  <2>6. PassesSound'
    BY <1>1, <1>3, <2>1, <2>2, <2>3, <2>4, <2>5 DEF PassesSound
  <2> QED BY <1>0, <1>4, <2>2, <2>6
<1> QED BY <1>6, <1>7, <1>8, <1>9

(* A report that is being built in its new state.                          *)
LEMMA ReadStep ==
    ASSUME ReadsSound, NEW r \in Routes, NEW b \in BuiltReport, ReportSound(b), CacheSound',
           UNCHANGED <<part, chain>>, reports' = [reports EXCEPT ![r] = b]
    PROVE  ReadsSound'
<1>1. reports' \in [Routes -> BuiltReport]
  BY DEF ReadsSound
<1>2. ASSUME NEW q \in Routes PROVE ReportSound(reports[q])'
  <2>1. CASE q = r
    <3>1. reports'[q] = b
      BY <2>1 DEF ReadsSound
    <3>2. Now' = Now /\ HeadBlock' = HeadBlock
      BY DEF Now, HeadBlock
    <3> QED BY <3>1, <3>2 DEF ReportSound, Before
  <2>2. CASE q # r
    <3>1. reports'[q] = reports[q] /\ ReportSound(reports[q])
      BY <2>2 DEF ReadsSound
    <3>2. Now' = Now /\ HeadBlock' = HeadBlock
      BY DEF Now, HeadBlock
    <3> QED BY <3>1, <3>2 DEF ReportSound, Before
  <2> QED BY <2>1, <2>2
<1> QED BY <1>1, <1>2 DEF ReadsSound

LEMMA SameCache ==
    ASSUME CacheSound, UNCHANGED <<chain, cache>>
    PROVE  CacheSound'
BY DEF CacheSound, Now, HeadBlock, Before

(* What the fields of a report being built are.                            *)
LEMMA ReportFacts ==
    ASSUME ChainSound, ReadsSound, NEW r \in Routes
    PROVE  /\ reports[r] \in BuiltReport /\ ReportSound(reports[r])
           /\ reports[r].head \in HeadEntry /\ reports[r].balance \in BalanceEntry
           /\ reports[r].head.block \in Nat /\ reports[r].since \in Nat
           /\ reports[r].pc \in {"idle", "reading"}
           /\ reports[r].pc = "reading" => reports[r].since \in 1..Now /\ Now <= reports[r].since + RpcMax
<1>1. reports[r] \in BuiltReport /\ ReportSound(reports[r])
  BY DEF ReadsSound
<1>2. /\ reports[r].head \in HeadEntry /\ reports[r].balance \in BalanceEntry /\ reports[r].since \in Nat
      /\ reports[r].pc \in {"idle", "reading"}
  BY <1>1 DEF BuiltReport
<1>3. reports[r].head.block \in Nat
  BY <1>2 DEF HeadEntry
<1>4. reports[r].pc = "reading" => reports[r].since \in 1..Now /\ Now <= reports[r].since + RpcMax
  BY <1>1, <1>2, ChainFacts DEF ReportSound
<1> QED BY <1>1, <1>2, <1>3, <1>4

LEMMA NotBuildingSound ==
    ASSUME ChainSound
    PROVE  NotBuilding \in BuiltReport /\ ReportSound(NotBuilding)
<1>1. NoEntry \in HeadEntry /\ NoBalance \in BalanceEntry /\ NoEntry.block = 0
  BY DEF NoEntry, NoBalance, HeadEntry, BalanceEntry, Levels
<1>2. NotBuilding \in BuiltReport
  BY <1>1 DEF NotBuilding, BuiltReport
<1>3. 0 <= HeadBlock /\ 0 <= Now
  BY ChainFacts
<1> QED BY <1>1, <1>2, <1>3 DEF NotBuilding, ReportSound

LEMMA StartReportKeeps ==
    ASSUME ChainSound, ReadsSound, NEW r \in Routes, StartReport(r)
    PROVE  ReadsSound'
<1> DEFINE headPc == IF FreshHead(cache.head) THEN "have" ELSE "asked"
           balancePc == IF FreshBalance(cache.balance) THEN "have" ELSE "asked"
           head == Value(cache.head)
           balance == Value(cache.balance)
           b == [pc |-> "reading", since |-> Now, head |-> head, headPc |-> headPc,
                 balance |-> balance, balancePc |-> balancePc]
<1>1. reports' = [reports EXCEPT ![r] = b] /\ UNCHANGED <<part, chain, cache>>
  BY DEF StartReport
<1>2. /\ Now \in Nat /\ Now >= 1 /\ HeadBlock \in Nat
      /\ \A t \in 1..Now : chain[t].head \in Nat
      /\ \A s, t \in 1..Now : s <= t => /\ chain[s].head <= chain[t].head
                                        /\ chain[t].balance = 2 => chain[s].balance = 2
  BY ChainFacts
<1>3. /\ cache.head \in HeadEntry /\ cache.balance \in BalanceEntry
      /\ cache.head.at \in Nat /\ cache.balance.at \in Nat /\ cache.head.block \in Nat
      /\ cache.head.at <= Now /\ cache.balance.at <= Now /\ cache.head.block <= HeadBlock
  BY DEF ReadsSound, CacheSound, HeadEntry, BalanceEntry
<1>4. /\ head \in HeadEntry /\ head.block = cache.head.block /\ head.ok = cache.head.ok
      /\ balance \in BalanceEntry /\ balance.level = cache.balance.level /\ balance.ok = cache.balance.ok
  BY <1>3 DEF Value, HeadEntry, BalanceEntry
<1>5. /\ headPc \in {"have", "asked"} /\ balancePc \in {"have", "asked"}
      /\ headPc = "have" => cache.head.at >= 1 /\ Now - cache.head.at < HeadTTL
      /\ balancePc = "have" => cache.balance.at >= 1 /\ Now - cache.balance.at < BalanceTTL
  BY <1>2, <1>3 DEF FreshHead, FreshBalance
<1> HIDE DEF headPc, balancePc, head, balance
<1>6. b \in BuiltReport
  BY <1>2, <1>4, <1>5 DEF BuiltReport
<1>7. headPc = "have" /\ head.ok => chain[Before(Now, HeadTTL - 1 + RpcMax)].head <= head.block
  <2> SUFFICES ASSUME headPc = "have", head.ok
               PROVE  chain[Before(Now, HeadTTL - 1 + RpcMax)].head <= head.block
    OBVIOUS
  <2> DEFINE early == Before(Now, HeadTTL - 1 + RpcMax)
             cached == Before(cache.head.at, RpcMax)
  <2>1. cache.head.at \in 1..Now /\ Now - cache.head.at <= HeadTTL - 1
    BY <1>2, <1>3, <1>5, HealthBounds
  <2>2. HeadTTL - 1 + RpcMax \in Nat /\ RpcMax \in Nat
    BY HealthBounds
  <2>3. early \in 1..Now /\ cached \in 1..Now
    <3>1. Now \in 1..Now
      BY <1>2
    <3>2. early \in 1..Now
      BY <1>2, <2>2, <3>1, BeforeIsEarlier
    <3>3. cached \in 1..Now
      BY <1>2, <2>1, <2>2, BeforeIsEarlier
    <3> QED BY <3>2, <3>3
  <2>4. Now - (HeadTTL - 1 + RpcMax) <= cache.head.at - RpcMax
    BY <1>2, <1>3, <2>1, HealthBounds
  <2>5. early <= cached
    BY <1>2, <1>3, <2>1, <2>2, <2>4, BeforeMonotone
  <2> HIDE DEF early
  <2>6. chain[cached].head <= cache.head.block
    BY <1>4 DEF ReadsSound, CacheSound
  <2> HIDE DEF cached
  <2>7. chain[early].head <= chain[cached].head /\ chain[early].head \in Nat /\ chain[cached].head \in Nat
    BY <1>2, <2>3, <2>5
  <2>8. chain[early].head <= head.block
    BY <1>3, <1>4, <2>6, <2>7
  <2> QED BY <2>8 DEF early
<1>8. balancePc = "have" /\ balance.ok /\ balance.level = 2 => chain[Before(Now, BalanceTTL - 1)].balance = 2
  <2> SUFFICES ASSUME balancePc = "have", balance.ok, balance.level = 2
               PROVE  chain[Before(Now, BalanceTTL - 1)].balance = 2
    OBVIOUS
  <2> DEFINE early == Before(Now, BalanceTTL - 1)
             cached == cache.balance.at
  <2>1. cached \in 1..Now /\ Now - cached <= BalanceTTL - 1
    BY <1>2, <1>3, <1>5, HealthBounds
  <2>2. BalanceTTL - 1 \in Nat
    BY HealthBounds
  <2>3. early \in 1..Now /\ early <= cached
    BY <1>2, <2>1, <2>2 DEF Before
  <2>4. chain[cached].balance = 2
    BY <1>4 DEF ReadsSound, CacheSound
  <2> HIDE DEF early, cached
  <2> QED BY <1>2, <2>1, <2>3, <2>4 DEF early
<1>9. ReportSound(b)
  <2>1. /\ b.pc = "reading" /\ b.since = Now /\ b.head = head /\ b.headPc = headPc
        /\ b.balance = balance /\ b.balancePc = balancePc
    OBVIOUS
  <2> HIDE DEF b
  <2> QED BY <1>2, <1>3, <1>4, <1>5, <1>7, <1>8, <2>1, HealthBounds DEF ReportSound
<1>10. CacheSound'
  BY <1>1, SameCache DEF ReadsSound
<1> HIDE DEF b
<1> QED BY <1>1, <1>6, <1>9, <1>10, ReadStep

(* The answers to the reads of a report, and its end.                      *)
LEMMA ReadsKeep ==
    ASSUME ChainSound, ReadsSound, NEW r \in Routes,
           \/ HeadServed(r) \/ HeadArrives(r) \/ HeadFails(r) \/ BalanceArrives(r)
           \/ BuildReport(r) \/ ReportFails(r)
    PROVE  ReadsSound'
<1>0. /\ Now \in Nat /\ Now >= 1 /\ HeadBlock \in Nat /\ HeadBlock = chain[Now].head
      /\ \A t \in 1..Now : chain[t].head \in Nat /\ chain[t].balance \in Levels
      /\ \A s, t \in 1..Now : s <= t => /\ chain[s].head <= chain[t].head
                                        /\ chain[t].balance = 2 => chain[s].balance = 2
  BY ChainFacts
<1>1. UNCHANGED <<part, chain>> /\ Now' = Now /\ HeadBlock' = HeadBlock
  BY DEF HeadServed, HeadArrives, HeadFails, BalanceArrives, BuildReport, ReportFails, Now, HeadBlock
<1>2. /\ reports \in [Routes -> BuiltReport] /\ CacheSound
      /\ cache \in [head : HeadEntry, balance : BalanceEntry]
  BY DEF ReadsSound, CacheSound
<1> DEFINE b == reports[r]
<1>3. /\ b \in BuiltReport /\ ReportSound(b) /\ b.head \in HeadEntry /\ b.balance \in BalanceEntry
      /\ b.head.block \in Nat /\ b.since \in Nat /\ b.pc \in {"idle", "reading"}
      /\ b.pc = "reading" => b.since \in 1..Now /\ Now <= b.since + RpcMax
  BY ReportFacts
<1>4. CASE HeadServed(r)
  <2> DEFINE head == [block |-> HeadBlock, ok |-> TRUE, at |-> 0]
             n == [b EXCEPT !.head = head, !.headPc = "served"]
  <2>1. b.headPc = "asked" /\ reports' = [reports EXCEPT ![r] = n] /\ UNCHANGED cache
    BY <1>2, <1>4 DEF HeadServed
  <2>2. head \in HeadEntry /\ head.block = HeadBlock
    BY <1>0 DEF HeadEntry
  <2> HIDE DEF head
  <2>3. /\ n \in BuiltReport /\ n.head = head /\ n.headPc = "served" /\ n.pc = b.pc /\ n.since = b.since
        /\ n.balance = b.balance /\ n.balancePc = b.balancePc
    BY <1>3, <2>2 DEF BuiltReport
  <2>4. b.pc = "reading" => chain[b.since].head <= HeadBlock
    <3>1. ASSUME b.pc = "reading" PROVE b.since \in 1..Now /\ Now \in 1..Now /\ b.since <= Now
      BY <1>0, <1>3, <3>1
    <3> QED BY <1>0, <3>1
  <2>5. b.pc = "reading"
    BY <1>3, <2>1 DEF ReportSound
  <2> HIDE DEF n, b
  <2>6. ReportSound(n)
    BY <1>0, <1>3, <2>2, <2>3, <2>4, <2>5 DEF ReportSound
  <2> QED BY <1>1, <1>2, <2>1, <2>3, <2>6, ReadStep, SameCache
<1>5. CASE HeadArrives(r)
  <2> DEFINE n == [b EXCEPT !.headPc = "have"]
             entry == [b.head EXCEPT !.at = Now]
  <2>1. /\ b.headPc = "served" /\ reports' = [reports EXCEPT ![r] = n]
        /\ cache' = [cache EXCEPT !.head = entry]
    BY <1>2, <1>5 DEF HeadArrives
  <2>2. /\ n \in BuiltReport /\ n.head = b.head /\ n.headPc = "have" /\ n.pc = b.pc /\ n.since = b.since
        /\ n.balance = b.balance /\ n.balancePc = b.balancePc
    BY <1>3 DEF BuiltReport
  <2>3. b.pc = "reading"
    BY <1>3, <2>1 DEF ReportSound
  <2>4. b.since \in 1..Now /\ Now \in 1..Now /\ Now <= b.since + RpcMax
    BY <1>0, <1>3, <2>3
  <2>5. entry \in HeadEntry /\ entry.block = b.head.block /\ entry.at = Now
    BY <1>0, <1>3 DEF HeadEntry
  <2>6. chain[b.since].head <= b.head.block /\ chain[b.since].head \in Nat
    BY <1>0, <1>3, <2>1, <2>3, <2>4 DEF ReportSound
  <2>7. /\ Before(b.since, HeadTTL - 1 + RpcMax) \in 1..Now
        /\ Before(b.since, HeadTTL - 1 + RpcMax) <= b.since
        /\ Before(Now, RpcMax) \in 1..Now /\ Before(Now, RpcMax) <= b.since
    <3>1. HeadTTL - 1 + RpcMax \in Nat /\ RpcMax \in Nat
      BY HealthBounds
    <3> HIDE DEF b
    <3> QED BY <1>0, <2>4, <3>1 DEF Before
  <2> HIDE DEF n, b, entry
  <2>8. ASSUME NEW t \in 1..Now, t <= b.since PROVE chain[t].head <= b.head.block
    <3>1. chain[t].head <= chain[b.since].head /\ chain[t].head \in Nat
      BY <1>0, <2>4, <2>8
    <3> QED BY <1>3, <2>6, <3>1
  <2>9. ReportSound(n)
    BY <1>3, <2>2, <2>3, <2>7, <2>8 DEF ReportSound
  <2>10. /\ cache' \in [head : HeadEntry, balance : BalanceEntry]
         /\ cache'.head = entry /\ cache'.balance = cache.balance
    BY <1>2, <2>1, <2>5
  <2>11. b.head.block <= HeadBlock
    BY <1>3 DEF ReportSound
  <2>12. CacheSound'
    BY <1>0, <1>1, <1>2, <2>5, <2>7, <2>8, <2>10, <2>11 DEF CacheSound, Before
  <2> QED BY <1>1, <1>2, <2>1, <2>2, <2>9, <2>12, ReadStep
<1>6. CASE HeadFails(r)
  <2> DEFINE entry == [b.head EXCEPT !.ok = FALSE, !.at = Now]
             head == [entry EXCEPT !.at = 0]
             n == [b EXCEPT !.head = head, !.headPc = "have"]
  <2>1. /\ b.headPc = "asked" /\ reports' = [reports EXCEPT ![r] = n]
        /\ cache' = [cache EXCEPT !.head = entry]
    BY <1>2, <1>6 DEF HeadFails, HeadFailed, Value
  <2>2. entry \in HeadEntry /\ entry.block = b.head.block /\ entry.at = Now /\ ~entry.ok
    BY <1>0, <1>3 DEF HeadEntry
  <2> HIDE DEF entry
  <2>3. head \in HeadEntry /\ head.block = b.head.block /\ ~head.ok
    BY <2>2 DEF HeadEntry
  <2> HIDE DEF head
  <2>4. /\ n \in BuiltReport /\ n.head = head /\ n.headPc = "have" /\ n.pc = b.pc /\ n.since = b.since
        /\ n.balance = b.balance /\ n.balancePc = b.balancePc
    BY <1>3, <2>3 DEF BuiltReport
  <2>5. b.pc = "reading"
    BY <1>3, <2>1 DEF ReportSound
  <2> HIDE DEF n, b
  <2>6. ReportSound(n)
    BY <1>3, <2>3, <2>4, <2>5 DEF ReportSound
  <2>7. /\ cache' \in [head : HeadEntry, balance : BalanceEntry]
        /\ cache'.head = entry /\ cache'.balance = cache.balance
    BY <1>2, <2>1, <2>2
  <2>8. b.head.block <= HeadBlock
    BY <1>3 DEF ReportSound
  <2>9. CacheSound'
    BY <1>0, <1>1, <1>2, <2>2, <2>7, <2>8 DEF CacheSound, Before
  <2> QED BY <1>1, <1>2, <2>1, <2>4, <2>6, <2>9, ReadStep
<1>7. CASE BalanceArrives(r)
  <2> PICK ok \in BOOLEAN :
        /\ reports' = [reports EXCEPT ![r].balance =
               Value([level |-> IF ok THEN chain[Now].balance ELSE cache.balance.level, ok |-> ok, at |-> Now]),
                                      ![r].balancePc = "have"]
        /\ cache' = [cache EXCEPT !.balance =
               [level |-> IF ok THEN chain[Now].balance ELSE cache.balance.level, ok |-> ok, at |-> Now]]
    BY <1>7 DEF BalanceArrives
  <2> DEFINE level == IF ok THEN chain[Now].balance ELSE cache.balance.level
             entry == [level |-> level, ok |-> ok, at |-> Now]
             balance == [entry EXCEPT !.at = 0]
             n == [b EXCEPT !.balance = balance, !.balancePc = "have"]
  <2>1. /\ b.balancePc = "asked" /\ reports' = [reports EXCEPT ![r] = n]
        /\ cache' = [cache EXCEPT !.balance = entry]
    BY <1>2, <1>7 DEF BalanceArrives, Value
  <2>2. level \in Levels /\ (ok => level = chain[Now].balance)
    BY <1>0, <1>2 DEF BalanceEntry
  <2> HIDE DEF level
  <2>3. entry \in BalanceEntry /\ entry.level = level /\ entry.at = Now /\ entry.ok = ok
    BY <1>0, <2>2 DEF BalanceEntry
  <2> HIDE DEF entry
  <2>4. balance \in BalanceEntry /\ balance.level = level /\ balance.ok = ok
    BY <2>3 DEF BalanceEntry
  <2> HIDE DEF balance
  <2>5. /\ n \in BuiltReport /\ n.head = b.head /\ n.headPc = b.headPc /\ n.pc = b.pc /\ n.since = b.since
        /\ n.balance = balance /\ n.balancePc = "have"
    BY <1>3, <2>4 DEF BuiltReport
  <2>6. b.pc = "reading"
    BY <1>3, <2>1 DEF ReportSound
  <2>7. /\ Before(b.since, BalanceTTL - 1) \in 1..Now
        /\ Before(b.since, BalanceTTL - 1) <= Now /\ Now \in 1..Now
    <3>1. BalanceTTL - 1 \in Nat /\ b.since \in 1..Now
      BY <1>3, <2>6, HealthBounds
    <3> HIDE DEF b
    <3> QED BY <1>0, <3>1 DEF Before
  <2>8. ok /\ level = 2 => chain[Before(b.since, BalanceTTL - 1)].balance = 2
    BY <1>0, <2>2, <2>7
  <2> HIDE DEF n, b
  <2>9. ReportSound(n)
    BY <1>3, <2>4, <2>5, <2>6, <2>8 DEF ReportSound
  <2>10. /\ cache' \in [head : HeadEntry, balance : BalanceEntry]
         /\ cache'.head = cache.head /\ cache'.balance = entry
    BY <1>2, <2>1, <2>3
  <2>11. CacheSound'
    BY <1>0, <1>1, <1>2, <2>2, <2>3, <2>10 DEF CacheSound, Before
  <2> QED BY <1>1, <1>2, <2>1, <2>5, <2>9, <2>11, ReadStep
<1>8. CASE BuildReport(r) \/ ReportFails(r)
  <2>1. reports' = [reports EXCEPT ![r] = NotBuilding] /\ UNCHANGED cache
    BY <1>8 DEF BuildReport, ReportFails
  <2> QED BY <1>1, <1>2, <2>1, ReadStep, SameCache, NotBuildingSound
<1> QED BY <1>4, <1>5, <1>6, <1>7, <1>8

(* The time of the last success is at least the one sync_state holds, so   *)
(* the classification sees every stall.                                    *)
LEMMA StallFollows ==
    ASSUME ChainSound, PassesSound, ReadsSound
    PROVE  StallShows
<1> SUFFICES ASSUME NEW r \in Routes, HasBoth(r),
                    record.failed \/ (sync.at # 0 /\ Now - record.success > SyncWarn)
             PROVE  Report(reports[r], TRUE).status = "error"
  BY DEF StallShows
<1> DEFINE lag == IF reports[r].head.ok /\ reports[r].head.block > sync.block
                  THEN reports[r].head.block - sync.block ELSE 0
           sinceSync == IF sync.at = 0 THEN -1 ELSE Now - sync.at
           indexer == IF ~reports[r].head.ok THEN "error" ELSE Classify(lag, sinceSync, sync.error)
<1>1. sync.error \/ sinceSync > SyncWarn
  <2>1. /\ sync.at \in Nat /\ record.success \in Nat /\ Now \in Nat /\ SyncWarn \in Nat
        /\ sync.at <= record.success
    BY ChainFacts, RecordNumbers, HealthBounds DEF PassesSound
  <2> QED BY <2>1 DEF PassesSound
<1>2. Classify(lag, sinceSync, sync.error) = "error"
  BY <1>1 DEF Classify
<1>3. Report(reports[r], TRUE).status = Worst(indexer, ClassifyIssuer(reports[r].balance))
  BY DEF Report
<1>4. indexer = "error"
  BY <1>2
<1> HIDE DEF indexer
<1> QED BY <1>3, <1>4 DEF Worst

LEMMA OkFollows ==
    ASSUME ChainSound, PassesSound, ReadsSound
    PROVE  OkIsCurrent
<1> SUFFICES ASSUME NEW r \in Routes, HasBoth(r), Metrics(Report(reports[r], TRUE)).health = 0
             PROVE  LET gauges == Metrics(Report(reports[r], TRUE))
                    IN /\ chain[Before(Now, HeadTTL - 1 + 2 * RpcMax)].head - gauges.last_block <= LagOk
                       /\ chain[Before(Now, BalanceTTL - 1 + RpcMax)].balance = 2
                       /\ gauges.last_error = 0 /\ gauges.testnet_up = 1 /\ gauges.issuer = 0
  BY DEF OkIsCurrent
<1> DEFINE b == reports[r]
           lag == IF b.head.ok /\ b.head.block > sync.block THEN b.head.block - sync.block ELSE 0
           sinceSync == IF sync.at = 0 THEN -1 ELSE Now - sync.at
           indexer == IF ~b.head.ok THEN "error" ELSE Classify(lag, sinceSync, sync.error)
           issuer == ClassifyIssuer(b.balance)
<1>1. /\ Report(b, TRUE).status = Worst(indexer, issuer) /\ Report(b, TRUE).issuer = issuer
      /\ Report(b, TRUE).block = sync.block /\ Report(b, TRUE).error = sync.error
      /\ Report(b, TRUE).rpc = b.head.ok
  BY DEF Report
<1>2. /\ Metrics(Report(b, TRUE)).health = Gauge(Worst(indexer, issuer))
      /\ Metrics(Report(b, TRUE)).last_block = sync.block
      /\ Metrics(Report(b, TRUE)).last_error = (IF sync.error THEN 1 ELSE 0)
      /\ Metrics(Report(b, TRUE)).testnet_up = (IF b.head.ok THEN 1 ELSE 0)
      /\ Metrics(Report(b, TRUE)).issuer = Gauge(issuer)
  <2> DEFINE report == Report(b, TRUE)
  <2>1. /\ Metrics(report).health = Gauge(report.status) /\ Metrics(report).last_block = report.block
        /\ Metrics(report).last_error = (IF report.error THEN 1 ELSE 0)
        /\ Metrics(report).testnet_up = (IF report.rpc THEN 1 ELSE 0)
        /\ Metrics(report).issuer = Gauge(report.issuer)
    BY DEF Metrics
  <2> QED BY <1>1, <2>1
<1>3. /\ b.head \in HeadEntry /\ b.balance \in BalanceEntry /\ b.head.block \in Nat /\ b.since \in Nat
      /\ b.pc = "reading" /\ b.headPc = "have" /\ b.balancePc = "have" /\ ReportSound(b)
      /\ b.since \in 1..Now /\ Now <= b.since + RpcMax
  BY ReportFacts DEF HasBoth
<1>4. indexer \in {"error", "warn", "ok"} /\ issuer \in {"error", "warn", "ok"}
  BY <1>3 DEF Classify, ClassifyIssuer, BalanceEntry, Levels
<1>5. indexer = "ok" /\ issuer = "ok"
  <2>1. Gauge(Worst(indexer, issuer)) = 0
    BY <1>2
  <2> HIDE DEF indexer, issuer
  <2> QED BY <1>4, <2>1 DEF Gauge, Worst
<1>6. b.head.ok /\ ~sync.error /\ lag <= LagOk
  <2>1. b.head.ok /\ Classify(lag, sinceSync, sync.error) = "ok"
    BY <1>5
  <2>2. /\ lag \in Nat /\ LagOk \in Nat /\ LagWarn \in Nat /\ ~(lag > LagOk)
        /\ ~sync.error
    <3>1. sync.block \in Nat /\ LagOk \in Nat /\ LagWarn \in Nat
      BY HealthBounds DEF PassesSound
    <3>2. lag \in Nat
      BY <1>3, <3>1
    <3> HIDE DEF lag, sinceSync
    <3> QED BY <2>1, <3>1, <3>2 DEF Classify
  <2> QED BY <2>1, <2>2
<1>7. b.balance.ok /\ b.balance.level = 2
  BY <1>3, <1>5 DEF ClassifyIssuer, BalanceEntry, Levels
<1>8. /\ Now \in Nat /\ Now >= 1 /\ \A t \in 1..Now : chain[t].head \in Nat
      /\ \A s, t \in 1..Now : s <= t => /\ chain[s].head <= chain[t].head
                                        /\ chain[t].balance = 2 => chain[s].balance = 2
  BY ChainFacts
<1> DEFINE early == Before(Now, HeadTTL - 1 + 2 * RpcMax)
           read == Before(b.since, HeadTTL - 1 + RpcMax)
           poor == Before(Now, BalanceTTL - 1 + RpcMax)
           spent == Before(b.since, BalanceTTL - 1)
<1>9. /\ early \in 1..Now /\ read \in 1..Now /\ early <= read
      /\ poor \in 1..Now /\ spent \in 1..Now /\ poor <= spent
  <2>1. /\ HeadTTL - 1 + 2 * RpcMax \in Nat /\ HeadTTL - 1 + RpcMax \in Nat
        /\ BalanceTTL - 1 + RpcMax \in Nat /\ BalanceTTL - 1 \in Nat /\ RpcMax \in Nat
        /\ HeadTTL - 1 + 2 * RpcMax = HeadTTL - 1 + RpcMax + RpcMax
    BY HealthBounds
  <2> DEFINE since == b.since
             n == HeadTTL - 1 + RpcMax
             m == BalanceTTL - 1
  <2>2. since \in 1..Now /\ Now <= since + RpcMax /\ n \in Nat /\ m \in Nat
    BY <1>3, <2>1
  <2>3. Now - (n + RpcMax) <= since - n /\ Now - (m + RpcMax) <= since - m
    BY <1>8, <2>1, <2>2
  <2>4. HeadTTL - 1 + 2 * RpcMax = n + RpcMax
    BY <2>1
  <2> HIDE DEF b, since, n, m
  <2>5. /\ Before(Now, n + RpcMax) \in 1..Now /\ Before(since, n) \in 1..Now
        /\ Before(Now, n + RpcMax) <= Before(since, n)
        /\ Before(Now, m + RpcMax) \in 1..Now /\ Before(since, m) \in 1..Now
        /\ Before(Now, m + RpcMax) <= Before(since, m)
    BY <1>8, <2>1, <2>2, <2>3 DEF Before
  <2> QED BY <2>4, <2>5 DEF since, n, m
<1>10. chain[read].head <= b.head.block /\ chain[spent].balance = 2
  BY <1>3, <1>6, <1>7 DEF ReportSound
<1> HIDE DEF early, read, poor, spent, b
<1>11. chain[poor].balance = 2
  BY <1>8, <1>9, <1>10
<1>12. chain[early].head <= chain[read].head /\ chain[early].head \in Nat /\ chain[read].head \in Nat
  BY <1>8, <1>9
<1>13. chain[early].head - sync.block <= LagOk
  <2>1. sync.block \in Nat /\ LagOk \in Nat /\ b.head.block \in Nat
    BY <1>3, HealthBounds DEF PassesSound
  <2>2. b.head.block - sync.block <= LagOk
    BY <1>6, <2>1
  <2> QED BY <1>10, <1>12, <2>1, <2>2
<1>14. Gauge(issuer) = 0
  BY <1>5 DEF Gauge
<1> QED BY <1>2, <1>6, <1>11, <1>13, <1>14 DEF early, poor, b

-----------------------------------------------------------------------------
(* The rate limiter of /api/issuers.                                       *)

LEMMA LeastElement ==
    ASSUME NEW T, T \subseteq Nat, T # {}
    PROVE  \E n \in T : \A m \in T : n <= m
<1> DEFINE R == OpToRel(<, Nat)
<1>1. IsWellFoundedOn(R, Nat)
  BY NatLessThanWellFounded
<1>2. \A x, y \in Nat : x < y => <<x, y>> \in R
  BY DEF OpToRel
<1> HIDE DEF R
<1>3. PICK n \in T : \A y \in T : ~ (<<y, n>> \in R)
  BY <1>1, WFMin
<1>4. \A m \in T : ~ (m < n)
  BY <1>2, <1>3
<1> QED BY <1>4, <1>3

Bucket == [client : Clients, stamps : Seq(Nat)]

(* The stamps of a bucket are those of the requests allowed, but the first *)
(* ones, which are out of the window.                                      *)
Follows(stamps, all) ==
    /\ Len(stamps) <= Len(all)
    /\ \A i \in 1..Len(stamps) : stamps[i] = all[Len(all) - Len(stamps) + i]
    /\ \A i \in 1..(Len(all) - Len(stamps)) : Expired(all[i])

WithinLimit(all) ==
    \A i \in DOMAIN all : Cardinality({j \in 1..i : all[j] >= all[i] - RateWindow}) <= RateLimit

BucketsOf(some, allowed) ==
    /\ some \in Seq(Bucket) /\ Len(some) <= MaxKeys /\ allowed \in [Clients -> Seq(Nat)]
    /\ \A k, l \in DOMAIN some : some[k].client = some[l].client => k = l
    /\ \A d \in Clients : (\A k \in DOMAIN some : some[k].client # d) => allowed[d] = << >>
    /\ \A k \in DOMAIN some : Follows(some[k].stamps, allowed[some[k].client])
    /\ \A d \in Clients : WithinLimit(allowed[d])

RateSound == BucketsOf(buckets, record.allowed)

LEMMA ShiftedIs ==
    ASSUME NEW stamps \in Seq(Nat)
    PROVE  /\ Shifted(stamps) \in 0..Len(stamps)
           /\ \A i \in 1..Shifted(stamps) : Expired(stamps[i])
<1> DEFINE T == {n \in 0..Len(stamps) : n < Len(stamps) => ~Expired(stamps[n + 1])}
<1>1. Len(stamps) \in Nat /\ Len(stamps) \in T /\ T \subseteq Nat
  OBVIOUS
<1>2. PICK n \in T : \A m \in T : n <= m
  BY <1>1, LeastElement
<1>3. \A i \in 1..n : Expired(stamps[i])
  <2> SUFFICES ASSUME NEW i \in 1..n, ~Expired(stamps[i]) PROVE FALSE
    OBVIOUS
  <2>1. i - 1 \in 0..Len(stamps) /\ i - 1 + 1 = i /\ ~(n <= i - 1)
    BY <1>1
  <2>2. i - 1 \in T
    BY <2>1
  <2> QED BY <1>2, <2>1, <2>2
<1>4. \E m \in 0..Len(stamps) : /\ \A i \in 1..m : Expired(stamps[i])
                                /\ m < Len(stamps) => ~Expired(stamps[m + 1])
  BY <1>3
<1> QED BY <1>4 DEF Shifted

LEMMA KeptFollows ==
    ASSUME NEW stamps \in Seq(Nat), NEW all \in Seq(Nat), Follows(stamps, all)
    PROVE  Kept(stamps) \in Seq(Nat) /\ Follows(Kept(stamps), all)
<1> DEFINE n == Shifted(stamps)
           kept == Kept(stamps)
<1>1. n \in 0..Len(stamps) /\ \A i \in 1..n : Expired(stamps[i])
  BY ShiftedIs
<1>2. Len(stamps) \in Nat /\ Len(all) \in Nat
  OBVIOUS
<1>3. n \in Nat /\ n + 1 \in Int /\ Len(stamps) \in Int /\ \A i \in (n + 1)..Len(stamps) : stamps[i] \in Nat
  BY <1>1, <1>2, ElementOfSeq
<1> HIDE DEF n
<1>4. /\ SubSeq(stamps, n + 1, Len(stamps)) \in Seq(Nat)
      /\ Len(SubSeq(stamps, n + 1, Len(stamps))) =
             IF n + 1 <= Len(stamps) THEN Len(stamps) - (n + 1) + 1 ELSE 0
      /\ \A i \in 1..(Len(stamps) - (n + 1) + 1) :
             SubSeq(stamps, n + 1, Len(stamps))[i] = stamps[n + 1 + i - 1]
  BY <1>3, SubSeqProperties
<1>5. kept = SubSeq(stamps, n + 1, Len(stamps))
  BY DEF Kept, n
<1> HIDE DEF kept
<1>6. /\ kept \in Seq(Nat) /\ Len(kept) = Len(stamps) - n
      /\ \A i \in 1..Len(kept) : kept[i] = stamps[n + i]
  <2>1. Len(kept) = Len(stamps) - n
    BY <1>1, <1>2, <1>3, <1>4, <1>5
  <2>2. ASSUME NEW i \in 1..Len(kept) PROVE kept[i] = stamps[n + i]
    <3>1. i \in 1..(Len(stamps) - (n + 1) + 1) /\ n + 1 + i - 1 = n + i
      BY <1>2, <1>3, <2>1
    <3> QED BY <1>4, <1>5, <3>1
  <2> QED BY <1>4, <1>5, <2>1, <2>2
<1> DEFINE gone == Len(all) - Len(stamps)
<1>7. gone \in Nat /\ Len(all) - Len(kept) = gone + n /\ Len(kept) <= Len(all)
  BY <1>1, <1>2, <1>3, <1>6 DEF Follows
<1>8. ASSUME NEW i \in 1..Len(kept) PROVE kept[i] = all[gone + n + i]
  <2>1. n + i \in 1..Len(stamps) /\ gone + (n + i) = gone + n + i
    BY <1>1, <1>2, <1>3, <1>6, <1>7
  <2>2. stamps[n + i] = all[gone + (n + i)]
    BY <2>1 DEF Follows
  <2> QED BY <1>6, <2>1, <2>2
<1>9. ASSUME NEW i \in 1..(gone + n) PROVE Expired(all[i])
  <2>1. CASE i \in 1..gone
    BY <2>1 DEF Follows
  <2>2. CASE i \notin 1..gone
    <3>1. i - gone \in 1..n /\ i - gone \in 1..Len(stamps) /\ gone + (i - gone) = i
      BY <1>1, <1>2, <1>3, <1>7, <2>2
    <3>2. stamps[i - gone] = all[gone + (i - gone)]
      BY <3>1 DEF Follows
    <3> QED BY <1>1, <3>1, <3>2
  <2> QED BY <2>1, <2>2
<1> HIDE DEF gone
<1>10. Follows(kept, all)
  BY <1>7, <1>8, <1>9 DEF Follows
<1> QED BY <1>6, <1>10 DEF kept

(* A request that is allowed: at most the limit with it in its window.     *)
LEMMA AllowedWithinLimit ==
    ASSUME ChainSound, NEW all \in Seq(Nat), WithinLimit(all), NEW stamps \in Seq(Nat), Follows(stamps, all),
           Len(stamps) < RateLimit
    PROVE  /\ Append(all, Now) \in Seq(Nat) /\ Append(stamps, Now) \in Seq(Nat)
           /\ Follows(Append(stamps, Now), Append(all, Now))
           /\ WithinLimit(Append(all, Now))
<1> DEFINE more == Append(all, Now)
           later == Append(stamps, Now)
<1>1. Now \in Nat /\ RateWindow \in Nat /\ RateLimit \in Nat
  BY ChainFacts, HealthBounds
<1>2. /\ more \in Seq(Nat) /\ Len(more) = Len(all) + 1 /\ more[Len(all) + 1] = Now
      /\ \A i \in 1..Len(all) : more[i] = all[i]
      /\ later \in Seq(Nat) /\ Len(later) = Len(stamps) + 1 /\ later[Len(stamps) + 1] = Now
      /\ \A i \in 1..Len(stamps) : later[i] = stamps[i]
  BY <1>1, AppendProperties
<1>3. Len(all) \in Nat /\ Len(stamps) \in Nat /\ Len(stamps) <= Len(all)
  BY DEF Follows
<1> HIDE DEF more, later
<1> DEFINE gone == Len(all) - Len(stamps)
<1>4. gone \in Nat /\ Len(more) - Len(later) = gone
  BY <1>2, <1>3
<1>5. \A i \in 1..gone : Expired(all[i]) /\ more[i] = all[i]
  <2>1. \A i \in 1..gone : Expired(all[i])
    BY DEF Follows
  <2>2. \A i \in 1..gone : i \in 1..Len(all)
    BY <1>3
  <2> QED BY <1>2, <2>1, <2>2
<1>0. \A i \in 1..Len(stamps) : stamps[i] = all[Len(all) - Len(stamps) + i]
  BY DEF Follows
<1>6. ASSUME NEW i \in 1..Len(later) PROVE later[i] = more[gone + i]
  <2>1. CASE i = Len(stamps) + 1
    <3>1. gone + i = Len(all) + 1
      BY <1>3, <2>1
    <3> QED BY <1>2, <2>1, <3>1
  <2>2. CASE i # Len(stamps) + 1
    <3>0. i \in 1..Len(stamps)
      BY <1>2, <1>3, <2>2
    <3>1. i \in 1..Len(stamps) /\ gone + i \in 1..Len(all)
      BY <1>2, <1>3, <3>0
    <3>2. stamps[i] = all[(Len(all) - Len(stamps)) + i]
      BY <1>0, <3>0
    <3>3. later[i] = stamps[i]
      BY <1>2, <3>1
    <3>4. more[gone + i] = all[gone + i]
      BY <1>2, <3>1
    <3> QED BY <3>2, <3>3, <3>4
  <2> QED BY <2>1, <2>2
<1> HIDE DEF gone
<1>7. Follows(later, more)
  <2>1. Len(later) <= Len(more)
    BY <1>2, <1>3
  <2>2. \A i \in 1..Len(later) : later[i] = more[(Len(more) - Len(later)) + i]
    BY <1>4, <1>6
  <2>3. \A i \in 1..(Len(more) - Len(later)) : Expired(more[i])
    BY <1>4, <1>5
  <2> QED BY <2>1, <2>2, <2>3 DEF Follows
<1>8. ASSUME NEW i \in DOMAIN more
      PROVE  Cardinality({j \in 1..i : more[j] >= more[i] - RateWindow}) <= RateLimit
  <2>1. i \in 1..(Len(all) + 1)
    BY <1>2
  <2>2. CASE i = Len(all) + 1
    <3> DEFINE T == {j \in 1..i : more[j] >= more[i] - RateWindow}
    <3>1. T \subseteq (gone + 1)..i
      <4> SUFFICES ASSUME NEW j \in 1..i, j <= gone, more[j] >= more[i] - RateWindow PROVE FALSE
        BY <1>4, <2>1
      <4>1. j \in 1..gone
        BY <1>4
      <4>2. j \in 1..Len(all)
        BY <1>2, <1>3, <1>4, <4>1
      <4>3. more[j] \in Nat /\ more[j] < Now - RateWindow /\ more[i] = Now
        BY <1>2, <1>5, <2>2, <4>1, <4>2, ElementOfSeq DEF Expired
      <4> QED BY <1>1, <4>3
    <3>2. i - (gone + 1) + 1 = Len(stamps) + 1 /\ i \in Int /\ gone + 1 \in Int
      BY <1>2, <1>3, <1>4, <2>2
    <3>3. IsFiniteSet((gone + 1)..i) /\ Cardinality((gone + 1)..i) = Len(stamps) + 1
      BY <1>3, <3>2, FS_Interval
    <3> DEFINE span == (gone + 1)..i
    <3> HIDE DEF T
    <3>4. Cardinality(T) <= Len(stamps) + 1 /\ IsFiniteSet(T)
      <4>1. IsFiniteSet(span) /\ T \in SUBSET span /\ Cardinality(span) = Len(stamps) + 1
        BY <3>1, <3>3
      <4> HIDE DEF span
      <4> QED BY <4>1, FS_Subset
    <3>5. Cardinality(T) \in Nat
      BY <3>4, FS_CardinalityType
    <3>6. Cardinality(T) <= RateLimit
      BY <1>1, <1>3, <3>4, <3>5
    <3> QED BY <3>6 DEF T
  <2>3. CASE i # Len(all) + 1
    <3>1. i \in DOMAIN all /\ i \in 1..Len(all)
      BY <1>3, <2>1, <2>3
    <3>2. \A j \in 1..i : more[j] = all[j]
      BY <1>2, <1>3, <3>1
    <3>3. {j \in 1..i : more[j] >= more[i] - RateWindow} = {j \in 1..i : all[j] >= all[i] - RateWindow}
      BY <1>2, <3>1, <3>2
    <3> QED BY <3>1, <3>3 DEF WithinLimit
  <2> QED BY <2>2, <2>3
<1>9. WithinLimit(more)
  BY <1>8 DEF WithinLimit
<1> QED BY <1>2, <1>7, <1>9 DEF more, later

LEMMA NothingAllowed ==
    /\ << >> \in Seq(Nat) /\ Follows(<< >>, << >>) /\ WithinLimit(<< >>)
BY DEF Follows, WithinLimit

(* What the requests allowed to d are, once old are the buckets.           *)
Remembered(old) ==
    [d \in Clients |-> IF \A k \in DOMAIN old : old[k].client # d THEN << >> ELSE record.allowed[d]]

LEMMA WithBucketSound ==
    ASSUME RateSound, NEW c \in Clients
    PROVE  /\ BucketsOf(WithBucket(c), Remembered(WithBucket(c)))
           /\ \E k \in DOMAIN WithBucket(c) : WithBucket(c)[k].client = c
<1> DEFINE old == WithBucket(c)
           all == Remembered(old)
<1>0. /\ buckets \in Seq(Bucket) /\ Len(buckets) <= MaxKeys /\ record.allowed \in [Clients -> Seq(Nat)]
      /\ Len(buckets) \in Nat /\ DOMAIN buckets = 1..Len(buckets)
      /\ \A k \in 1..Len(buckets) : buckets[k] \in Bucket
      /\ \A k, l \in DOMAIN buckets : buckets[k].client = buckets[l].client => k = l
      /\ \A d \in Clients : (\A k \in DOMAIN buckets : buckets[k].client # d) => record.allowed[d] = << >>
      /\ \A k \in DOMAIN buckets : Follows(buckets[k].stamps, record.allowed[buckets[k].client])
      /\ \A d \in Clients : WithinLimit(record.allowed[d])
  BY ElementOfSeq DEF RateSound, BucketsOf
<1>1. all \in [Clients -> Seq(Nat)] /\ \A d \in Clients : WithinLimit(all[d])
  BY <1>0, NothingAllowed DEF Remembered
<1>2. \A d \in Clients : (\A k \in DOMAIN old : old[k].client # d) => all[d] = << >>
  BY DEF Remembered
<1>3. ASSUME NEW k \in DOMAIN old, old[k].client \in Clients
      PROVE  all[old[k].client] = record.allowed[old[k].client]
  BY <1>3 DEF Remembered
<1>4. CASE BucketOf(c) # {}
  <2>1. old = buckets
    BY <1>4 DEF WithBucket
  <2>2. \A k \in DOMAIN buckets : buckets[k].client \in Clients
    BY <1>0 DEF Bucket
  <2> HIDE DEF old, all
  <2>3. \A k \in DOMAIN old : Follows(old[k].stamps, all[old[k].client])
    BY <1>0, <1>3, <2>1, <2>2
  <2>4. \E k \in DOMAIN old : old[k].client = c
    BY <1>4, <2>1 DEF BucketOf
  <2>5. BucketsOf(old, all)
    BY <1>0, <1>1, <1>2, <2>1, <2>3 DEF BucketsOf
  <2> QED BY <2>4, <2>5 DEF old, all
<1>5. CASE BucketOf(c) = {}
  <2> DEFINE base == IF Len(buckets) >= MaxKeys THEN Tail(buckets) ELSE buckets
             new == [client |-> c, stamps |-> << >>]
             s == IF Len(buckets) >= MaxKeys THEN 1 ELSE 0
  <2>1. old = Append(base, new)
    BY <1>5 DEF WithBucket
  <2>2. new \in Bucket /\ new.client = c /\ new.stamps = << >>
    BY DEF Bucket
  <2>3. /\ base \in Seq(Bucket) /\ Len(base) = Len(buckets) - s /\ Len(base) < MaxKeys /\ s \in 0..1
        /\ \A k \in 1..Len(base) : base[k] = buckets[k + s]
    <3>1. CASE Len(buckets) >= MaxKeys
      <4>1. buckets # << >>
        BY <1>0, <3>1, HealthBounds
      <4>2. /\ Tail(buckets) \in Seq(Bucket) /\ Len(Tail(buckets)) = Len(buckets) - 1
            /\ \A i \in 1..Len(Tail(buckets)) : Tail(buckets)[i] = buckets[i + 1]
        BY <1>0, <4>1, HeadTailProperties
      <4> QED BY <1>0, <3>1, <4>2, HealthBounds
    <3>2. CASE ~(Len(buckets) >= MaxKeys)
      BY <1>0, <3>2, HealthBounds
    <3> QED BY <3>1, <3>2
  <2> HIDE DEF base, new, s, old, all
  <2>4. /\ old \in Seq(Bucket) /\ Len(old) = Len(base) + 1 /\ old[Len(base) + 1] = new
        /\ \A k \in 1..Len(base) : old[k] = base[k]
    BY <2>1, <2>2, <2>3, AppendProperties
  <2>5. DOMAIN old = 1..(Len(base) + 1) /\ Len(base) \in Nat /\ Len(old) <= MaxKeys
    BY <2>3, <2>4, HealthBounds
  <2>6. ASSUME NEW k \in 1..Len(base)
        PROVE  /\ k + s \in DOMAIN buckets /\ old[k] = buckets[k + s]
               /\ old[k].client \in Clients /\ old[k].client # c
    <3>1. k + s \in DOMAIN buckets /\ old[k] = buckets[k + s]
      BY <1>0, <2>3, <2>4
    <3> QED BY <1>0, <1>5, <3>1 DEF BucketOf, Bucket
  <2>7. ASSUME NEW k \in DOMAIN old, NEW l \in DOMAIN old, old[k].client = old[l].client
        PROVE  k = l
    <3>1. CASE k \in 1..Len(base) /\ l \in 1..Len(base)
      <4>1. k + s = l + s
        BY <1>0, <2>6, <2>7, <3>1
      <4> QED BY <2>3, <2>5, <3>1, <4>1
    <3>2. CASE k \notin 1..Len(base) /\ l \notin 1..Len(base)
      BY <2>5, <3>2
    <3>3. ASSUME NEW j \in DOMAIN old, j \notin 1..Len(base) PROVE old[j].client = c
      <4>1. j = Len(base) + 1
        BY <2>5, <3>3
      <4> QED BY <2>2, <2>4, <4>1
    <3> QED BY <2>6, <2>7, <3>1, <3>2, <3>3
  <2>8. ASSUME NEW k \in DOMAIN old
        PROVE  Follows(old[k].stamps, all[old[k].client])
    <3>1. CASE k \in 1..Len(base)
      <4>1. all[old[k].client] = record.allowed[old[k].client]
        BY <1>3, <2>6, <3>1
      <4> QED BY <1>0, <2>6, <3>1, <4>1
    <3>2. CASE k = Len(base) + 1
      <4>1. old[k].client = c /\ old[k].stamps = << >>
        BY <2>2, <2>4, <3>2
      <4>2. record.allowed[c] = << >>
        BY <1>0, <1>5 DEF BucketOf
      <4>3. all[c] = << >>
        BY <1>3, <4>1, <4>2
      <4> QED BY <4>1, <4>3, NothingAllowed
    <3> QED BY <2>5, <3>1, <3>2
  <2>9. Len(base) + 1 \in DOMAIN old /\ old[Len(base) + 1].client = c
    BY <2>2, <2>4, <2>5
  <2>10. BucketsOf(old, all)
    BY <1>1, <1>2, <2>4, <2>5, <2>7, <2>8 DEF BucketsOf
  <2> QED BY <2>9, <2>10 DEF old, all
<1> QED BY <1>4, <1>5

(* One bucket is replaced, and with it what its client was allowed.        *)
LEMMA BucketStep ==
    ASSUME NEW old, NEW all, BucketsOf(old, all), NEW mine \in DOMAIN old, NEW c \in Clients,
           old[mine].client = c, NEW stamps \in Seq(Nat), NEW more \in Seq(Nat),
           Follows(stamps, more), WithinLimit(more)
    PROVE  BucketsOf([old EXCEPT ![mine] = [client |-> c, stamps |-> stamps]], [all EXCEPT ![c] = more])
<1> DEFINE bucket == [client |-> c, stamps |-> stamps]
           new == [old EXCEPT ![mine] = bucket]
           next == [all EXCEPT ![c] = more]
<1>0. /\ old \in Seq(Bucket) /\ Len(old) <= MaxKeys /\ all \in [Clients -> Seq(Nat)]
      /\ Len(old) \in Nat /\ DOMAIN old = 1..Len(old) /\ \A k \in 1..Len(old) : old[k] \in Bucket
      /\ \A k, l \in DOMAIN old : old[k].client = old[l].client => k = l
      /\ \A d \in Clients : (\A k \in DOMAIN old : old[k].client # d) => all[d] = << >>
      /\ \A k \in DOMAIN old : Follows(old[k].stamps, all[old[k].client])
      /\ \A d \in Clients : WithinLimit(all[d])
  BY ElementOfSeq DEF BucketsOf
<1>1. bucket \in Bucket /\ bucket.client = c /\ bucket.stamps = stamps
  BY DEF Bucket
<1> HIDE DEF bucket
<1>2. /\ new \in Seq(Bucket) /\ Len(new) = Len(old) /\ DOMAIN new = DOMAIN old
      /\ new[mine] = bucket /\ \A k \in DOMAIN old : k # mine => new[k] = old[k]
  <2>1. new \in [1..Len(old) -> Bucket]
    BY <1>0, <1>1
  <2> QED BY <1>0, <2>1, ExceptSeq, <1>1
<1>3. next \in [Clients -> Seq(Nat)] /\ next[c] = more /\ \A d \in Clients : d # c => next[d] = all[d]
  BY <1>0
<1> HIDE DEF new, next
<1>4. \A k \in DOMAIN old : new[k].client = old[k].client
  BY <1>1, <1>2
<1>5. \A k, l \in DOMAIN new : new[k].client = new[l].client => k = l
  BY <1>0, <1>2, <1>4
<1>6. ASSUME NEW d \in Clients, \A k \in DOMAIN new : new[k].client # d
      PROVE  next[d] = << >>
  <2>1. d # c
    BY <1>1, <1>2, <1>6
  <2>2. \A k \in DOMAIN old : old[k].client # d
    BY <1>2, <1>4, <1>6
  <2> QED BY <1>0, <1>3, <2>1, <2>2
<1>7. ASSUME NEW k \in DOMAIN new PROVE Follows(new[k].stamps, next[new[k].client])
  <2>1. CASE k = mine
    BY <1>1, <1>2, <1>3, <2>1
  <2>2. CASE k # mine
    <3>1. old[k].client # c /\ old[k].client \in Clients
      BY <1>0, <1>2, <2>2 DEF Bucket
    <3> QED BY <1>0, <1>2, <1>3, <1>4, <2>2, <3>1
  <2> QED BY <2>1, <2>2
<1>8. \A d \in Clients : WithinLimit(next[d])
  BY <1>0, <1>3
<1>9. BucketsOf(new, next)
  BY <1>0, <1>2, <1>3, <1>5, <1>6, <1>7, <1>8 DEF BucketsOf
<1> QED BY <1>9 DEF new, next, bucket

(* A request: the client's bucket is pruned, and the request is allowed or *)
(* not.                                                                    *)
LEMMA RateAllowKeeps ==
    ASSUME ChainSound, RateSound, record \in HealthRecord, NEW c \in Clients, RateAllow(c)
    PROVE  RateSound' /\ record' \in HealthRecord /\ UNCHANGED <<part, chain, sync, pass, cache, reports, shown>>
           /\ record'.success = record.success /\ record'.failed = record.failed
<1> DEFINE old == WithBucket(c)
           all == Remembered(old)
           pruned == [k \in DOMAIN old |-> IF old[k].client = c THEN [old[k] EXCEPT !.stamps = Kept(@)] ELSE old[k]]
           mine == CHOOSE k \in DOMAIN old : old[k].client = c
           allowed == Len(pruned[mine].stamps) < RateLimit
           more == [d \in Clients |-> IF \A k \in DOMAIN old : old[k].client # d THEN << >>
                                      ELSE IF d = c /\ allowed THEN Append(record.allowed[d], Now)
                                      ELSE record.allowed[d]]
<1>1. /\ buckets' = IF allowed THEN [pruned EXCEPT ![mine].stamps = Append(@, Now)] ELSE pruned
      /\ record' = [record EXCEPT !.allowed = more]
      /\ UNCHANGED <<part, chain, sync, pass, cache, reports, shown>>
  BY DEF RateAllow
<1>2. BucketsOf(old, all) /\ \E k \in DOMAIN old : old[k].client = c
  BY WithBucketSound
<1>3. all \in [Clients -> Seq(Nat)] /\ record.allowed \in [Clients -> Seq(Nat)]
  BY <1>2, RecordNumbers DEF BucketsOf
<1>4. mine \in DOMAIN old /\ old[mine].client = c
  BY <1>2
<1>5. /\ \A k \in DOMAIN old : (old[k].client = c) = (k = mine)
      /\ old \in Seq(Bucket) /\ DOMAIN old = 1..Len(old) /\ \A k \in DOMAIN old : old[k] \in Bucket
      /\ Follows(old[mine].stamps, all[c])
      /\ WithinLimit(all[c])
  BY <1>2, <1>4, ElementOfSeq DEF BucketsOf
<1>6. more = IF allowed THEN [all EXCEPT ![c] = Append(all[c], Now)] ELSE [all EXCEPT ![c] = all[c]]
  <2>1. \A d \in Clients : d # c => more[d] = all[d]
    BY DEF Remembered
  <2>2. more[c] = IF allowed THEN Append(all[c], Now) ELSE all[c]
    <3>1. ~ \A k \in DOMAIN old : old[k].client # c
      BY <1>2
    <3>2. all[c] = record.allowed[c]
      BY <3>1 DEF Remembered
    <3>3. more[c] = IF allowed THEN Append(record.allowed[c], Now) ELSE record.allowed[c]
      BY <3>1
    <3> QED BY <3>2, <3>3
  <2>3. DOMAIN more = Clients /\ more = [d \in Clients |-> more[d]]
    OBVIOUS
  <2> HIDE DEF more, all, allowed
  <2> QED BY <1>3, <2>1, <2>2, <2>3
<1> DEFINE kept == Kept(old[mine].stamps)
<1>7. old[mine].stamps \in Seq(Nat) /\ old[mine] \in Bucket /\ all[c] \in Seq(Nat)
  BY <1>3, <1>4, <1>5 DEF Bucket
<1>8. kept \in Seq(Nat) /\ Follows(kept, all[c])
  BY <1>5, <1>7, KeptFollows
<1> HIDE DEF kept
<1>9. pruned = [old EXCEPT ![mine] = [client |-> c, stamps |-> kept]]
  <2>1. [old[mine] EXCEPT !.stamps = Kept(@)] = [client |-> c, stamps |-> kept]
    BY <1>4, <1>7 DEF Bucket, kept
  <2>2. old = [k \in DOMAIN old |-> old[k]]
    BY <1>5
  <2> HIDE DEF old, mine
  <2> QED BY <1>4, <1>5, <2>1, <2>2
<1> HIDE DEF old, all, mine, more
<1>10. pruned[mine].stamps = kept /\ pruned[mine] = [client |-> c, stamps |-> kept]
  BY <1>4, <1>9
<1>11. allowed = (Len(kept) < RateLimit)
  BY <1>10
<1>12. [pruned EXCEPT ![mine].stamps = Append(@, Now)] = [old EXCEPT ![mine] = [client |-> c, stamps |-> Append(kept, Now)]]
  <2> DEFINE bucket == [client |-> c, stamps |-> kept]
             next == [client |-> c, stamps |-> Append(kept, Now)]
  <2>0. pruned[mine] = bucket /\ bucket.stamps = kept
    BY <1>10
  <2>1. [pruned[mine] EXCEPT !.stamps = Append(@, Now)] = next
    <3>1. [bucket EXCEPT !.stamps = Append(@, Now)] = next
      OBVIOUS
    <3> HIDE DEF pruned, mine, bucket, next
    <3> QED BY <2>0, <3>1
  <2> HIDE DEF next, bucket
  <2>2. pruned = [old EXCEPT ![mine] = bucket]
    BY <1>9 DEF bucket
  <2> HIDE DEF pruned
  <2>3. [pruned EXCEPT ![mine] = next] = [old EXCEPT ![mine] = next]
    BY <1>4, <2>2
  <2>4. [pruned EXCEPT ![mine].stamps = Append(@, Now)] = [pruned EXCEPT ![mine] = next]
    BY <2>1
  <2> QED BY <2>3, <2>4 DEF next
<1> HIDE DEF pruned, allowed
<1>13. BucketsOf(buckets', more)
  <2>1. CASE allowed
    <3> DEFINE stamps == Append(kept, Now)
               next == Append(all[c], Now)
    <3>1. stamps \in Seq(Nat) /\ next \in Seq(Nat) /\ Follows(stamps, next) /\ WithinLimit(next)
      BY <1>5, <1>7, <1>8, <1>11, <2>1, AllowedWithinLimit
    <3>2. buckets' = [old EXCEPT ![mine] = [client |-> c, stamps |-> stamps]] /\ more = [all EXCEPT ![c] = next]
      BY <1>1, <1>6, <1>12, <2>1
    <3> HIDE DEF stamps, next
    <3> QED BY <1>2, <1>4, <3>1, <3>2, BucketStep
  <2>2. CASE ~allowed
    <3>1. buckets' = [old EXCEPT ![mine] = [client |-> c, stamps |-> kept]] /\ more = [all EXCEPT ![c] = all[c]]
      BY <1>1, <1>6, <1>9, <2>2
    <3> QED BY <1>2, <1>4, <1>5, <1>7, <1>8, <3>1, BucketStep
  <2> QED BY <2>1, <2>2
<1>14. more \in [Clients -> Seq(Nat)]
  BY <1>13 DEF BucketsOf
<1>15. /\ record' \in HealthRecord /\ record'.allowed = more
       /\ record'.success = record.success /\ record'.failed = record.failed
  <2> DEFINE A == [Clients -> Seq(Nat)]
  <2>1. record \in RecordOf(A) /\ more \in A
    BY <1>14 DEF HealthRecord
  <2> HIDE DEF A
  <2>2. /\ record' \in RecordOf(A) /\ record'.allowed = more
        /\ record'.success = record.success /\ record'.failed = record.failed
    BY <1>1, <2>1 DEF RecordOf
  <2> QED BY <2>2 DEF HealthRecord, A
<1>16. RateSound'
  <2>1. BucketsOf(buckets', record'.allowed)
    BY <1>13, <1>15
  <2>2. Now' = Now
    BY <1>1 DEF Now
  <2> QED BY <2>1, <2>2 DEF RateSound, BucketsOf, Follows, WithinLimit, Expired
<1> QED BY <1>1, <1>15, <1>16

LEMMA RateKept ==
    ASSUME ChainSound, RateSound, Now' \in Nat, Now' >= Now, UNCHANGED buckets, record'.allowed = record.allowed
    PROVE  RateSound'
<1>1. Now \in Nat /\ RateWindow \in Nat
  BY ChainFacts, HealthBounds
<1>2. /\ buckets \in Seq(Bucket) /\ Len(buckets) <= MaxKeys /\ record.allowed \in [Clients -> Seq(Nat)]
      /\ \A k, l \in DOMAIN buckets : buckets[k].client = buckets[l].client => k = l
      /\ \A d \in Clients : (\A k \in DOMAIN buckets : buckets[k].client # d) => record.allowed[d] = << >>
      /\ \A k \in DOMAIN buckets : Follows(buckets[k].stamps, record.allowed[buckets[k].client])
      /\ \A d \in Clients : WithinLimit(record.allowed[d])
      /\ \A k \in DOMAIN buckets : buckets[k] \in Bucket
  BY ElementOfSeq DEF RateSound, BucketsOf
<1>4. ASSUME NEW k \in DOMAIN buckets
      PROVE  Follows(buckets[k].stamps, record.allowed[buckets[k].client])'
  <2> DEFINE stamps == buckets[k].stamps
             all == record.allowed[buckets[k].client]
  <2>1. stamps \in Seq(Nat) /\ all \in Seq(Nat) /\ Follows(stamps, all) /\ stamps' = stamps /\ all' = all
    BY <1>2 DEF Bucket
  <2> HIDE DEF stamps, all
  <2>2. Follows(stamps, all)'
    BY <1>1, <2>1, ElementOfSeq DEF Follows, Expired
  <2> QED BY <2>2 DEF stamps, all
<1>5. \A d \in Clients : WithinLimit(record.allowed[d])'
  BY <1>2 DEF WithinLimit
<1> QED BY <1>2, <1>4, <1>5 DEF RateSound, BucketsOf

HealthIInv == ChainSound /\ PassesSound /\ ReadsSound /\ RateSound

LEMMA HealthStarts ==
    ASSUME HealthInit
    PROVE  HealthIInv
<1> DEFINE first == [head |-> DeployBlock + 1, balance |-> 2]
<1>1. /\ part \in Parts /\ chain = <<first>> /\ sync = [block |-> 0, at |-> 0, error |-> FALSE]
      /\ pass = NoPass /\ cache = NoCaches /\ reports = [r \in Routes |-> NotBuilding] /\ buckets = << >>
  BY DEF HealthInit
<1>2. first \in Moment /\ first.head = DeployBlock + 1 /\ first.head \in Nat
  BY HealthBounds DEF Moment, Levels
<1> HIDE DEF first
<1>3. chain \in Seq(Moment) /\ Now = 1 /\ chain[1] = first /\ HeadBlock = first.head
  BY <1>1, <1>2 DEF Now, HeadBlock
<1>4. ChainSound
  BY <1>1, <1>2, <1>3, HealthBounds DEF ChainSound
<1>5. /\ record \in HealthRecord /\ record.success = 0 /\ ~record.failed
      /\ record.allowed = [c \in Clients |-> << >>]
  <2> DEFINE A == [Clients -> Seq(Nat)]
             allowed == [c \in Clients |-> << >>]
  <2>1. allowed \in A
    BY NothingAllowed
  <2>2. record = [success |-> 0, failed |-> FALSE, allowed |-> allowed,
                  reports |-> 0, passes |-> 0, restarts |-> 0, failures |-> 0]
    BY DEF HealthInit
  <2> HIDE DEF A, allowed
  <2>3. record \in RecordOf(A) /\ record.success = 0 /\ ~record.failed /\ record.allowed = allowed
    BY <2>1, <2>2 DEF RecordOf
  <2> QED BY <2>3 DEF HealthRecord, A, allowed
<1>6. PassesSound
  BY <1>1, <1>2, <1>3, <1>5 DEF PassesSound, NoPass
<1>7. ReadsSound
  <2>1. NoEntry \in HeadEntry /\ NoBalance \in BalanceEntry
    BY DEF NoEntry, NoBalance, HeadEntry, BalanceEntry, Levels
  <2>2. CacheSound
    BY <1>1, <1>2, <1>3, <2>1 DEF CacheSound, NoCaches, NoEntry, NoBalance
  <2> QED BY <1>1, <1>4, <2>2, NotBuildingSound DEF ReadsSound
<1>8. RateSound
  BY <1>1, <1>5, NothingAllowed, HealthBounds DEF RateSound, BucketsOf
<1> QED BY <1>4, <1>6, <1>7, <1>8 DEF HealthIInv

(* The steps of a report touch no pass and no bucket.                      *)
LEMMA ReportsKeep ==
    ASSUME HealthIInv, NEW r \in Routes,
           \/ StartReport(r) \/ HeadServed(r) \/ HeadArrives(r) \/ HeadFails(r) \/ BalanceArrives(r)
           \/ BuildReport(r) \/ ReportFails(r)
    PROVE  HealthIInv'
<1>1. UNCHANGED <<part, chain, sync, pass, buckets>>
  BY DEF StartReport, HeadServed, HeadArrives, HeadFails, BalanceArrives, BuildReport, ReportFails
<1>2. ChainSound /\ PassesSound /\ ReadsSound /\ RateSound /\ record \in HealthRecord
  BY DEF HealthIInv, PassesSound
<1>3. record.failures + 1 \in Nat /\ record.reports + 1 \in Nat
  BY <1>2, RecordNumbers
<1>4. ReadsSound'
  BY <1>2, StartReportKeeps, ReadsKeep
<1>5. \E n \in Nat : record' \in {record, [record EXCEPT !.failures = n], [record EXCEPT !.reports = n]}
  <2>1. CASE record' = record
    BY <2>1
  <2>2. CASE record' = [record EXCEPT !.failures = record.failures + 1]
    BY <1>3, <2>2
  <2>3. CASE record' = [record EXCEPT !.reports = record.reports + 1]
    BY <1>3, <2>3
  <2>4. CASE StartReport(r)
    BY <2>3, <2>4 DEF StartReport
  <2>5. CASE HeadServed(r) \/ HeadArrives(r) \/ HeadFails(r)
    BY <2>1, <2>2, <2>5 DEF HeadServed, HeadArrives, HeadFails, FailedOnce
  <2>6. CASE BalanceArrives(r)
    BY <2>1, <2>2, <2>6 DEF BalanceArrives, FailedOnce
  <2>7. CASE BuildReport(r) \/ ReportFails(r)
    BY <2>1, <2>2, <2>7 DEF BuildReport, ReportFails, FailedOnce
  <2> QED BY <2>4, <2>5, <2>6, <2>7
<1>6. /\ record' \in HealthRecord /\ record'.allowed = record.allowed
      /\ record'.success = record.success /\ record'.failed = record.failed
  BY <1>2, <1>5, RecordCounts
<1>7. ChainSound' /\ Now' = Now /\ HeadBlock' = HeadBlock
  BY <1>1, <1>2, SameChain
<1>8. PassesSound'
  BY <1>1, <1>2, <1>6, <1>7 DEF PassesSound
<1>9. RateSound'
  <2>1. Now' \in Nat /\ Now' >= Now
    BY <1>2, <1>7, ChainFacts
  <2> QED BY <1>1, <1>2, <1>6, <2>1, RateKept
<1> QED BY <1>4, <1>7, <1>8, <1>9 DEF HealthIInv

LEMMA HealthStep ==
    ASSUME HealthIInv, [HealthNext]_healthVars
    PROVE  HealthIInv'
<1>1. ChainSound /\ PassesSound /\ ReadsSound /\ RateSound /\ record \in HealthRecord /\ Now \in Nat
  BY ChainFacts DEF HealthIInv, PassesSound
<1>2. CASE TimeGoesOn
  <2>1. ChainSound' /\ PassesSound' /\ ReadsSound' /\ Now' = Now + 1
    BY <1>1, <1>2, TimeKeeps
  <2>2. UNCHANGED <<buckets, record>> /\ Now' \in Nat /\ Now' >= Now
    BY <1>1, <1>2, <2>1 DEF TimeGoesOn
  <2>3. record'.allowed = record.allowed
    BY <2>2
  <2> QED BY <1>1, <2>1, <2>2, <2>3, RateKept DEF HealthIInv
<1>3. CASE PassStarts \/ PassSucceeds \/ PassFails \/ Restart
  <2>1. /\ PassesSound' /\ ReadsSound' /\ UNCHANGED <<part, chain, buckets>>
        /\ record'.allowed = record.allowed
    BY <1>1, <1>3, PassesKeep
  <2>2. ChainSound' /\ Now' = Now
    BY <1>1, <2>1, SameChain
  <2>3. RateSound'
    BY <1>1, <2>1, <2>2, RateKept
  <2> QED BY <2>1, <2>2, <2>3 DEF HealthIInv
<1>4. CASE \E r \in Routes : StartReport(r) \/ HeadServed(r) \/ HeadArrives(r) \/ HeadFails(r)
                             \/ BalanceArrives(r) \/ BuildReport(r) \/ ReportFails(r)
  BY <1>4, ReportsKeep
<1>5. CASE \E c \in Clients : RateAllow(c)
  <2> PICK c \in Clients : RateAllow(c)
    BY <1>5
  <2>1. /\ RateSound' /\ record' \in HealthRecord /\ UNCHANGED <<part, chain, sync, pass, cache, reports>>
        /\ record'.success = record.success /\ record'.failed = record.failed
    BY <1>1, RateAllowKeeps
  <2>2. ChainSound' /\ Now' = Now /\ HeadBlock' = HeadBlock
    BY <1>1, <2>1, SameChain
  <2>3. PassesSound'
    BY <1>1, <2>1, <2>2 DEF PassesSound
  <2>4. ReadsSound'
    BY <1>1, <2>1, <2>2 DEF ReadsSound, CacheSound, ReportSound, Before
  <2> QED BY <2>1, <2>2, <2>3, <2>4 DEF HealthIInv
<1>6. CASE UNCHANGED healthVars
  <2>1. UNCHANGED <<part, chain, sync, pass, cache, reports, buckets, record>>
    BY <1>6 DEF healthVars
  <2>2. ChainSound' /\ Now' = Now /\ HeadBlock' = HeadBlock /\ record'.allowed = record.allowed
    BY <1>1, <2>1, SameChain
  <2>3. PassesSound' /\ ReadsSound'
    BY <1>1, <2>1, <2>2 DEF PassesSound, ReadsSound, CacheSound, ReportSound, Before
  <2>4. RateSound'
    BY <1>1, <2>1, <2>2, RateKept
  <2> QED BY <2>2, <2>3, <2>4 DEF HealthIInv
<1> QED BY <1>2, <1>3, <1>4, <1>5, <1>6 DEF HealthNext

LEMMA HealthInvFollows ==
    ASSUME HealthIInv
    PROVE  HealthInv
<1>1. ChainSound /\ PassesSound /\ ReadsSound /\ RateSound
  BY DEF HealthIInv
<1>2. Now \in 1..MaxNow /\ Now \in Nat /\ HeadBlock \in Nat
  BY <1>1, ChainFacts DEF ChainSound
<1>3. /\ sync.at \in 0..Now /\ sync.block \in 0..HeadBlock
  BY <1>1, <1>2 DEF PassesSound
<1>4. /\ cache.head.at \in 0..Now /\ cache.head.block \in 0..HeadBlock /\ cache.balance.level \in Levels
  BY <1>1, <1>2 DEF ReadsSound, CacheSound, HeadEntry, BalanceEntry
<1>5. ASSUME NEW r \in Routes
      PROVE  reports[r].headPc \in {"asked", "served", "have"} /\ reports[r].since \in 0..Now
  BY <1>1, <1>2, ReportFacts DEF BuiltReport, ReportSound
<1>6. Len(buckets) <= MaxKeys
  BY <1>1 DEF RateSound, BucketsOf
<1>7. HealthTypeOK
  BY <1>2, <1>3, <1>4, <1>5, <1>6 DEF HealthTypeOK
<1>8. RateBounded
  BY <1>1 DEF RateSound, BucketsOf, WithinLimit, RateBounded
<1> QED BY <1>1, <1>7, <1>8, StallFollows DEF HealthInv

LEMMA HealthInvariance == HealthSpec => []HealthIInv
<1>1. HealthInit => HealthIInv
  BY HealthStarts
<1>2. HealthIInv /\ [HealthNext]_healthVars => HealthIInv'
  BY HealthStep
<1> QED BY <1>1, <1>2, PTL DEF HealthSpec

(* The record of the indexer, its caches and the reports built from them   *)
(* are sound; a failed or stalled pass shows as an error, over restarts    *)
(* between the writes of a pass (indexer.ts:84); and no client is allowed  *)
(* more requests in any window than the limit, over the eviction of other  *)
(* buckets (server.ts rateAllow).                                          *)
THEOREM StallsShowAndRatesHold == HealthSpec => []HealthInv
<1>1. HealthIInv => HealthInv
  BY HealthInvFollows
<1> QED BY <1>1, HealthInvariance, PTL

(* A report of "ok", and the scrape that says the same, is at most LagOk   *)
(* blocks behind the head of a few seconds ago, whatever the caches held   *)
(* and however the reads of two routes overlapped (health.ts).             *)
THEOREM OkReportsAreCurrent == HealthSpec => []OkIsCurrent
<1>1. HealthIInv => OkIsCurrent
  BY OkFollows DEF HealthIInv
<1> QED BY <1>1, HealthInvariance, PTL

-----------------------------------------------------------------------------
(* The verification page.                                                  *)

Accounts == Wallets \cup {NoWallet}
PageState == [wallet : Accounts, identity : Owner, stage : Stages, available : BOOLEAN,
              token : Owner, document : Owner, face : Owner, match : Owner, live : BOOLEAN,
              status : [of : Owner, is : {"none", "pending", "decided"}], reading : BOOLEAN]
SavedSession ==
    {s \in [stage : Stages \cup {"none"}, document : Owner, face : Owner, match : Owner,
           live : BOOLEAN, expired : BOOLEAN] : s.stage = "none" => s = NoSession}
CreateJob == [pc : {"idle", "connect", "sign", "check"}, wallet : Accounts, knew : Accounts,
              available : BOOLEAN, identity : Owner]
SubmitJob == [pc : {"idle", "connect", "post"}, identity : Owner, wallet : Accounts,
              via : {"sumsub", "local"}]
PageJobs == [config : BOOLEAN, accounts : BOOLEAN, ref : Owner, inits : SUBSET Inits,
             renewals : SUBSET Ids, checks : SUBSET Ids, create : CreateJob, uploads : SUBSET Ids,
             capture : Owner, loops : 0..2, stop : BOOLEAN, submit : SubmitJob]
ServerRow == [status : {"none", "pending", "decided"}, type : {"none", "KYCVerified", "Accredited"},
              fresh : Accounts]
PageHistory == [late : BOOLEAN, prompt : BOOLEAN]

OwnPage(u) == {u.document, u.face, u.match, u.token, u.status.of} \subseteq {Nothing, u.identity}
OwnSession(s, c) == c # Nothing => {s.document, s.face, s.match} \subseteq {Nothing, c}
Clean(h) == ~h.late /\ ~h.prompt

PageOk(u, s, h) ==
    /\ u \in PageState /\ s \in SavedSession /\ h \in PageHistory
    /\ Clean(h) => OwnPage(u)
    /\ Clean(h) => OwnSession(s, u.identity)

(* The page knows no other account than the one selected.                  *)
WalletOk(u, a, prompt) ==
    /\ a \in Accounts /\ u.wallet \in {NoWallet, a}
    /\ ~prompt /\ u.wallet # NoWallet /\ u.identity # Nothing => u.identity = IdentityOf[u.wallet]

InitsOk(inits, ref, prompt) ==
    /\ \A i, k \in inits : ~i.aborted /\ ~k.aborted => i = k
    /\ \A i \in inits : ~i.aborted => i.for = ref
    /\ \A i \in inits : ~prompt /\ i.fresh # NoWallet => IdentityOf[i.fresh] = i.for

(* An identity is created for the account that is selected.                *)
CreateOk(c, a, prompt) ==
    /\ c.pc \in {"sign", "check"} => c.wallet \in Wallets
    /\ c.pc = "check" => c.identity \in Ids
    /\ ~prompt /\ c.pc # "idle" => c.knew \in {NoWallet, a}
    /\ ~prompt /\ c.pc \in {"sign", "check"} => c.wallet = a
    /\ ~prompt /\ c.pc = "check" => c.identity = IdentityOf[a]

SubmitOk(s, prompt) ==
    /\ s.pc # "idle" => s.identity \in Ids
    /\ s.pc = "post" => s.wallet \in Wallets
    /\ ~prompt /\ s.pc = "post" => IdentityOf[s.wallet] = s.identity

JobsOk(j, a, prompt) ==
    /\ j \in PageJobs
    /\ InitsOk(j.inits, j.ref, prompt)
    /\ CreateOk(j.create, a, prompt)
    /\ SubmitOk(j.submit, prompt)

StoreOk(prompt) ==
    /\ identities \in [Wallets -> Owner]
    /\ legacy.identity # NoIdentity /\ legacy.wallet # NoWallet =>
           legacy.wallet \in Wallets /\ legacy.identity = IdentityOf[legacy.wallet]
    /\ ~prompt => \A w \in Wallets : identities[w] \in {NoIdentity, IdentityOf[w]}

RowsOk(server, prompt) ==
    /\ server \in [Ids -> ServerRow]
    /\ \A c \in Ids : ~prompt /\ server[c].fresh # NoWallet => IdentityOf[server[c].fresh] = c

KYCPageIInv ==
    /\ PageOk(ui, session, seen)
    /\ WalletOk(ui, account, seen.prompt)
    /\ StoreOk(seen.prompt)
    /\ JobsOk(job, account, seen.prompt)
    /\ RowsOk(request, seen.prompt)

LEMMA WalletIds ==
    /\ NoWallet \notin Wallets /\ NoIdentity \notin Ids /\ Owner = Ids \cup {Nothing} /\ Nothing = NoIdentity
    /\ \A w \in Wallets : IdentityOf[w] \in Ids
    /\ \A c \in Owner : c # Nothing => c \in Ids
BY IdentityStoreAssumption DEF Ids, Owner, Nothing

LEMMA MigratedOk ==
    ASSUME NEW prompt \in BOOLEAN, StoreOk(prompt)
    PROVE  /\ Migrated \in [Wallets -> Owner]
           /\ ~prompt => \A w \in Wallets : Migrated[w] \in {NoIdentity, IdentityOf[w]}
           /\ \A w \in Accounts : /\ StoredFor(w) \in Owner
                                  /\ ~prompt /\ StoredFor(w) # Nothing => StoredFor(w) = IdentityOf[w]
<1>1. CASE /\ legacy.identity # NoIdentity /\ legacy.wallet # NoWallet
           /\ identities[legacy.wallet] = NoIdentity
  <2>1. legacy.wallet \in Wallets /\ legacy.identity = IdentityOf[legacy.wallet] /\ legacy.identity \in Owner
    BY <1>1, WalletIds DEF StoreOk
  <2>2. Migrated = [identities EXCEPT ![legacy.wallet] = legacy.identity]
    BY <1>1 DEF Migrated
  <2>3. /\ Migrated \in [Wallets -> Owner]
        /\ ~prompt => \A w \in Wallets : Migrated[w] \in {NoIdentity, IdentityOf[w]}
    BY <2>1, <2>2 DEF StoreOk
  <2> QED BY <2>3, WalletIds DEF StoredFor, Accounts
<1>2. CASE ~ (/\ legacy.identity # NoIdentity /\ legacy.wallet # NoWallet
              /\ identities[legacy.wallet] = NoIdentity)
  <2>1. Migrated = identities
    BY <1>2 DEF Migrated
  <2> QED BY <2>1, WalletIds DEF StoredFor, Accounts, StoreOk
<1> QED BY <1>1, <1>2

LEMMA LoadedOk ==
    ASSUME NEW prompt \in BOOLEAN, StoreOk(prompt), NEW w \in Accounts, LoadIdentityForWallet(w)
    PROVE  StoreOk(prompt)'
<1>1. identities' = Migrated /\ legacy' = NoLegacy
  BY DEF LoadIdentityForWallet
<1>2. /\ Migrated \in [Wallets -> Owner]
      /\ ~prompt => \A v \in Wallets : Migrated[v] \in {NoIdentity, IdentityOf[v]}
  BY MigratedOk
<1> QED BY <1>1, <1>2 DEF StoreOk, NoLegacy

LEMMA NoSessionSaved == NoSession \in SavedSession /\ \A c \in Owner : OwnSession(NoSession, c)
BY WalletIds DEF NoSession, SavedSession, OwnSession, Owner, Nothing

(* What the effect saves is what the page shows.                           *)
LEMMA Rendered ==
    ASSUME NEW u \in PageState, NEW stored \in SavedSession, NEW h \in PageHistory,
           Clean(h) => OwnPage(u), Clean(h) => OwnSession(stored, u.identity), Render(u, stored)
    PROVE  ui' = u /\ PageOk(ui', session', h)
<1>1. ui' = u /\ session' \in {Snapshot(u), stored}
  BY DEF Render
<1>2. Snapshot(u) \in SavedSession
  <2>1. u.stage \in Stages /\ u.stage # "none"
    BY DEF PageState, Stages
  <2> QED BY <2>1 DEF Snapshot, SavedSession, PageState
<1>3. Clean(h) => OwnSession(Snapshot(u), u.identity)
  BY DEF OwnPage, OwnSession, Snapshot
<1> QED BY <1>1, <1>2, <1>3 DEF PageOk

(* A step that neither changes the account nor what is stored.             *)
LEMMA ShownStep ==
    ASSUME KYCPageIInv, UNCHANGED <<account, storeVars>>,
           NEW u \in PageState, u.wallet = ui.wallet, u.identity = ui.identity,
           NEW stored \in {session, NoSession}, Render(u, stored),
           seen' \in PageHistory, seen.late => seen'.late, seen'.prompt = seen.prompt,
           Clean(seen') => OwnPage(u),
           JobsOk(job', account, seen.prompt), RowsOk(request', seen.prompt)
    PROVE  KYCPageIInv'
<1>1. PageOk(ui, session, seen) /\ WalletOk(ui, account, seen.prompt) /\ StoreOk(seen.prompt)
  BY DEF KYCPageIInv
<1>2. stored \in SavedSession /\ u.identity \in Owner
  BY <1>1, NoSessionSaved DEF PageOk, PageState
<1>3. Clean(seen') => OwnSession(stored, u.identity)
  <2>1. Clean(seen') => Clean(seen)
    BY DEF Clean
  <2> QED BY <1>1, <1>2, <2>1, NoSessionSaved DEF PageOk
<1>4. ui' = u /\ PageOk(ui', session', seen')
  BY <1>2, <1>3, Rendered
<1>5. WalletOk(u, account, seen.prompt)
  BY <1>1 DEF WalletOk
<1>6. StoreOk(seen.prompt)'
  BY <1>1 DEF StoreOk, storeVars
<1>7. /\ PageOk(ui, session, seen)' /\ WalletOk(ui, account, seen.prompt)' /\ StoreOk(seen.prompt)'
      /\ JobsOk(job, account, seen.prompt)' /\ RowsOk(request, seen.prompt)'
  BY <1>4, <1>5, <1>6
<1> QED BY <1>7 DEF KYCPageIInv

(* A step of which the page does not show anything.                        *)
LEMMA HiddenStep ==
    ASSUME KYCPageIInv, UNCHANGED <<account, ui, session, storeVars, seen>>,
           JobsOk(job', account, seen.prompt), RowsOk(request', seen.prompt)
    PROVE  KYCPageIInv'
<1>1. PageOk(ui, session, seen) /\ WalletOk(ui, account, seen.prompt) /\ StoreOk(seen.prompt)
  BY DEF KYCPageIInv
<1>2. /\ PageOk(ui, session, seen)' /\ WalletOk(ui, account, seen.prompt)' /\ StoreOk(seen.prompt)'
      /\ JobsOk(job, account, seen.prompt)' /\ RowsOk(request, seen.prompt)'
  BY <1>1 DEF StoreOk, storeVars
<1> QED BY <1>2 DEF KYCPageIInv

(* The call of init for c aborts any other.                                *)
LEMMA InitStarts ==
    ASSUME NEW prompt \in BOOLEAN, NEW a, NEW j, JobsOk(j, a, prompt), NEW c \in Ids, NEW w \in Accounts,
           ~prompt /\ w # NoWallet => IdentityOf[w] = c
    PROVE  JobsOk(StartSumsubFlowFor(j, c, w), a, prompt)
<1>1. CASE j.ref = c
  BY <1>1 DEF StartSumsubFlowFor
<1>2. CASE j.ref # c
  <2> DEFINE new == [for |-> c, fresh |-> w, aborted |-> FALSE, attempt |-> 1]
             inits == {[i EXCEPT !.aborted = TRUE] : i \in j.inits} \cup {new}
             next == [j EXCEPT !.ref = c, !.inits = inits]
  <2>1. StartSumsubFlowFor(j, c, w) = next
    BY <1>2 DEF StartSumsubFlowFor
  <2>2. new \in Inits /\ new.for = c /\ new.fresh = w /\ ~new.aborted
    BY DEF Inits, Accounts
  <2>3. j.inits \subseteq Inits
    BY DEF JobsOk, PageJobs
  <2>4. ASSUME NEW i \in inits, i # new
        PROVE  /\ i \in Inits /\ i.aborted
               /\ ~prompt /\ i.fresh # NoWallet => IdentityOf[i.fresh] = i.for
    <3>1. PICK k \in j.inits : i = [k EXCEPT !.aborted = TRUE]
      BY <2>4
    <3>2. k \in Inits
      BY <2>3
    <3>3. i \in Inits /\ i.aborted /\ i.fresh = k.fresh /\ i.for = k.for
      BY <3>1, <3>2 DEF Inits
    <3> QED BY <3>3 DEF JobsOk, InitsOk
  <2> HIDE DEF new
  <2>5. inits \subseteq Inits
    BY <2>2, <2>4
  <2>6. InitsOk(inits, c, prompt)
    <3>1. \A i, k \in inits : ~i.aborted /\ ~k.aborted => i = k
      BY <2>4
    <3>2. \A i \in inits : ~i.aborted => i.for = c
      BY <2>2, <2>4
    <3>3. \A i \in inits : ~prompt /\ i.fresh # NoWallet => IdentityOf[i.fresh] = i.for
      BY <2>2, <2>4
    <3> QED BY <3>1, <3>2, <3>3 DEF InitsOk
  <2> HIDE DEF inits
  <2>7. /\ next \in PageJobs /\ next.inits = inits /\ next.ref = c /\ next.create = j.create
        /\ next.submit = j.submit
    BY <2>5 DEF JobsOk, PageJobs, Owner
  <2> HIDE DEF next
  <2> QED BY <2>1, <2>6, <2>7 DEF JobsOk
<1> QED BY <1>1, <1>2

LEMMA CheckAsked ==
    ASSUME NEW prompt \in BOOLEAN, NEW a, NEW j, JobsOk(j, a, prompt), NEW c \in Ids
    PROVE  JobsOk([j EXCEPT !.checks = @ \cup {c}], a, prompt)
<1> DEFINE checks == j.checks \cup {c}
           next == [j EXCEPT !.checks = checks]
<1>1. checks \subseteq Ids
  BY DEF JobsOk, PageJobs
<1> HIDE DEF checks
<1>2. /\ next \in PageJobs /\ next.inits = j.inits /\ next.ref = j.ref /\ next.create = j.create
      /\ next.submit = j.submit
  BY <1>1 DEF JobsOk, PageJobs
<1> HIDE DEF next
<1>3. JobsOk(next, a, prompt)
  BY <1>2 DEF JobsOk
<1> QED BY <1>3 DEF next, checks

LEMMA Reset ==
    ASSUME NEW u \in PageState
    PROVE  /\ ResetPerWalletState(u) \in PageState
           /\ ResetPerWalletState(u).identity = u.identity /\ ResetPerWalletState(u).wallet = u.wallet
           /\ ResetPerWalletState(u).document = Nothing /\ ResetPerWalletState(u).face = Nothing
           /\ ResetPerWalletState(u).match = Nothing /\ ResetPerWalletState(u).token = Nothing
           /\ ResetPerWalletState(u).status.of = Nothing
           /\ ResetPerWalletState(u).available = u.available
<1> DEFINE status == [of |-> Nothing, is |-> "none"]
           mid == ResetButToken(u)
<1>1. status \in [of : Owner, is : {"none", "pending", "decided"}] /\ Nothing \in Owner /\ status.of = Nothing
  BY WalletIds
<1>2. mid = [u EXCEPT !.document = Nothing, !.face = Nothing, !.match = Nothing, !.live = FALSE,
                      !.status = status]
  BY DEF ResetButToken
<1> HIDE DEF status
<1>3. /\ mid \in PageState /\ mid.identity = u.identity /\ mid.wallet = u.wallet
      /\ mid.document = Nothing /\ mid.face = Nothing /\ mid.match = Nothing /\ mid.status = status
      /\ mid.available = u.available
  BY <1>1, <1>2 DEF PageState
<1> HIDE DEF mid
<1>4. ResetPerWalletState(u) = [mid EXCEPT !.token = Nothing]
  BY DEF ResetPerWalletState, mid
<1> QED BY <1>1, <1>3, <1>4 DEF PageState

(* The effect on the wallet: the identity shown is the stored one, and a   *)
(* session is restored for the identity that was shown before only.        *)
LEMMA WalletEffectOk ==
    ASSUME NEW h \in PageHistory, NEW u \in PageState, NEW j, NEW a \in Accounts,
           StoreOk(h.prompt), session \in SavedSession, JobsOk(j, a, h.prompt), u.wallet \in {NoWallet, a},
           Clean(h) => OwnPage(u), Clean(h) => OwnSession(session, u.identity),
           WalletEffect(u, j)
    PROVE  /\ PageOk(ui', session', h) /\ WalletOk(ui', a, h.prompt)
           /\ StoreOk(h.prompt)' /\ JobsOk(job', a, h.prompt)
<1> DEFINE stored == StoredFor(u.wallet)
           other == u.identity # stored
           kept == KeptSession(u)
           clean == IF other THEN ResetPerWalletState(u) ELSE u
           here == [clean EXCEPT !.identity = stored]
           asked == [j EXCEPT !.checks = @ \cup {stored}]
<1>0. u.wallet \in Accounts /\ u.identity \in Owner /\ h.prompt \in BOOLEAN
  BY DEF PageState, PageHistory
<1>1. stored \in Owner /\ (~h.prompt /\ stored # Nothing => stored = IdentityOf[u.wallet])
  BY <1>0, MigratedOk
<1>2. /\ clean \in PageState /\ clean.wallet = u.wallet /\ clean.available = u.available
      /\ other => /\ clean.document = Nothing /\ clean.face = Nothing /\ clean.match = Nothing
                  /\ clean.token = Nothing /\ clean.status.of = Nothing
      /\ ~other => clean = u
  BY Reset
<1>3. /\ kept \in SavedSession
      /\ Clean(h) => OwnSession(kept, stored)
  <2>1. CASE kept = NoSession
    BY <1>1, <2>1, NoSessionSaved
  <2>2. CASE kept = session /\ u.identity = stored
    BY <2>2
  <2> QED BY <2>1, <2>2 DEF KeptSession
<1> HIDE DEF stored, kept, clean
<1>4. /\ here \in PageState /\ here.identity = stored /\ here.wallet = u.wallet
      /\ here.document = clean.document /\ here.face = clean.face /\ here.match = clean.match
      /\ here.token = clean.token /\ here.status = clean.status /\ here.live = clean.live
      /\ here.stage = clean.stage
  BY <1>1, <1>2 DEF PageState
<1>5. Clean(h) => OwnPage(here)
  BY <1>2, <1>4 DEF OwnPage
<1> HIDE DEF here
<1>6. CASE u.wallet = NoWallet
  <2>1. Render(u, session) /\ job' = j /\ UNCHANGED storeVars
    BY <1>6 DEF WalletEffect
  <2>2. ui' = u /\ PageOk(ui', session', h)
    BY <2>1, Rendered
  <2>3. StoreOk(h.prompt)'
    BY <2>1 DEF StoreOk, storeVars
  <2> QED BY <1>6, <2>1, <2>2, <2>3 DEF WalletOk
<1>7. CASE u.wallet # NoWallet /\ stored = Nothing
  <2> DEFINE empty == [clean EXCEPT !.identity = Nothing, !.stage = "identity"]
             left == IF other THEN NoSession ELSE session
  <2>1. LoadIdentityForWallet(u.wallet) /\ Render(empty, left) /\ job' = j
    BY <1>7 DEF WalletEffect, stored, clean
  <2>2. /\ empty \in PageState /\ empty.wallet = u.wallet /\ empty.identity = Nothing
        /\ empty.document = clean.document /\ empty.face = clean.face /\ empty.match = clean.match
        /\ empty.token = clean.token /\ empty.status = clean.status
    <3>1. "identity" \in Stages /\ Nothing \in Owner /\ clean \in PageState
      BY <1>2, WalletIds DEF Stages
    <3> HIDE DEF clean
    <3> QED BY <1>2, <3>1 DEF PageState
  <2>3. Clean(h) => OwnPage(empty)
    BY <1>2, <1>7, <2>2 DEF OwnPage
  <2>4. left \in SavedSession /\ OwnSession(left, empty.identity)
    BY <2>2, NoSessionSaved DEF OwnSession
  <2> HIDE DEF empty, left
  <2>5. ui' = empty /\ PageOk(ui', session', h)
    BY <2>1, <2>2, <2>3, <2>4, Rendered
  <2>6. StoreOk(h.prompt)'
    BY <1>0, <2>1, LoadedOk
  <2> QED BY <1>7, <2>1, <2>2, <2>5, <2>6 DEF WalletOk
<1>8. CASE u.wallet # NoWallet /\ stored # Nothing
  <2>1. stored \in Ids
    BY <1>1, <1>8, WalletIds
  <2>2. JobsOk(asked, a, h.prompt)
    BY <1>0, <2>1, CheckAsked
  <2>3. JobsOk(StartSumsubFlowFor(asked, stored, u.wallet), a, h.prompt)
    BY <1>0, <1>1, <1>8, <2>1, <2>2, InitStarts
  <2> HIDE DEF asked
  <2>4. LoadIdentityForWallet(u.wallet)
    BY <1>8 DEF WalletEffect
  <2>5. StoreOk(h.prompt)'
    BY <1>0, <2>4, LoadedOk
  <2>6. ASSUME NEW v \in PageState, v.wallet = u.wallet, v.identity = stored, Clean(h) => OwnPage(v),
               Render(v, kept)
        PROVE  PageOk(ui', session', h) /\ WalletOk(ui', a, h.prompt)
    <3>1. ui' = v /\ PageOk(ui', session', h)
      BY <1>3, <2>6, Rendered
    <3>2. WalletOk(v, a, h.prompt)
      BY <1>1, <1>8, <2>6 DEF WalletOk
    <3> QED BY <3>1, <3>2
  <2>7. CASE Progress(kept)
    <3> DEFINE document == IF kept.document # Nothing THEN kept.document ELSE here.document
               face == IF kept.face # Nothing THEN kept.face ELSE here.face
               match == IF kept.match # Nothing THEN kept.match ELSE here.match
               live == kept.live \/ here.live
               v == [here EXCEPT !.document = document, !.face = face, !.match = match,
                                 !.live = live, !.stage = kept.stage]
    <3>1. Render(v, kept) /\ job' = asked
      BY <1>8, <2>7 DEF WalletEffect, stored, kept, clean, here, asked
    <3>2. document \in Owner /\ face \in Owner /\ match \in Owner /\ live \in BOOLEAN
      BY <1>3, <1>4 DEF SavedSession, PageState
    <3>3. kept.stage \in Stages
      <4>1. kept # NoSession
        BY <2>7 DEF Progress, NoSession
      <4> QED BY <1>3, <4>1 DEF SavedSession
    <3>4. /\ v \in PageState /\ v.wallet = u.wallet /\ v.identity = stored
          /\ v.document = document /\ v.face = face /\ v.match = match
          /\ v.token = here.token /\ v.status = here.status
      <4> HIDE DEF document, face, match, live
      <4> QED BY <1>4, <3>2, <3>3 DEF PageState
    <3> HIDE DEF v
    <3>5. Clean(h) => OwnPage(v)
      <4> SUFFICES ASSUME Clean(h) PROVE OwnPage(v)
        OBVIOUS
      <4>1. /\ {here.document, here.face, here.match, here.token, here.status.of} \subseteq {Nothing, stored}
            /\ {kept.document, kept.face, kept.match} \subseteq {Nothing, stored}
        BY <1>3, <1>4, <1>5, <1>8 DEF OwnPage, OwnSession
      <4>2. {document, face, match} \subseteq {Nothing, stored}
        BY <4>1
      <4> QED BY <3>4, <4>1, <4>2 DEF OwnPage
    <3> QED BY <2>2, <2>5, <2>6, <3>1, <3>4, <3>5
  <2>8. CASE ~Progress(kept) /\ u.available
    <3>1. Render(here, kept) /\ job' = StartSumsubFlowFor(asked, stored, u.wallet)
      BY <1>8, <2>8 DEF WalletEffect, stored, kept, clean, here, asked, WalletOfRender
    <3> QED BY <1>4, <1>5, <2>3, <2>5, <2>6, <3>1
  <2>9. CASE ~Progress(kept) /\ ~u.available
    <3> DEFINE v == [here EXCEPT !.stage = "document"]
    <3>1. Render(v, kept) /\ job' = asked
      BY <1>8, <2>9 DEF WalletEffect, stored, kept, clean, here, asked
    <3>2. /\ v \in PageState /\ v.wallet = u.wallet /\ v.identity = stored
          /\ v.document = here.document /\ v.face = here.face /\ v.match = here.match
          /\ v.token = here.token /\ v.status = here.status
      BY <1>4 DEF PageState, Stages
    <3> HIDE DEF v
    <3>3. Clean(h) => OwnPage(v)
      BY <1>4, <1>5, <3>2 DEF OwnPage
    <3> QED BY <2>2, <2>5, <2>6, <3>1, <3>2, <3>3
  <2> QED BY <2>7, <2>8, <2>9
<1> QED BY <1>6, <1>7, <1>8

LEMMA PageFacts ==
    ASSUME KYCPageIInv
    PROVE  /\ ui \in PageState /\ session \in SavedSession /\ seen \in PageHistory /\ job \in PageJobs
           /\ account \in Accounts /\ ui.wallet \in {NoWallet, account} /\ seen.prompt \in BOOLEAN
           /\ ui.identity \in Owner /\ (Clean(seen) => OwnPage(ui) /\ OwnSession(session, ui.identity))
           /\ StoreOk(seen.prompt) /\ JobsOk(job, account, seen.prompt) /\ RowsOk(request, seen.prompt)
           /\ job.inits \subseteq Inits /\ job.create \in CreateJob /\ job.submit \in SubmitJob
           /\ job.uploads \subseteq Ids /\ job.checks \subseteq Ids /\ job.renewals \subseteq Ids
           /\ job.capture \in Owner /\ job.loops \in 0..2
<1>1. ui \in PageState /\ seen \in PageHistory /\ job \in PageJobs
  BY DEF KYCPageIInv, PageOk, JobsOk
<1>2. seen.prompt \in BOOLEAN /\ ui.identity \in Owner
  BY <1>1 DEF PageHistory, PageState
<1>3. /\ job.inits \subseteq Inits /\ job.create \in CreateJob /\ job.submit \in SubmitJob
      /\ job.uploads \subseteq Ids /\ job.checks \subseteq Ids /\ job.renewals \subseteq Ids
      /\ job.capture \in Owner /\ job.loops \in 0..2
  BY <1>1 DEF PageJobs
<1> QED BY <1>1, <1>2, <1>3 DEF KYCPageIInv, PageOk, WalletOk

LEMMA LateFacts ==
    ASSUME seen \in PageHistory, NEW c
    PROVE  /\ Late(c) \in PageHistory /\ (seen.late => Late(c).late) /\ Late(c).prompt = seen.prompt
           /\ Clean(Late(c)) => Clean(seen) /\ ui.identity = c
<1> DEFINE late == seen.late \/ ui.identity # c
<1>1. Late(c) = [seen EXCEPT !.late = late] /\ late \in BOOLEAN
  BY DEF Late, PageHistory
<1>2. ~late => ~seen.late /\ ui.identity = c
  BY DEF PageHistory
<1>3. seen.late => late
  OBVIOUS
<1> HIDE DEF late
<1> QED BY <1>1, <1>2, <1>3 DEF PageHistory, Clean

LEMMA JobsKept ==
    ASSUME NEW j \in PageJobs, JobsOk(job, account, seen.prompt), j.inits = job.inits, j.ref = job.ref,
           j.create = job.create, j.submit = job.submit
    PROVE  JobsOk(j, account, seen.prompt)
BY DEF JobsOk

(* Steps that only start or end something.                                 *)
LEMMA Started ==
    ASSUME KYCPageIInv,
           \/ TokenExpires \/ Capture \/ StopScanning \/ StartLivenessCheck \/ LoopEnds \/ Poll
    PROVE  KYCPageIInv'
<1>0. /\ job \in PageJobs /\ JobsOk(job, account, seen.prompt) /\ RowsOk(request, seen.prompt)
      /\ ui \in PageState /\ ui.identity \in Owner /\ ui.face \in Owner /\ job.checks \subseteq Ids /\ job.loops \in 0..2
  BY PageFacts DEF PageState
<1>1. UNCHANGED <<account, ui, session, storeVars, seen, request>>
  BY DEF TokenExpires, Capture, StopScanning, StartLivenessCheck, LoopEnds, Poll
<1> SUFFICES ASSUME TRUE
             PROVE  /\ job' \in PageJobs /\ job'.inits = job.inits /\ job'.ref = job.ref
                    /\ job'.create = job.create /\ job'.submit = job.submit
  BY <1>0, <1>1, HiddenStep, JobsKept
<1>2. CASE TokenExpires
  <2>1. job' = [job EXCEPT !.renewals = {ui.identity}] /\ ui.identity \in Ids
    BY <1>0, <1>2, WalletIds DEF TokenExpires, Widget
  <2> QED BY <1>0, <2>1 DEF PageJobs
<1>3. CASE Capture
  <2>1. job' = [job EXCEPT !.capture = ui.face]
    BY <1>3 DEF Capture
  <2> QED BY <1>0, <2>1 DEF PageJobs
<1>4. CASE StopScanning
  <2>1. job' = [job EXCEPT !.stop = TRUE]
    BY <1>4 DEF StopScanning
  <2> QED BY <1>0, <2>1 DEF PageJobs
<1>5. CASE StartLivenessCheck
  <2> DEFINE n == job.loops + 1
  <2>1. job' = [job EXCEPT !.loops = n, !.stop = FALSE] /\ n \in 0..2
    BY <1>0, <1>5 DEF StartLivenessCheck
  <2> HIDE DEF n
  <2> QED BY <1>0, <2>1 DEF PageJobs
<1>6. CASE LoopEnds
  <2> DEFINE n == job.loops - 1
  <2>1. job' = [job EXCEPT !.loops = n] /\ n \in 0..2
    BY <1>0, <1>6 DEF LoopEnds
  <2> HIDE DEF n
  <2> QED BY <1>0, <2>1 DEF PageJobs
<1>7. CASE Poll
  <2> DEFINE checks == job.checks \cup {ui.identity}
  <2>1. job' = [job EXCEPT !.checks = checks] /\ checks \subseteq Ids
    BY <1>0, <1>7, WalletIds DEF Poll
  <2> HIDE DEF checks
  <2> QED BY <1>0, <2>1 DEF PageJobs
<1> QED BY <1>2, <1>3, <1>4, <1>5, <1>6, <1>7

(* Steps of the page that leave calls and rows as they are, but for those  *)
(* that are counted.                                                       *)
LEMMA ShownOnly ==
    ASSUME KYCPageIInv, UNCHANGED <<account, storeVars, request>>,
           NEW u \in PageState, u.wallet = ui.wallet, u.identity = ui.identity,
           NEW stored \in {session, NoSession}, Render(u, stored),
           NEW c, seen' \in {seen, Late(c)},
           Clean(seen) /\ (seen' = Late(c) => ui.identity = c) => OwnPage(u),
           job' \in PageJobs, job'.inits = job.inits, job'.ref = job.ref,
           job'.create = job.create, job'.submit = job.submit
    PROVE  KYCPageIInv'
<1>1. /\ JobsOk(job, account, seen.prompt) /\ RowsOk(request, seen.prompt) /\ seen \in PageHistory
  BY PageFacts
<1>2. JobsOk(job', account, seen.prompt)
  BY <1>1, JobsKept
<1>3. /\ seen' \in PageHistory /\ (seen.late => seen'.late) /\ seen'.prompt = seen.prompt
      /\ Clean(seen') => OwnPage(u)
  <2>1. CASE seen' = Late(c)
    BY <1>1, <2>1, LateFacts
  <2>2. CASE seen' # Late(c)
    BY <1>1, <2>2
  <2> QED BY <2>1, <2>2
<1>4. RowsOk(request', seen.prompt)
  BY <1>1
<1> QED BY <1>2, <1>3, <1>4, ShownStep

LEMMA StageShown ==
    ASSUME NEW u \in PageState, NEW stage \in Stages
    PROVE  /\ [u EXCEPT !.stage = stage] \in PageState
           /\ [u EXCEPT !.stage = stage].wallet = u.wallet /\ [u EXCEPT !.stage = stage].identity = u.identity
           /\ OwnPage(u) => OwnPage([u EXCEPT !.stage = stage])
<1> DEFINE v == [u EXCEPT !.stage = stage]
<1>1. /\ v \in PageState /\ v.wallet = u.wallet /\ v.identity = u.identity /\ v.document = u.document
      /\ v.face = u.face /\ v.match = u.match /\ v.token = u.token /\ v.status = u.status
  BY DEF PageState
<1> HIDE DEF v
<1>2. OwnPage(u) => OwnPage(v)
  BY <1>1 DEF OwnPage
<1> QED BY <1>1, <1>2 DEF v

LEMMA StagesChange ==
    ASSUME KYCPageIInv, SwitchMethod \/ StartLocalFlow \/ ProceedToSelfie
    PROVE  KYCPageIInv'
<1>1. PICK stage \in Stages : Render([ui EXCEPT !.stage = stage], session)
  <2>1. "method" \in Stages /\ "document" \in Stages /\ "selfie" \in Stages
    BY DEF Stages
  <2> QED BY <2>1 DEF SwitchMethod, StartLocalFlow, ProceedToSelfie
<1>2. UNCHANGED <<account, storeVars, request, job, seen>>
  BY DEF SwitchMethod, StartLocalFlow, ProceedToSelfie
<1>3. ui \in PageState /\ job \in PageJobs /\ (Clean(seen) => OwnPage(ui))
  BY PageFacts
<1> DEFINE u == [ui EXCEPT !.stage = stage]
<1>4. /\ u \in PageState /\ u.wallet = ui.wallet /\ u.identity = ui.identity
      /\ Clean(seen) => OwnPage(u)
  BY <1>3, StageShown
<1>5. Render(u, session)
  BY <1>1
<1> HIDE DEF u
<1> QED BY <1>2, <1>3, <1>4, <1>5, ShownOnly

LEMMA StartOverKeeps == ASSUME KYCPageIInv, StartOver PROVE KYCPageIInv'
<1> DEFINE clean == ResetPerWalletState(ui)
           stage == IF ui.available THEN "method" ELSE "document"
           u == [clean EXCEPT !.status = ui.status, !.stage = stage]
<1>1. Render(u, NoSession) /\ UNCHANGED <<account, storeVars, request, job, seen>>
  BY DEF StartOver
<1>2. ui \in PageState /\ job \in PageJobs /\ (Clean(seen) => OwnPage(ui))
  BY PageFacts
<1>3. /\ clean \in PageState /\ clean.identity = ui.identity /\ clean.wallet = ui.wallet
      /\ clean.document = Nothing /\ clean.face = Nothing /\ clean.match = Nothing /\ clean.token = Nothing
  BY <1>2, Reset
<1>4. stage \in Stages
  BY DEF Stages
<1> HIDE DEF clean, stage
<1>5. /\ u \in PageState /\ u.wallet = ui.wallet /\ u.identity = ui.identity /\ u.document = Nothing
      /\ u.face = Nothing /\ u.match = Nothing /\ u.token = Nothing /\ u.status = ui.status
  BY <1>2, <1>3, <1>4 DEF PageState
<1> HIDE DEF u
<1>6. Clean(seen) => OwnPage(u)
  BY <1>2, <1>5 DEF OwnPage
<1> QED BY <1>1, <1>2, <1>5, <1>6, ShownOnly

LEMMA UploadKeeps == ASSUME KYCPageIInv, Upload PROVE KYCPageIInv'
<1> DEFINE u == [ui EXCEPT !.document = Nothing, !.face = Nothing, !.reading = TRUE]
           uploads == job.uploads \cup {ui.identity}
           j == [job EXCEPT !.uploads = uploads]
<1>0. Render(u, session) /\ UNCHANGED <<account, storeVars, request, seen>> /\ job' = j
  BY DEF Upload
<1>1. ui \in PageState /\ job \in PageJobs /\ (Clean(seen) => OwnPage(ui)) /\ Nothing \in Owner
  BY PageFacts, WalletIds
<1>2. uploads \subseteq Ids
  BY PageFacts, WalletIds DEF Upload
<1> HIDE DEF uploads
<1>3. /\ j \in PageJobs /\ j.inits = job.inits /\ j.ref = job.ref /\ j.create = job.create
      /\ j.submit = job.submit
  BY <1>1, <1>2 DEF PageJobs
<1>4. /\ u \in PageState /\ u.wallet = ui.wallet /\ u.identity = ui.identity /\ u.document = Nothing
      /\ u.face = Nothing /\ u.match = ui.match /\ u.token = ui.token /\ u.status = ui.status
  BY <1>1 DEF PageState
<1> HIDE DEF u, j
<1>5. Clean(seen) => OwnPage(u)
  BY <1>1, <1>4 DEF OwnPage
<1> QED BY <1>0, <1>3, <1>4, <1>5, ShownOnly

LEMMA TextReadKeeps == ASSUME KYCPageIInv, TextRead PROVE KYCPageIInv'
<1>0. PICK c \in job.uploads : Render([ui EXCEPT !.document = c], session) /\ seen' = Late(c)
  BY DEF TextRead
<1> DEFINE u == [ui EXCEPT !.document = c]
<1>1. UNCHANGED <<account, storeVars, request, job>> /\ Render(u, session)
  BY <1>0 DEF TextRead
<1>2. ui \in PageState /\ job \in PageJobs /\ (Clean(seen) => OwnPage(ui)) /\ c \in Owner
  BY PageFacts, WalletIds
<1>3. /\ u \in PageState /\ u.wallet = ui.wallet /\ u.identity = ui.identity /\ u.document = c
      /\ u.face = ui.face /\ u.match = ui.match /\ u.token = ui.token /\ u.status = ui.status
  BY <1>2 DEF PageState
<1> HIDE DEF u
<1>4. Clean(seen) /\ ui.identity = c => OwnPage(u)
  BY <1>2, <1>3 DEF OwnPage
<1> QED BY <1>0, <1>1, <1>2, <1>3, <1>4, ShownOnly

LEMMA FaceReadKeeps == ASSUME KYCPageIInv, FaceRead PROVE KYCPageIInv'
<1>0. PICK c \in job.uploads, found \in BOOLEAN :
          /\ Render([ui EXCEPT !.face = IF found THEN c ELSE @, !.reading = FALSE], session)
          /\ job' = [job EXCEPT !.uploads = @ \ {c}] /\ seen' = Late(c)
  BY DEF FaceRead
<1> DEFINE face == IF found THEN c ELSE ui.face
           u == [ui EXCEPT !.face = face, !.reading = FALSE]
           uploads == job.uploads \ {c}
           j == [job EXCEPT !.uploads = uploads]
<1>1. UNCHANGED <<account, storeVars, request>> /\ Render(u, session) /\ job' = j
  BY <1>0 DEF FaceRead
<1>2. ui \in PageState /\ job \in PageJobs /\ (Clean(seen) => OwnPage(ui)) /\ c \in Owner
      /\ job.uploads \subseteq Ids
  BY PageFacts, WalletIds
<1>3. face \in Owner /\ face \in {c, ui.face} /\ uploads \subseteq Ids
  BY <1>2 DEF PageState
<1> HIDE DEF face, uploads
<1>4. /\ j \in PageJobs /\ j.inits = job.inits /\ j.ref = job.ref /\ j.create = job.create
      /\ j.submit = job.submit
  BY <1>2, <1>3 DEF PageJobs
<1>5. /\ u \in PageState /\ u.wallet = ui.wallet /\ u.identity = ui.identity /\ u.document = ui.document
      /\ u.face = face /\ u.match = ui.match /\ u.token = ui.token /\ u.status = ui.status
  BY <1>2, <1>3 DEF PageState
<1> HIDE DEF u, j
<1>6. Clean(seen) /\ ui.identity = c => OwnPage(u)
  BY <1>2, <1>3, <1>5 DEF OwnPage
<1> QED BY <1>0, <1>1, <1>4, <1>5, <1>6, ShownOnly

LEMMA CapturedKeeps == ASSUME KYCPageIInv, Captured PROVE KYCPageIInv'
<1> DEFINE loops == IF job.loops = 2 THEN 2 ELSE job.loops + 1
           j == [job EXCEPT !.capture = Nothing, !.loops = loops, !.stop = FALSE]
           k == [job EXCEPT !.capture = Nothing]
           u == [ui EXCEPT !.match = job.capture, !.stage = "liveness", !.live = FALSE]
<1>0. /\ UNCHANGED <<account, storeVars, request>>
      /\ \/ Render(u, session) /\ job' = j /\ seen' = Late(job.capture)
         \/ job' = k /\ UNCHANGED <<ui, session, seen>>
  BY DEF Captured
<1>1. /\ ui \in PageState /\ job \in PageJobs /\ (Clean(seen) => OwnPage(ui)) /\ job.capture \in Owner
      /\ loops \in 0..2 /\ Nothing \in Owner /\ "liveness" \in Stages
  BY PageFacts, WalletIds DEF Stages
<1> HIDE DEF loops
<1>2. /\ j \in PageJobs /\ j.inits = job.inits /\ j.ref = job.ref /\ j.create = job.create
      /\ j.submit = job.submit
      /\ k \in PageJobs /\ k.inits = job.inits /\ k.ref = job.ref /\ k.create = job.create
      /\ k.submit = job.submit
  BY <1>1 DEF PageJobs
<1>3. /\ u \in PageState /\ u.wallet = ui.wallet /\ u.identity = ui.identity /\ u.document = ui.document
      /\ u.face = ui.face /\ u.match = job.capture /\ u.token = ui.token /\ u.status = ui.status
  BY <1>1 DEF PageState
<1> HIDE DEF u, j, k
<1>4. Clean(seen) /\ ui.identity = job.capture => OwnPage(u)
  BY <1>1, <1>3 DEF OwnPage
<1>5. CASE Render(u, session) /\ job' = j /\ seen' = Late(job.capture)
  BY <1>0, <1>2, <1>3, <1>4, <1>5, ShownOnly
<1>6. CASE job' = k /\ UNCHANGED <<ui, session, seen>>
  BY <1>0, <1>2, <1>6, HiddenStep, JobsKept, PageFacts
<1> QED BY <1>0, <1>5, <1>6

LEMMA LivenessPassed == ASSUME KYCPageIInv, BlinkSeen \/ SkipLiveness PROVE KYCPageIInv'
<1> DEFINE u == ToReview(ui)
           n == job.loops - 1
           j == [job EXCEPT !.loops = n, !.stop = TRUE]
           k == [job EXCEPT !.stop = TRUE]
<1>0. /\ UNCHANGED <<account, storeVars, request>> /\ Render(u, session)
      /\ \/ job' = j /\ job.loops > 0
         \/ job' = k
      /\ seen' \in {seen, Late(ui.match)}
  BY DEF BlinkSeen, SkipLiveness
<1>1. /\ ui \in PageState /\ job \in PageJobs /\ (Clean(seen) => OwnPage(ui))
      /\ (job.loops > 0 => n \in 0..2) /\ "review" \in Stages
  BY PageFacts DEF Stages
<1> HIDE DEF n
<1>2. /\ k \in PageJobs /\ k.inits = job.inits /\ k.ref = job.ref /\ k.create = job.create
      /\ k.submit = job.submit
      /\ job.loops > 0 => j \in PageJobs
      /\ j.inits = job.inits /\ j.ref = job.ref /\ j.create = job.create /\ j.submit = job.submit
  BY <1>1 DEF PageJobs
<1>3. /\ u \in PageState /\ u.wallet = ui.wallet /\ u.identity = ui.identity /\ u.document = ui.document
      /\ u.face = ui.face /\ u.match = ui.match /\ u.token = ui.token /\ u.status = ui.status
  BY <1>1 DEF PageState, ToReview
<1> HIDE DEF u, j, k
<1>4. Clean(seen) => OwnPage(u)
  BY <1>1, <1>3 DEF OwnPage
<1>5. /\ job' \in PageJobs /\ job'.inits = job.inits /\ job'.ref = job.ref
      /\ job'.create = job.create /\ job'.submit = job.submit
  BY <1>0, <1>2
<1> QED BY <1>0, <1>3, <1>4, <1>5, ShownOnly

LEMMA TokenRenewedKeeps == ASSUME KYCPageIInv, TokenRenewed PROVE KYCPageIInv'
<1>0. PICK c \in job.renewals :
          /\ Render([ui EXCEPT !.token = c], session)
          /\ job' = [job EXCEPT !.renewals = @ \ {c}] /\ seen' = Late(c)
  BY DEF TokenRenewed
<1> DEFINE u == [ui EXCEPT !.token = c]
           renewals == job.renewals \ {c}
           j == [job EXCEPT !.renewals = renewals]
<1>1. UNCHANGED <<account, storeVars, request>> /\ Render(u, session) /\ job' = j
  BY <1>0 DEF TokenRenewed
<1>2. ui \in PageState /\ job \in PageJobs /\ (Clean(seen) => OwnPage(ui)) /\ c \in Owner
      /\ renewals \subseteq Ids
  BY PageFacts, WalletIds
<1> HIDE DEF renewals
<1>3. /\ j \in PageJobs /\ j.inits = job.inits /\ j.ref = job.ref /\ j.create = job.create
      /\ j.submit = job.submit
  BY <1>2 DEF PageJobs
<1>4. /\ u \in PageState /\ u.wallet = ui.wallet /\ u.identity = ui.identity /\ u.document = ui.document
      /\ u.face = ui.face /\ u.match = ui.match /\ u.token = c /\ u.status = ui.status
  BY <1>2 DEF PageState
<1> HIDE DEF u, j
<1>5. Clean(seen) /\ ui.identity = c => OwnPage(u)
  BY <1>2, <1>4 DEF OwnPage
<1> QED BY <1>0, <1>1, <1>3, <1>4, <1>5, ShownOnly

LEMMA StatusShown ==
    ASSUME NEW u \in PageState, NEW c \in Ids, RowsOk(request, seen.prompt)
    PROVE  /\ ShowStatus(u, c) \in PageState /\ ShowStatus(u, c).wallet = u.wallet
           /\ ShowStatus(u, c).identity = u.identity
           /\ OwnPage(u) /\ u.identity = c => OwnPage(ShowStatus(u, c))
           /\ request[c].status = "none" => ShowStatus(u, c) = u
<1>0. request[c].status \in {"none", "pending", "decided"}
  BY DEF RowsOk, ServerRow
<1>1. CASE request[c].status = "none"
  BY <1>1 DEF ShowStatus
<1>2. CASE request[c].status # "none"
  <2> DEFINE status == [of |-> c, is |-> request[c].status]
             stage == IF request[c].status = "pending" THEN "submitted" ELSE u.stage
             v == [u EXCEPT !.status = status, !.stage = stage]
  <2>1. ShowStatus(u, c) = v
    BY <1>2 DEF ShowStatus
  <2>2. /\ status \in [of : Owner, is : {"none", "pending", "decided"}] /\ status.of = c
        /\ stage \in Stages
    BY <1>0, WalletIds DEF PageState, Stages
  <2> HIDE DEF status, stage
  <2>3. /\ v \in PageState /\ v.wallet = u.wallet /\ v.identity = u.identity /\ v.document = u.document
        /\ v.face = u.face /\ v.match = u.match /\ v.token = u.token /\ v.status = status
    BY <2>2 DEF PageState
  <2> HIDE DEF v
  <2> QED BY <1>2, <2>1, <2>2, <2>3 DEF OwnPage
<1> QED BY <1>1, <1>2

LEMMA StatusAnsweredKeeps == ASSUME KYCPageIInv, StatusAnswered PROVE KYCPageIInv'
<1>0. PICK c \in job.checks, answered \in BOOLEAN :
          /\ job' = [job EXCEPT !.checks = @ \ {c}]
          /\ IF answered /\ request[c].status # "none"
             THEN Render(ShowStatus(ui, c), session) /\ seen' = Late(c)
             ELSE UNCHANGED <<ui, session, seen>>
  BY DEF StatusAnswered
<1> DEFINE u == ShowStatus(ui, c)
           checks == job.checks \ {c}
           j == [job EXCEPT !.checks = checks]
<1>1. UNCHANGED <<account, storeVars, request>> /\ job' = j
  BY <1>0 DEF StatusAnswered
<1>2. /\ ui \in PageState /\ job \in PageJobs /\ (Clean(seen) => OwnPage(ui)) /\ c \in Ids
      /\ checks \subseteq Ids /\ RowsOk(request, seen.prompt) /\ JobsOk(job, account, seen.prompt)
  BY PageFacts
<1> HIDE DEF checks
<1>3. /\ j \in PageJobs /\ j.inits = job.inits /\ j.ref = job.ref /\ j.create = job.create
      /\ j.submit = job.submit
  BY <1>2 DEF PageJobs
<1>4. /\ u \in PageState /\ u.wallet = ui.wallet /\ u.identity = ui.identity
      /\ Clean(seen) /\ ui.identity = c => OwnPage(u)
  BY <1>2, StatusShown
<1>5. CASE Render(u, session) /\ seen' = Late(c)
  <2> HIDE DEF u, j
  <2> QED BY <1>1, <1>3, <1>4, <1>5, ShownOnly
<1>6. CASE UNCHANGED <<ui, session, seen>>
  <2> HIDE DEF j
  <2>1. JobsOk(job', account, seen.prompt)
    BY <1>1, <1>2, <1>3, JobsKept
  <2> QED BY <1>1, <1>2, <1>6, <2>1, HiddenStep
<1> QED BY <1>0, <1>5, <1>6

(* What holds without a change of account in a prompt holds with one.      *)
LEMMA PromptGrows ==
    ASSUME NEW p \in BOOLEAN, NEW q \in BOOLEAN, p => q
    PROVE  /\ StoreOk(p) => StoreOk(q)
           /\ \A server : RowsOk(server, p) => RowsOk(server, q)
           /\ \A j, a, b : JobsOk(j, a, p) /\ (a = b \/ q \/ j.create.pc = "idle") => JobsOk(j, b, q)
<1>1. StoreOk(p) => StoreOk(q)
  BY DEF StoreOk
<1>2. ASSUME NEW server, RowsOk(server, p) PROVE RowsOk(server, q)
  BY <1>2 DEF RowsOk
<1>3. ASSUME NEW j, NEW a, NEW b, JobsOk(j, a, p), a = b \/ q \/ j.create.pc = "idle"
      PROVE  JobsOk(j, b, q)
  <2>1. InitsOk(j.inits, j.ref, q)
    BY <1>3 DEF JobsOk, InitsOk
  <2>2. CreateOk(j.create, b, q)
    BY <1>3 DEF JobsOk, CreateOk
  <2>3. SubmitOk(j.submit, q)
    BY <1>3 DEF JobsOk, SubmitOk
  <2> QED BY <1>3, <2>1, <2>2, <2>3 DEF JobsOk
<1> QED BY <1>1, <1>2, <1>3

LEMMA OverFacts ==
    ASSUME seen \in PageHistory, NEW c
    PROVE  /\ Over(c) \in PageHistory /\ (seen.late => Over(c).late) /\ Over(c).prompt = seen.prompt
           /\ Clean(Over(c)) =>
                Clean(seen) /\ {ui.identity, session.document, session.face, session.match} \subseteq {Nothing, c}
<1> DEFINE foreign == ~({ui.identity, session.document, session.face, session.match} \subseteq {Nothing, c})
           late == seen.late \/ foreign
<1>1. Over(c) = [seen EXCEPT !.late = late] /\ late \in BOOLEAN
  BY DEF Over, PageHistory
<1>2. ~late => ~seen.late /\ ~foreign
  OBVIOUS
<1>3. seen.late => late
  OBVIOUS
<1> HIDE DEF late
<1>4. Over(c) \in PageHistory /\ Over(c).late = late /\ Over(c).prompt = seen.prompt
  BY <1>1 DEF PageHistory
<1>5. Clean(Over(c)) => Clean(seen) /\ ~foreign
  BY <1>2, <1>4 DEF Clean
<1> QED BY <1>3, <1>4, <1>5

(* A step of which the effect on the wallet is part.                       *)
LEMMA EffectStep ==
    ASSUME KYCPageIInv, NEW u \in PageState, NEW j, WalletEffect(u, j), request' = request,
           seen' \in PageHistory, seen.prompt => seen'.prompt,
           account' \in Accounts, u.wallet \in {NoWallet, account'},
           Clean(seen') => OwnPage(u) /\ OwnSession(session, u.identity),
           JobsOk(j, account', seen'.prompt)
    PROVE  KYCPageIInv'
<1>1. session \in SavedSession /\ StoreOk(seen.prompt) /\ RowsOk(request, seen.prompt) /\ seen.prompt \in BOOLEAN
  BY PageFacts
<1>2. seen'.prompt \in BOOLEAN
  BY DEF PageHistory
<1>3. StoreOk(seen'.prompt) /\ RowsOk(request', seen'.prompt)
  BY <1>1, <1>2, PromptGrows
<1>4. PICK h \in PageHistory : h = seen'
  OBVIOUS
<1>5. PICK a \in Accounts : a = account'
  OBVIOUS
<1>6. /\ StoreOk(h.prompt) /\ JobsOk(j, a, h.prompt) /\ u.wallet \in {NoWallet, a}
      /\ Clean(h) => OwnPage(u) /\ OwnSession(session, u.identity)
  BY <1>3, <1>4, <1>5
<1>7. /\ PageOk(ui', session', h) /\ WalletOk(ui', a, h.prompt)
      /\ StoreOk(h.prompt)' /\ JobsOk(job', a, h.prompt)
  BY <1>1, <1>6, WalletEffectOk
<1>8. StoreOk(seen.prompt)'
  BY <1>4, <1>7 DEF StoreOk
<1>9. /\ PageOk(ui, session, seen)' /\ WalletOk(ui, account, seen.prompt)'
      /\ JobsOk(job, account, seen.prompt)' /\ RowsOk(request, seen.prompt)'
  BY <1>3, <1>4, <1>5, <1>7
<1> QED BY <1>8, <1>9 DEF KYCPageIInv

LEMMA WalletShown ==
    ASSUME NEW u \in PageState, NEW w \in Accounts
    PROVE  /\ [u EXCEPT !.wallet = w] \in PageState /\ [u EXCEPT !.wallet = w].wallet = w
           /\ [u EXCEPT !.wallet = w].identity = u.identity
           /\ OwnPage(u) => OwnPage([u EXCEPT !.wallet = w])
<1> DEFINE v == [u EXCEPT !.wallet = w]
<1>1. /\ v \in PageState /\ v.wallet = w /\ v.identity = u.identity /\ v.document = u.document
      /\ v.face = u.face /\ v.match = u.match /\ v.token = u.token /\ v.status = u.status
  BY DEF PageState
<1> HIDE DEF v
<1>2. OwnPage(u) => OwnPage(v)
  BY <1>1 DEF OwnPage
<1> QED BY <1>1, <1>2 DEF v

LEMMA AccountKnownKeeps == ASSUME KYCPageIInv, AccountKnown PROVE KYCPageIInv'
<1> DEFINE u == [ui EXCEPT !.wallet = account]
           j == [job EXCEPT !.accounts = FALSE]
<1>0. WalletEffect(u, j) /\ UNCHANGED <<account, request, seen>>
  BY DEF AccountKnown
<1>1. /\ ui \in PageState /\ job \in PageJobs /\ seen \in PageHistory /\ account \in Accounts
      /\ (Clean(seen) => OwnPage(ui) /\ OwnSession(session, ui.identity)) /\ JobsOk(job, account, seen.prompt)
  BY PageFacts
<1>2. /\ j \in PageJobs /\ j.inits = job.inits /\ j.ref = job.ref /\ j.create = job.create
      /\ j.submit = job.submit
  BY <1>1 DEF PageJobs
<1>3. u \in PageState /\ u.wallet = account /\ u.identity = ui.identity /\ (OwnPage(ui) => OwnPage(u))
  BY <1>1, WalletShown
<1> HIDE DEF u, j
<1>4. JobsOk(j, account, seen.prompt)
  BY <1>1, <1>2, JobsKept
<1> QED BY <1>0, <1>1, <1>3, <1>4, EffectStep

LEMMA SwitchAccountKeeps == ASSUME KYCPageIInv, SwitchAccount PROVE KYCPageIInv'
<1>0. PICK w \in (Wallets \cup {NoWallet}) \ {account} :
          /\ account' = w /\ WalletEffect([ui EXCEPT !.wallet = w], job)
          /\ seen' = [seen EXCEPT !.prompt = @ \/ job.create.pc # "idle" \/ job.submit.pc # "idle"]
  BY DEF SwitchAccount
<1> DEFINE u == [ui EXCEPT !.wallet = w]
           prompt == seen.prompt \/ job.create.pc # "idle" \/ job.submit.pc # "idle"
<1>1. /\ ui \in PageState /\ seen \in PageHistory /\ w \in Accounts /\ seen.prompt \in BOOLEAN
      /\ (Clean(seen) => OwnPage(ui) /\ OwnSession(session, ui.identity)) /\ JobsOk(job, account, seen.prompt)
  BY PageFacts DEF Accounts
<1>2. u \in PageState /\ u.wallet = w /\ u.identity = ui.identity /\ (OwnPage(ui) => OwnPage(u))
  BY <1>1, WalletShown
<1>3. WalletEffect(u, job) /\ seen' = [seen EXCEPT !.prompt = prompt] /\ request' = request
  BY <1>0 DEF SwitchAccount
<1>4. prompt \in BOOLEAN /\ (seen.prompt => prompt) /\ (prompt \/ job.create.pc = "idle")
  BY <1>1
<1> HIDE DEF u, prompt
<1>5. seen' \in PageHistory /\ seen'.prompt = prompt /\ (Clean(seen') => Clean(seen))
  BY <1>1, <1>3, <1>4 DEF PageHistory, Clean
<1>6. JobsOk(job, w, seen'.prompt)
  BY <1>1, <1>4, <1>5, PromptGrows
<1> QED BY <1>0, <1>1, <1>2, <1>3, <1>4, <1>5, <1>6, EffectStep

LEMMA ConfigKnownKeeps == ASSUME KYCPageIInv, ConfigKnown PROVE KYCPageIInv'
<1> DEFINE u == [ui EXCEPT !.available = TRUE]
           j == [job EXCEPT !.config = FALSE]
<1>0. /\ UNCHANGED <<account, request, seen>>
      /\ \/ WalletEffect(u, j)
         \/ job' = j /\ UNCHANGED <<ui, session, storeVars>>
  BY DEF ConfigKnown
<1>1. /\ ui \in PageState /\ job \in PageJobs /\ seen \in PageHistory /\ account \in Accounts
      /\ (Clean(seen) => OwnPage(ui) /\ OwnSession(session, ui.identity)) /\ JobsOk(job, account, seen.prompt)
      /\ ui.wallet \in {NoWallet, account} /\ RowsOk(request, seen.prompt)
  BY PageFacts
<1>2. /\ j \in PageJobs /\ j.inits = job.inits /\ j.ref = job.ref /\ j.create = job.create
      /\ j.submit = job.submit
  BY <1>1 DEF PageJobs
<1>3. /\ u \in PageState /\ u.wallet = ui.wallet /\ u.identity = ui.identity /\ u.document = ui.document
      /\ u.face = ui.face /\ u.match = ui.match /\ u.token = ui.token /\ u.status = ui.status
  BY <1>1 DEF PageState
<1> HIDE DEF u, j
<1>4. JobsOk(j, account, seen.prompt)
  BY <1>1, <1>2, JobsKept
<1>5. OwnPage(ui) => OwnPage(u)
  BY <1>3 DEF OwnPage
<1>6. CASE WalletEffect(u, j)
  BY <1>0, <1>1, <1>3, <1>4, <1>5, <1>6, EffectStep
<1>7. CASE job' = j /\ UNCHANGED <<ui, session, storeVars>>
  BY <1>0, <1>1, <1>4, <1>7, HiddenStep
<1> QED BY <1>0, <1>6, <1>7

(* The handler of "create" goes on to another of its steps.                *)
LEMMA CreateMoves ==
    ASSUME NEW j, NEW a, NEW b, NEW prompt \in BOOLEAN, JobsOk(j, a, prompt),
           NEW c \in CreateJob, CreateOk(c, b, prompt)
    PROVE  /\ JobsOk([j EXCEPT !.create = c], b, prompt)
           /\ [j EXCEPT !.create = c].ref = j.ref
<1> DEFINE k == [j EXCEPT !.create = c]
<1>1. /\ k \in PageJobs /\ k.inits = j.inits /\ k.ref = j.ref /\ k.create = c /\ k.submit = j.submit
  BY DEF JobsOk, PageJobs
<1> HIDE DEF k
<1>2. JobsOk(k, b, prompt)
  BY <1>1 DEF JobsOk
<1> QED BY <1>1, <1>2 DEF k

LEMMA NoCreateOk == NoCreate \in CreateJob /\ \A a, prompt : CreateOk(NoCreate, a, prompt)
<1>1. NoWallet \in Accounts /\ Nothing \in Owner
  BY WalletIds DEF Accounts
<1>2. NoCreate \in CreateJob
  BY <1>1 DEF NoCreate, CreateJob
<1>3. NoCreate.pc = "idle"
  BY DEF NoCreate
<1> QED BY <1>2, <1>3 DEF CreateOk

LEMMA ClickCreateKeeps == ASSUME KYCPageIInv, ClickCreate PROVE KYCPageIInv'
<1> DEFINE c == [NoCreate EXCEPT !.pc = "connect", !.knew = ui.wallet, !.available = ui.available]
<1>0. job' = [job EXCEPT !.create = c] /\ UNCHANGED <<account, ui, storeVars, session, request, seen>>
  BY DEF ClickCreate
<1>1. /\ ui \in PageState /\ ui.wallet \in {NoWallet, account} /\ JobsOk(job, account, seen.prompt)
      /\ RowsOk(request, seen.prompt) /\ seen.prompt \in BOOLEAN
  BY PageFacts
<1>2. c \in CreateJob /\ c.pc = "connect" /\ c.knew = ui.wallet
  BY <1>1, NoCreateOk DEF CreateJob, PageState
<1> HIDE DEF c
<1>3. CreateOk(c, account, seen.prompt)
  BY <1>1, <1>2 DEF CreateOk
<1>4. JobsOk(job', account, seen.prompt)
  BY <1>0, <1>1, <1>2, <1>3, CreateMoves
<1> QED BY <1>0, <1>1, <1>4, HiddenStep

LEMMA CreateDeclinedKeeps == ASSUME KYCPageIInv, CreateDeclined PROVE KYCPageIInv'
<1>1. JobsOk(job, account, seen.prompt) /\ RowsOk(request, seen.prompt) /\ seen.prompt \in BOOLEAN
  BY PageFacts
<1>2. job' = [job EXCEPT !.create = NoCreate] /\ UNCHANGED <<account, ui, storeVars, session, request, seen>>
  BY DEF CreateDeclined
<1>3. JobsOk(job', account, seen.prompt)
  BY <1>1, <1>2, NoCreateOk, CreateMoves
<1> QED BY <1>1, <1>2, <1>3, HiddenStep

LEMMA IdentityShown ==
    ASSUME NEW u \in PageState, NEW c \in Owner
    PROVE  /\ [u EXCEPT !.identity = c] \in PageState /\ [u EXCEPT !.identity = c].identity = c
           /\ [u EXCEPT !.identity = c].wallet = u.wallet
           /\ OwnPage(u) /\ u.identity \in {Nothing, c} => OwnPage([u EXCEPT !.identity = c])
<1> DEFINE v == [u EXCEPT !.identity = c]
<1>1. /\ v \in PageState /\ v.wallet = u.wallet /\ v.identity = c /\ v.document = u.document
      /\ v.face = u.face /\ v.match = u.match /\ v.token = u.token /\ v.status = u.status
  BY DEF PageState
<1> HIDE DEF v
<1>2. OwnPage(u) /\ u.identity \in {Nothing, c} => OwnPage(v)
  BY <1>1 DEF OwnPage
<1> QED BY <1>1, <1>2 DEF v

LEMMA CreateConnectedKeeps == ASSUME KYCPageIInv, CreateConnected PROVE KYCPageIInv'
<1>0. PICK w \in IF account = NoWallet THEN Wallets ELSE {account} :
         /\ account' = w
         /\ LET j == [job EXCEPT !.create = [@ EXCEPT !.pc = "sign", !.wallet = w]] IN
            IF ui.wallet = w
            THEN LoadIdentityForWallet(w) /\ Render(ui, session) /\ job' = j /\ seen' = seen
            ELSE \E id \in {ui.identity} \cup ({StoredFor(w)} \ {Nothing}) :
                   /\ WalletEffect([ui EXCEPT !.wallet = w, !.identity = id], j)
                   /\ seen' = IF id = ui.identity THEN seen ELSE Over(id)
  BY DEF CreateConnected
<1> DEFINE c == [job.create EXCEPT !.pc = "sign", !.wallet = w]
           j == [job EXCEPT !.create = c]
<1>1. /\ ui \in PageState /\ session \in SavedSession /\ seen \in PageHistory /\ account \in Accounts
      /\ ui.wallet \in {NoWallet, account} /\ (Clean(seen) => OwnPage(ui) /\ OwnSession(session, ui.identity))
      /\ JobsOk(job, account, seen.prompt) /\ RowsOk(request, seen.prompt) /\ StoreOk(seen.prompt)
      /\ seen.prompt \in BOOLEAN /\ job.create \in CreateJob /\ ui.identity \in Owner
  BY PageFacts
<1>2. w \in Wallets /\ w \in Accounts /\ account \in {NoWallet, w} /\ w # NoWallet
  BY <1>1, WalletIds DEF Accounts
<1>3. c \in CreateJob /\ c.pc = "sign" /\ c.wallet = w /\ c.knew = job.create.knew
  BY <1>1, <1>2 DEF CreateJob
<1>4. ~seen.prompt => job.create.knew \in {NoWallet, account}
  BY <1>1 DEF JobsOk, CreateOk, CreateConnected
<1>5. request' = request
  BY DEF CreateConnected
<1> HIDE DEF c
<1>6. CreateOk(c, w, seen.prompt)
  BY <1>2, <1>3, <1>4 DEF CreateOk
<1>7. JobsOk(j, w, seen.prompt)
  BY <1>1, <1>3, <1>6, CreateMoves
<1>8. CASE ui.wallet = w
  <2>1. LoadIdentityForWallet(w) /\ Render(ui, session) /\ job' = j /\ seen' = seen
    BY <1>0, <1>8 DEF c
  <2> HIDE DEF j
  <2>2. StoreOk(seen.prompt)'
    <3>1. PICK p \in BOOLEAN : p = seen.prompt
      BY <1>1
    <3>2. StoreOk(p)'
      BY <1>1, <1>2, <2>1, <3>1, LoadedOk
    <3> QED BY <2>1, <3>1, <3>2 DEF StoreOk
  <2>3. ui' = ui /\ PageOk(ui', session', seen)
    BY <1>1, <2>1, Rendered
  <2>4. account = w
    BY <1>1, <1>2, <1>8
  <2>5. WalletOk(ui, account, seen.prompt)
    BY DEF KYCPageIInv
  <2>6. /\ PageOk(ui, session, seen)' /\ WalletOk(ui, account, seen.prompt)'
        /\ JobsOk(job, account, seen.prompt)' /\ RowsOk(request, seen.prompt)'
    BY <1>0, <1>1, <1>5, <1>7, <2>1, <2>3, <2>4, <2>5
  <2> QED BY <2>2, <2>6 DEF KYCPageIInv
<1>9. CASE ui.wallet # w
  <2>1. PICK id \in {ui.identity} \cup ({StoredFor(w)} \ {Nothing}) :
                   /\ WalletEffect([ui EXCEPT !.wallet = w, !.identity = id], j)
                   /\ seen' = IF id = ui.identity THEN seen ELSE Over(id)
    BY <1>0, <1>9 DEF c
  <2> DEFINE mid == [ui EXCEPT !.wallet = w]
             u == [ui EXCEPT !.wallet = w, !.identity = id]
  <2>2. id \in Owner
    BY <1>1, <1>2, <2>1, MigratedOk
  <2>3. u = [mid EXCEPT !.identity = id]
    BY <1>1 DEF PageState
  <2>4. mid \in PageState /\ mid.wallet = w /\ mid.identity = ui.identity /\ (OwnPage(ui) => OwnPage(mid))
    BY <1>1, <1>2, WalletShown
  <2>5. WalletEffect(u, j)
    BY <2>1
  <2> HIDE DEF mid, u, j
  <2>6. /\ u \in PageState /\ u.wallet = w /\ u.identity = id
        /\ OwnPage(ui) /\ ui.identity \in {Nothing, id} => OwnPage(u)
    BY <2>2, <2>3, <2>4, IdentityShown
  <2>7. /\ seen' \in PageHistory /\ seen'.prompt = seen.prompt
        /\ Clean(seen') => OwnPage(u) /\ OwnSession(session, u.identity)
    <3>1. CASE id = ui.identity
      BY <1>1, <2>1, <2>6, <3>1
    <3>2. CASE id # ui.identity
      <4>1. seen' = Over(id)
        BY <2>1, <3>2
      <4>2. Clean(seen') =>
              Clean(seen) /\ {ui.identity, session.document, session.face, session.match} \subseteq {Nothing, id}
        BY <1>1, <4>1, OverFacts
      <4>3. Clean(seen') => OwnPage(u) /\ OwnSession(session, u.identity)
        BY <1>1, <2>6, <4>2 DEF OwnSession
      <4> QED BY <1>1, <4>1, <4>3, OverFacts
    <3> QED BY <3>1, <3>2
  <2> QED BY <1>0, <1>2, <1>5, <1>7, <2>5, <2>6, <2>7, EffectStep
<1> QED BY <1>8, <1>9

LEMMA CreateIdentityHereKeeps == ASSUME KYCPageIInv, CreateIdentityHere PROVE KYCPageIInv'
<1> DEFINE w == job.create.wallet
           id == IF StoredFor(w) # Nothing THEN StoredFor(w) ELSE IdentityOf[account]
           c == [job.create EXCEPT !.pc = "check", !.identity = id]
           u == [ui EXCEPT !.identity = id]
<1>0. /\ identities' = [Migrated EXCEPT ![w] = id] /\ legacy' = NoLegacy
      /\ Render(u, session) /\ job' = [job EXCEPT !.create = c] /\ seen' = Over(id)
      /\ job.create.pc = "sign" /\ account # NoWallet /\ UNCHANGED <<account, request>>
  BY DEF CreateIdentityHere
<1>1. /\ ui \in PageState /\ session \in SavedSession /\ seen \in PageHistory /\ account \in Accounts
      /\ ui.wallet \in {NoWallet, account} /\ (Clean(seen) => OwnPage(ui) /\ OwnSession(session, ui.identity))
      /\ JobsOk(job, account, seen.prompt) /\ RowsOk(request, seen.prompt) /\ StoreOk(seen.prompt)
      /\ seen.prompt \in BOOLEAN /\ job.create \in CreateJob
  BY PageFacts
<1>2. w \in Wallets /\ w \in Accounts /\ account \in Wallets /\ (~seen.prompt => w = account)
      /\ (~seen.prompt => job.create.knew \in {NoWallet, account})
  BY <1>0, <1>1 DEF JobsOk, CreateOk, Accounts
<1>3. id \in Ids /\ id # Nothing /\ (~seen.prompt => id = IdentityOf[account])
  BY <1>1, <1>2, WalletIds, MigratedOk
<1> HIDE DEF w, id
<1>4. id \in Owner /\ Nothing \in Owner
  BY <1>3, WalletIds
<1>5. /\ u \in PageState /\ u.identity = id /\ u.wallet = ui.wallet
      /\ OwnPage(ui) /\ ui.identity \in {Nothing, id} => OwnPage(u)
  BY <1>1, <1>4, IdentityShown
<1> HIDE DEF u
<1>6. /\ seen' \in PageHistory /\ seen'.prompt = seen.prompt
      /\ Clean(seen') => Clean(seen)
           /\ {ui.identity, session.document, session.face, session.match} \subseteq {Nothing, id}
  BY <1>0, <1>1, OverFacts
<1>7. Clean(seen') => OwnPage(u) /\ OwnSession(session, u.identity)
  BY <1>1, <1>5, <1>6 DEF OwnSession
<1>8. ui' = u /\ PageOk(ui', session', seen')
  BY <1>0, <1>1, <1>5, <1>6, <1>7, Rendered
<1>9. WalletOk(u, account, seen.prompt)
  BY <1>1, <1>3, <1>5 DEF WalletOk
<1>10. StoreOk(seen.prompt)'
  <2>1. /\ Migrated \in [Wallets -> Owner]
        /\ ~seen.prompt => \A v \in Wallets : Migrated[v] \in {NoIdentity, IdentityOf[v]}
    BY <1>1, MigratedOk
  <2>2. identities' \in [Wallets -> Owner]
    BY <1>0, <1>2, <1>4, <2>1
  <2>3. ~seen.prompt => \A v \in Wallets : identities'[v] \in {NoIdentity, IdentityOf[v]}
    BY <1>0, <1>2, <1>3, <2>1
  <2>4. legacy'.identity = NoIdentity
    BY <1>0 DEF NoLegacy
  <2> QED BY <1>6, <2>2, <2>3, <2>4 DEF StoreOk
<1>11. JobsOk(job', account, seen.prompt)
  <2>1. c \in CreateJob /\ c.pc = "check" /\ c.wallet = w /\ c.knew = job.create.knew /\ c.identity = id
    BY <1>1, <1>2, <1>4 DEF CreateJob, w
  <2> HIDE DEF c
  <2>2. CreateOk(c, account, seen.prompt)
    BY <1>2, <1>3, <2>1 DEF CreateOk
  <2> QED BY <1>0, <1>1, <2>1, <2>2, CreateMoves
<1>12. /\ PageOk(ui, session, seen)' /\ WalletOk(ui, account, seen.prompt)'
       /\ JobsOk(job, account, seen.prompt)' /\ RowsOk(request, seen.prompt)'
  BY <1>0, <1>1, <1>6, <1>8, <1>9, <1>11
<1> QED BY <1>10, <1>12 DEF KYCPageIInv

LEMMA CreateCheckedKeeps == ASSUME KYCPageIInv, CreateChecked PROVE KYCPageIInv'
<1> DEFINE c == job.create.identity
           j == [job EXCEPT !.create = NoCreate]
<1>0. PICK u \in {ui, ShowStatus(ui, c)} :
         /\ \/ Render(u, session) /\ job' = StartSumsubFlowFor(j, c, job.create.knew)
            \/ Render([u EXCEPT !.stage = "document"], session) /\ job' = j
         /\ seen' = IF u = ui THEN seen ELSE Late(c)
  BY DEF CreateChecked
<1>1. UNCHANGED <<account, storeVars, request>> /\ job.create.pc = "check"
  BY DEF CreateChecked
<1>2. /\ ui \in PageState /\ session \in SavedSession /\ seen \in PageHistory
      /\ (Clean(seen) => OwnPage(ui)) /\ job.create \in CreateJob
      /\ JobsOk(job, account, seen.prompt) /\ RowsOk(request, seen.prompt) /\ seen.prompt \in BOOLEAN
  BY PageFacts
<1>3. /\ c \in Ids /\ job.create.knew \in Accounts
      /\ ~seen.prompt /\ job.create.knew # NoWallet => IdentityOf[job.create.knew] = c
  BY <1>1, <1>2 DEF JobsOk, CreateOk, CreateJob
<1>4. JobsOk(j, account, seen.prompt)
  BY <1>2, NoCreateOk, CreateMoves
<1>5. JobsOk(StartSumsubFlowFor(j, c, job.create.knew), account, seen.prompt)
  <2> HIDE DEF j, c
  <2> QED BY <1>2, <1>3, <1>4, InitStarts
<1>6. /\ u \in PageState /\ u.wallet = ui.wallet /\ u.identity = ui.identity
      /\ OwnPage(ui) /\ (u = ui \/ ui.identity = c) => OwnPage(u)
  BY <1>2, <1>3, StatusShown
<1>7. /\ seen' \in PageHistory /\ (seen.late => seen'.late) /\ seen'.prompt = seen.prompt
      /\ Clean(seen') => OwnPage(u)
  <2>1. CASE u = ui
    BY <1>0, <1>2, <2>1
  <2>2. CASE u # ui
    <3> HIDE DEF c
    <3> QED BY <1>0, <1>2, <1>6, <2>2, LateFacts
  <2> QED BY <2>1, <2>2
<1>8. JobsOk(job', account, seen.prompt)
  BY <1>0, <1>4, <1>5
<1> DEFINE v == [u EXCEPT !.stage = "document"]
<1>9. v \in PageState /\ v.wallet = u.wallet /\ v.identity = u.identity /\ (OwnPage(u) => OwnPage(v))
  <2>1. "document" \in Stages
    BY DEF Stages
  <2> QED BY <1>6, <2>1, StageShown
<1>10. Render(u, session) \/ Render(v, session)
  BY <1>0
<1> HIDE DEF v
<1>11. RowsOk(request', seen.prompt)
  BY <1>1, <1>2
<1>12. CASE Render(u, session)
  BY <1>1, <1>6, <1>7, <1>8, <1>11, <1>12, ShownStep
<1>13. CASE Render(v, session)
  BY <1>1, <1>6, <1>7, <1>8, <1>9, <1>11, <1>13, ShownStep
<1> QED BY <1>10, <1>12, <1>13

(* A call of init is answered: another may take its place only once it is  *)
(* aborted or the page has forgotten for whom it was.                      *)
LEMMA ReleasedOk ==
    ASSUME NEW prompt \in BOOLEAN, JobsOk(job, account, prompt), NEW i \in job.inits
    PROVE  JobsOk(Released(i), account, prompt)
<1> DEFINE inits == job.inits \ {i}
           ref == IF i.aborted THEN job.ref ELSE Nothing
           j == [job EXCEPT !.inits = inits, !.ref = ref]
<1>1. InitsOk(inits, ref, prompt)
  <2>1. \A m, k \in inits : ~m.aborted /\ ~k.aborted => m = k
    BY DEF JobsOk, InitsOk
  <2>2. \A m \in inits : ~m.aborted => m.for = ref
    BY DEF JobsOk, InitsOk
  <2>3. \A m \in inits : ~prompt /\ m.fresh # NoWallet => IdentityOf[m.fresh] = m.for
    BY DEF JobsOk, InitsOk
  <2> QED BY <2>1, <2>2, <2>3 DEF InitsOk
<1>2. inits \in SUBSET Inits /\ ref \in Owner
  BY WalletIds DEF JobsOk, PageJobs
<1>3. Released(i) = j
  BY DEF Released
<1> HIDE DEF inits, ref
<1>4. /\ j \in PageJobs /\ j.inits = inits /\ j.ref = ref /\ j.create = job.create
      /\ j.submit = job.submit
  BY <1>2 DEF JobsOk, PageJobs
<1> HIDE DEF j
<1> QED BY <1>1, <1>3, <1>4 DEF JobsOk

LEMMA PlacedOk ==
    ASSUME NEW prompt \in BOOLEAN, RowsOk(request, prompt), JobsOk(job, account, prompt), NEW i \in job.inits
    PROVE  RowsOk(Placed(i), prompt)
<1>1. i \in Inits /\ i.for \in Ids /\ i.fresh \in Accounts
  BY DEF JobsOk, PageJobs, Inits, Accounts
<1>2. ~prompt /\ i.fresh # NoWallet => IdentityOf[i.fresh] = i.for
  BY DEF JobsOk, InitsOk
<1>3. CASE i.fresh = NoWallet
  BY <1>3 DEF Placed
<1>4. CASE i.fresh # NoWallet
  <2>1. PICK row \in ServerRow : row.fresh = i.fresh /\ Placed(i) = [request EXCEPT ![i.for] = row]
    <3>1. CASE request[i.for].status = "none"
      <4> DEFINE row == [status |-> "pending", type |-> "KYCVerified", fresh |-> i.fresh]
      <4>1. row \in ServerRow /\ row.fresh = i.fresh
        BY <1>1 DEF ServerRow
      <4>2. Placed(i) = [request EXCEPT ![i.for] = row]
        BY <1>4, <3>1 DEF Placed
      <4> HIDE DEF row
      <4> QED BY <4>1, <4>2
    <3>2. CASE request[i.for].status # "none"
      <4> DEFINE row == [request[i.for] EXCEPT !.fresh = i.fresh]
      <4>1. row \in ServerRow /\ row.fresh = i.fresh
        BY <1>1 DEF ServerRow, RowsOk
      <4>2. Placed(i) = [request EXCEPT ![i.for] = row]
        BY <1>4, <3>2 DEF Placed
      <4> HIDE DEF row
      <4> QED BY <4>1, <4>2
    <3> QED BY <3>1, <3>2
  <2> QED BY <1>1, <1>2, <2>1 DEF RowsOk
<1> QED BY <1>3, <1>4

LEMMA InitAnsweredKeeps ==
    ASSUME KYCPageIInv, NEW i \in job.inits, KYCPageAnswer(i)
    PROVE  KYCPageIInv'
<1>1. /\ ui \in PageState /\ seen \in PageHistory /\ (Clean(seen) => OwnPage(ui)) /\ i \in Inits
      /\ JobsOk(job, account, seen.prompt) /\ RowsOk(request, seen.prompt) /\ seen.prompt \in BOOLEAN
  BY PageFacts
<1>2. JobsOk(Released(i), account, seen.prompt) /\ RowsOk(Placed(i), seen.prompt)
  BY <1>1, ReleasedOk, PlacedOk
<1>3. /\ job' = Released(i) /\ request' \in {request, Placed(i)} /\ UNCHANGED <<account, storeVars>>
  BY DEF KYCPageAnswer, InitAnswered, InitFails
<1>4. JobsOk(job', account, seen.prompt) /\ RowsOk(request', seen.prompt)
  BY <1>1, <1>2, <1>3
<1> DEFINE u == [ui EXCEPT !.token = i.for, !.stage = "sumsub"]
<1>5. UNCHANGED <<ui, session, seen>> \/ (Render(u, session) /\ seen' = Late(i.for))
  BY DEF KYCPageAnswer, InitAnswered, InitFails
<1>6. CASE UNCHANGED <<ui, session, seen>>
  BY <1>3, <1>4, <1>6, HiddenStep
<1>7. CASE Render(u, session) /\ seen' = Late(i.for)
  <2>1. i.for \in Owner /\ "sumsub" \in Stages
    BY <1>1, WalletIds DEF Inits, Stages
  <2>2. /\ u \in PageState /\ u.wallet = ui.wallet /\ u.identity = ui.identity /\ u.document = ui.document
        /\ u.face = ui.face /\ u.match = ui.match /\ u.token = i.for /\ u.status = ui.status
    BY <1>1, <2>1 DEF PageState
  <2> HIDE DEF u
  <2>3. OwnPage(ui) /\ ui.identity = i.for => OwnPage(u)
    BY <2>2 DEF OwnPage
  <2>4. /\ seen' \in PageHistory /\ (seen.late => seen'.late) /\ seen'.prompt = seen.prompt
        /\ Clean(seen') => OwnPage(u)
    BY <1>1, <1>7, <2>3, LateFacts
  <2> QED BY <1>3, <1>4, <1>7, <2>2, <2>4, ShownStep
<1> QED BY <1>5, <1>6, <1>7

LEMMA InitRetriedKeeps ==
    ASSUME KYCPageIInv, NEW i \in job.inits, InitRetried(i)
    PROVE  KYCPageIInv'
<1> DEFINE again == [i EXCEPT !.attempt = 2]
           inits == (job.inits \ {i}) \cup {again}
           j == [job EXCEPT !.inits = inits]
<1>0. job' = j /\ UNCHANGED <<account, ui, storeVars, session, request, seen>> /\ ~i.aborted
  BY DEF InitRetried
<1>1. /\ JobsOk(job, account, seen.prompt) /\ RowsOk(request, seen.prompt) /\ seen.prompt \in BOOLEAN
      /\ job.inits \subseteq Inits
  BY PageFacts
<1>2. /\ again \in Inits /\ again.for = i.for /\ again.fresh = i.fresh /\ again.aborted = i.aborted
  BY <1>1 DEF Inits
<1> HIDE DEF again
<1>3. InitsOk(inits, job.ref, seen.prompt)
  <2>1. \A m \in inits : m # again => m \in job.inits /\ m.aborted
    BY <1>0, <1>1 DEF JobsOk, InitsOk
  <2>2. \A m, k \in inits : ~m.aborted /\ ~k.aborted => m = k
    BY <2>1
  <2>3. \A m \in inits : ~m.aborted => m.for = job.ref
    BY <1>0, <1>1, <1>2, <2>1 DEF JobsOk, InitsOk
  <2>4. \A m \in inits : ~seen.prompt /\ m.fresh # NoWallet => IdentityOf[m.fresh] = m.for
    BY <1>1, <1>2, <2>1 DEF JobsOk, InitsOk
  <2> QED BY <2>2, <2>3, <2>4 DEF InitsOk
<1>4. inits \in SUBSET Inits
  BY <1>1, <1>2
<1> HIDE DEF inits
<1>5. /\ j \in PageJobs /\ j.inits = inits /\ j.ref = job.ref /\ j.create = job.create
      /\ j.submit = job.submit
  BY <1>1, <1>4 DEF JobsOk, PageJobs
<1> HIDE DEF j
<1>6. JobsOk(j, account, seen.prompt)
  BY <1>1, <1>3, <1>5 DEF JobsOk
<1> QED BY <1>0, <1>1, <1>6, HiddenStep

LEMMA ChooseSumsubKeeps == ASSUME KYCPageIInv, ChooseSumsub PROVE KYCPageIInv'
<1>1. /\ JobsOk(job, account, seen.prompt) /\ RowsOk(request, seen.prompt) /\ seen.prompt \in BOOLEAN
      /\ ui \in PageState /\ ui.identity \in Owner
  BY PageFacts
<1>2. /\ job' = StartSumsubFlowFor(job, ui.identity, ui.wallet) /\ ui.identity # Nothing
      /\ UNCHANGED <<account, ui, storeVars, session, request, seen>>
  BY DEF ChooseSumsub
<1>3. ui.identity \in Ids /\ ui.wallet \in Accounts
  BY <1>1, <1>2, WalletIds DEF PageState
<1>4. ~seen.prompt /\ ui.wallet # NoWallet => IdentityOf[ui.wallet] = ui.identity
  BY <1>2 DEF KYCPageIInv, WalletOk
<1>5. JobsOk(job', account, seen.prompt)
  BY <1>1, <1>2, <1>3, <1>4, InitStarts
<1> QED BY <1>1, <1>2, <1>5, HiddenStep

(* The submission goes on to another of its steps.                         *)
LEMMA SubmitMoves ==
    ASSUME NEW j, NEW a, NEW prompt \in BOOLEAN, JobsOk(j, a, prompt),
           NEW s \in SubmitJob, SubmitOk(s, prompt)
    PROVE  /\ JobsOk([j EXCEPT !.submit = s], a, prompt)
           /\ [j EXCEPT !.submit = s].checks = j.checks
<1> DEFINE k == [j EXCEPT !.submit = s]
<1>1. /\ k \in PageJobs /\ k.inits = j.inits /\ k.ref = j.ref /\ k.create = j.create /\ k.submit = s
      /\ k.checks = j.checks
  BY DEF JobsOk, PageJobs
<1> HIDE DEF k
<1>2. JobsOk(k, a, prompt)
  BY <1>1 DEF JobsOk
<1> QED BY <1>1, <1>2 DEF k

LEMMA NoSubmitOk == NoSubmit \in SubmitJob /\ \A prompt : SubmitOk(NoSubmit, prompt)
<1>1. NoWallet \in Accounts /\ Nothing \in Owner
  BY WalletIds DEF Accounts
<1>2. NoSubmit \in SubmitJob
  BY <1>1 DEF NoSubmit, SubmitJob
<1>3. NoSubmit.pc = "idle"
  BY DEF NoSubmit
<1> QED BY <1>2, <1>3 DEF SubmitOk

LEMMA SubmissionStarts == ASSUME KYCPageIInv, SumsubComplete \/ HandleSubmit \/ SubmitFails PROVE KYCPageIInv'
<1>1. /\ JobsOk(job, account, seen.prompt) /\ RowsOk(request, seen.prompt) /\ seen.prompt \in BOOLEAN
      /\ ui.identity \in Owner
  BY PageFacts
<1>2. UNCHANGED <<account, ui, storeVars, session, request, seen>>
  BY DEF SumsubComplete, HandleSubmit, SubmitFails
<1>3. PICK s \in SubmitJob : SubmitOk(s, seen.prompt) /\ job' = [job EXCEPT !.submit = s]
  <2>1. CASE SumsubComplete
    <3> DEFINE s == [NoSubmit EXCEPT !.pc = "connect", !.identity = ui.identity]
    <3>1. job' = [job EXCEPT !.submit = s] /\ ui.identity \in Ids
      BY <1>1, <2>1, WalletIds DEF SumsubComplete, Widget
    <3>2. s \in SubmitJob /\ s.pc = "connect" /\ s.identity = ui.identity
      BY <1>1, NoSubmitOk DEF SubmitJob
    <3> HIDE DEF s
    <3>3. SubmitOk(s, seen.prompt)
      BY <3>1, <3>2 DEF SubmitOk
    <3> QED BY <3>1, <3>2, <3>3
  <2>2. CASE HandleSubmit
    <3> DEFINE s == [pc |-> "connect", identity |-> ui.identity, wallet |-> NoWallet, via |-> "local"]
    <3>1. job' = [job EXCEPT !.submit = s] /\ ui.identity \in Ids
      BY <1>1, <2>2, WalletIds DEF HandleSubmit
    <3>2. s \in SubmitJob /\ s.pc = "connect" /\ s.identity = ui.identity
      BY <1>1 DEF SubmitJob, Accounts
    <3> HIDE DEF s
    <3>3. SubmitOk(s, seen.prompt)
      BY <3>1, <3>2 DEF SubmitOk
    <3> QED BY <3>1, <3>2, <3>3
  <2>3. CASE SubmitFails
    BY <2>3, NoSubmitOk DEF SubmitFails
  <2> QED BY <2>1, <2>2, <2>3
<1>4. JobsOk(job', account, seen.prompt)
  BY <1>1, <1>3, SubmitMoves
<1> QED BY <1>1, <1>2, <1>4, HiddenStep

LEMMA SubmitConnectedKeeps == ASSUME KYCPageIInv, SubmitConnected PROVE KYCPageIInv'
<1>0. PICK w \in IF account = NoWallet THEN Wallets ELSE {account} :
         /\ account' = w
         /\ job' = [job EXCEPT !.submit = [@ EXCEPT !.pc = "post", !.wallet = w],
                               !.accounts = @ \/ account = NoWallet]
         /\ seen' = [seen EXCEPT !.prompt = @ \/ IdentityOf[w] # job.submit.identity]
  BY DEF SubmitConnected
<1> DEFINE s == [job.submit EXCEPT !.pc = "post", !.wallet = w]
           accounts == job.accounts \/ account = NoWallet
           prompt == seen.prompt \/ IdentityOf[w] # job.submit.identity
           j == [job EXCEPT !.submit = s, !.accounts = accounts]
<1>1. UNCHANGED <<ui, storeVars, session, request>> /\ job.submit.pc = "connect"
  BY DEF SubmitConnected
<1>2. /\ ui \in PageState /\ session \in SavedSession /\ seen \in PageHistory /\ account \in Accounts
      /\ ui.wallet \in {NoWallet, account} /\ (Clean(seen) => OwnPage(ui) /\ OwnSession(session, ui.identity))
      /\ JobsOk(job, account, seen.prompt) /\ RowsOk(request, seen.prompt) /\ StoreOk(seen.prompt)
      /\ seen.prompt \in BOOLEAN /\ job.submit \in SubmitJob /\ job \in PageJobs
  BY PageFacts
<1>3. w \in Wallets /\ w \in Accounts /\ account \in {NoWallet, w} /\ w # NoWallet
  BY <1>2, WalletIds DEF Accounts
<1>4. /\ s \in SubmitJob /\ s.pc = "post" /\ s.wallet = w /\ s.identity = job.submit.identity
  BY <1>2, <1>3 DEF SubmitJob
<1>5. /\ accounts \in BOOLEAN /\ prompt \in BOOLEAN /\ (seen.prompt => prompt)
      /\ ~prompt => IdentityOf[w] = s.identity
  BY <1>2, <1>4 DEF PageJobs
<1>6. s.identity \in Ids
  BY <1>1, <1>2, <1>4 DEF JobsOk, SubmitOk
<1>7. seen' = [seen EXCEPT !.prompt = prompt] /\ job' = j
  BY <1>0
<1> HIDE DEF s, accounts, prompt
<1>8. seen' \in PageHistory /\ seen'.prompt = prompt /\ (Clean(seen') => Clean(seen))
  BY <1>2, <1>5, <1>7 DEF PageHistory, Clean
<1>9. /\ j \in PageJobs /\ j.inits = job.inits /\ j.ref = job.ref /\ j.create = job.create /\ j.submit = s
  BY <1>2, <1>4, <1>5 DEF PageJobs
<1> HIDE DEF j
<1>10. InitsOk(job.inits, job.ref, prompt)
  BY <1>2, <1>5 DEF JobsOk, InitsOk
<1>11. CreateOk(job.create, w, prompt)
  <2>1. CreateOk(job.create, account, seen.prompt) /\ NoWallet \notin Wallets
    BY <1>2, WalletIds DEF JobsOk
  <2>2. CASE account = w
    BY <1>5, <2>1, <2>2 DEF CreateOk
  <2>3. CASE account = NoWallet
    BY <1>3, <1>5, <2>1, <2>3 DEF CreateOk
  <2> QED BY <1>3, <2>2, <2>3
<1>12. SubmitOk(s, prompt)
  BY <1>3, <1>4, <1>5, <1>6 DEF SubmitOk
<1>13. JobsOk(job', account', seen'.prompt)
  BY <1>0, <1>7, <1>8, <1>9, <1>10, <1>11, <1>12 DEF JobsOk
<1>14. StoreOk(prompt) /\ RowsOk(request, prompt)
  BY <1>2, <1>5, PromptGrows
<1>15. StoreOk(seen.prompt)'
  BY <1>1, <1>8, <1>14 DEF StoreOk, storeVars
<1>16. PageOk(ui, session, seen')
  BY <1>2, <1>8 DEF PageOk
<1>17. WalletOk(ui, w, prompt)
  BY <1>2, <1>3, <1>5 DEF KYCPageIInv, WalletOk
<1>18. /\ PageOk(ui, session, seen)' /\ WalletOk(ui, account, seen.prompt)'
       /\ JobsOk(job, account, seen.prompt)' /\ RowsOk(request, seen.prompt)'
  BY <1>0, <1>1, <1>8, <1>13, <1>14, <1>16, <1>17
<1> QED BY <1>15, <1>18 DEF KYCPageIInv

LEMMA SubmittedOk ==
    ASSUME NEW prompt \in BOOLEAN, RowsOk(request, prompt), NEW c \in Ids, NEW w \in Wallets,
           ~prompt => IdentityOf[w] = c
    PROVE  RowsOk(Submitted(c, w), prompt)
<1>1. w \in Accounts
  BY DEF Accounts
<1>2. PICK row \in ServerRow : row.fresh = w /\ Submitted(c, w) = [request EXCEPT ![c] = row]
  <2>1. CASE request[c].status = "pending"
    <3> DEFINE row == [request[c] EXCEPT !.fresh = w]
    <3>1. row \in ServerRow /\ row.fresh = w
      BY <1>1 DEF ServerRow, RowsOk
    <3>2. Submitted(c, w) = [request EXCEPT ![c] = row]
      BY <2>1 DEF Submitted
    <3> HIDE DEF row
    <3> QED BY <3>1, <3>2
  <2>2. CASE request[c].status # "pending"
    <3> DEFINE row == [status |-> "pending", type |-> "Accredited", fresh |-> w]
    <3>1. row \in ServerRow /\ row.fresh = w
      BY <1>1 DEF ServerRow
    <3>2. Submitted(c, w) = [request EXCEPT ![c] = row]
      BY <2>2 DEF Submitted
    <3> HIDE DEF row
    <3> QED BY <3>1, <3>2
  <2> QED BY <2>1, <2>2
<1> QED BY <1>2 DEF RowsOk

LEMMA SubmitAnsweredKeeps == ASSUME KYCPageIInv, SubmitAnswered PROVE KYCPageIInv'
<1> DEFINE c == job.submit.identity
           status == [of |-> c, is |-> "pending"]
           u == [ui EXCEPT !.stage = "submitted", !.status = status]
           v == [ui EXCEPT !.stage = "submitted"]
           j == [job EXCEPT !.submit = NoSubmit]
           checks == job.checks \cup {c}
           k == [job EXCEPT !.submit = NoSubmit, !.checks = checks]
<1>0. /\ request' = Submitted(c, job.submit.wallet) /\ seen' = Late(c) /\ job.submit.pc = "post"
      /\ UNCHANGED <<account, storeVars>>
      /\ \/ Render(u, NoSession) /\ job' = j
         \/ Render(v, session) /\ job' = k
  BY DEF SubmitAnswered
<1>1. /\ ui \in PageState /\ seen \in PageHistory /\ (Clean(seen) => OwnPage(ui)) /\ seen.prompt \in BOOLEAN
      /\ JobsOk(job, account, seen.prompt) /\ RowsOk(request, seen.prompt) /\ job.submit \in SubmitJob
      /\ job \in PageJobs /\ job.checks \subseteq Ids
  BY PageFacts
<1>2. /\ c \in Ids /\ job.submit.wallet \in Wallets
      /\ ~seen.prompt => IdentityOf[job.submit.wallet] = c
  BY <1>0, <1>1 DEF JobsOk, SubmitOk
<1>3. RowsOk(request', seen.prompt)
  <2> HIDE DEF c
  <2> QED BY <1>0, <1>1, <1>2, SubmittedOk
<1>4. JobsOk(j, account, seen.prompt) /\ j.checks = job.checks
  BY <1>1, NoSubmitOk, SubmitMoves
<1>5. JobsOk([j EXCEPT !.checks = @ \cup {c}], account, seen.prompt)
  <2> HIDE DEF j, c
  <2> QED BY <1>1, <1>2, <1>4, CheckAsked
<1>6. k = [j EXCEPT !.checks = @ \cup {c}]
  BY <1>1, <1>4, NoSubmitOk DEF PageJobs
<1>7. status \in [of : Owner, is : {"none", "pending", "decided"}] /\ status.of = c /\ "submitted" \in Stages
  BY <1>2, WalletIds DEF Stages
<1> HIDE DEF c, status, j, k
<1>8. /\ u \in PageState /\ u.wallet = ui.wallet /\ u.identity = ui.identity /\ u.document = ui.document
      /\ u.face = ui.face /\ u.match = ui.match /\ u.token = ui.token /\ u.status = status
  BY <1>1, <1>7 DEF PageState
<1>9. /\ v \in PageState /\ v.wallet = ui.wallet /\ v.identity = ui.identity
      /\ OwnPage(ui) => OwnPage(v)
  BY <1>1, <1>7, StageShown
<1> HIDE DEF u, v
<1>10. OwnPage(ui) /\ ui.identity = c => OwnPage(u)
  BY <1>7, <1>8 DEF OwnPage
<1>11. /\ seen' \in PageHistory /\ (seen.late => seen'.late) /\ seen'.prompt = seen.prompt
       /\ Clean(seen') => OwnPage(u) /\ OwnPage(v)
  BY <1>0, <1>1, <1>9, <1>10, LateFacts
<1>12. JobsOk(job', account, seen.prompt)
  BY <1>0, <1>4, <1>5, <1>6
<1>13. CASE Render(u, NoSession)
  BY <1>0, <1>3, <1>8, <1>11, <1>12, <1>13, ShownStep
<1>14. CASE Render(v, session)
  BY <1>0, <1>3, <1>9, <1>11, <1>12, <1>14, ShownStep
<1> QED BY <1>0, <1>13, <1>14

LEMMA ServerDecidesKeeps == ASSUME KYCPageIInv, ServerDecides PROVE KYCPageIInv'
<1>0. PICK c \in Ids : request' = [request EXCEPT ![c].status = "decided"]
  BY DEF ServerDecides
<1>1. UNCHANGED <<account, ui, job, storeVars, session, seen>>
  BY DEF ServerDecides
<1>2. JobsOk(job, account, seen.prompt) /\ RowsOk(request, seen.prompt)
  BY PageFacts
<1> DEFINE row == [request[c] EXCEPT !.status = "decided"]
<1>3. row \in ServerRow /\ row.fresh = request[c].fresh
  BY <1>2 DEF RowsOk, ServerRow
<1>4. request' = [request EXCEPT ![c] = row]
  BY <1>0
<1> HIDE DEF row
<1>5. RowsOk(request', seen.prompt)
  BY <1>2, <1>3, <1>4 DEF RowsOk
<1> QED BY <1>1, <1>2, <1>5, HiddenStep

LEMMA SessionExpiresKeeps == ASSUME KYCPageIInv, SessionExpires PROVE KYCPageIInv'
<1> DEFINE s == [session EXCEPT !.expired = TRUE]
<1>0. session' = s /\ session # NoSession /\ UNCHANGED <<account, ui, job, storeVars, request, seen>>
  BY DEF SessionExpires
<1>1. session \in SavedSession /\ session.stage # "none"
  BY <1>0, PageFacts DEF SavedSession
<1>2. /\ s \in SavedSession /\ s.document = session.document /\ s.face = session.face
      /\ s.match = session.match
  BY <1>1 DEF SavedSession
<1> HIDE DEF s
<1>3. PageOk(ui, s, seen)
  BY <1>2 DEF KYCPageIInv, PageOk, OwnSession
<1>4. StoreOk(seen.prompt)'
  BY <1>0 DEF KYCPageIInv, StoreOk, storeVars
<1>5. /\ PageOk(ui, session, seen)' /\ WalletOk(ui, account, seen.prompt)'
      /\ JobsOk(job, account, seen.prompt)' /\ RowsOk(request, seen.prompt)'
  BY <1>0, <1>3 DEF KYCPageIInv
<1> QED BY <1>4, <1>5 DEF KYCPageIInv

LEMMA BlankOk ==
    /\ BlankPage \in PageState /\ BlankPage.wallet = NoWallet /\ BlankPage.identity = Nothing
    /\ OwnPage(BlankPage) /\ \A s : OwnSession(s, Nothing)
    /\ \A a, prompt : JobsOk(NoJobs, a, prompt)
<1>1. NoWallet \in Accounts /\ Nothing \in Owner
  BY WalletIds DEF Accounts
<1> DEFINE status == [of |-> Nothing, is |-> "none"]
<1>2. status \in [of : Owner, is : {"none", "pending", "decided"}] /\ status.of = Nothing
  BY <1>1
<1>3. BlankPage.status = status
  BY DEF BlankPage
<1>4. "identity" \in Stages
  BY DEF Stages
<1>5. BlankPage \in PageState
  <2> HIDE DEF status
  <2>1. BlankPage =
         [wallet |-> NoWallet, identity |-> Nothing, stage |-> "identity", available |-> FALSE,
          token |-> Nothing, document |-> Nothing, face |-> Nothing, match |-> Nothing,
          live |-> FALSE, status |-> status, reading |-> FALSE]
    BY DEF BlankPage, status
  <2> QED BY <1>1, <1>2, <1>4, <2>1 DEF PageState
<1>6. OwnPage(BlankPage) /\ BlankPage.wallet = NoWallet /\ BlankPage.identity = Nothing
  BY DEF OwnPage, BlankPage
<1>7. ASSUME NEW a, NEW prompt PROVE JobsOk(NoJobs, a, prompt)
  <2>1. /\ NoJobs.inits = {} /\ NoJobs.ref = Nothing /\ NoJobs.create = NoCreate /\ NoJobs.submit = NoSubmit
    BY DEF NoJobs
  <2>2. NoJobs \in PageJobs
    BY <1>1, NoCreateOk, NoSubmitOk DEF NoJobs, PageJobs
  <2>3. InitsOk({}, Nothing, prompt)
    BY DEF InitsOk
  <2> QED BY <2>1, <2>2, <2>3, NoCreateOk, NoSubmitOk DEF JobsOk
<1> QED BY <1>5, <1>6, <1>7 DEF OwnSession

LEMMA ReloadKeeps == ASSUME KYCPageIInv, Reload PROVE KYCPageIInv'
<1>0. /\ ui' = BlankPage /\ job' = NoJobs /\ session' \in {session, NoSession}
      /\ UNCHANGED <<account, storeVars, request, seen>>
  BY DEF Reload
<1>1. session \in SavedSession /\ seen \in PageHistory /\ account \in Accounts
  BY PageFacts
<1>2. session' \in SavedSession
  BY <1>0, <1>1, NoSessionSaved
<1>3. PageOk(BlankPage, session', seen)
  BY <1>1, <1>2, BlankOk DEF PageOk
<1>4. WalletOk(BlankPage, account, seen.prompt)
  BY <1>1, BlankOk DEF WalletOk
<1>5. StoreOk(seen.prompt)'
  BY <1>0 DEF KYCPageIInv, StoreOk, storeVars
<1>6. /\ PageOk(ui, session, seen)' /\ WalletOk(ui, account, seen.prompt)'
      /\ JobsOk(job, account, seen.prompt)' /\ RowsOk(request, seen.prompt)'
  BY <1>0, <1>3, <1>4, BlankOk DEF KYCPageIInv
<1> QED BY <1>5, <1>6 DEF KYCPageIInv

LEMMA KYCPageStarts == ASSUME KYCPageInit PROVE KYCPageIInv
<1>1. account \in Accounts /\ ui = BlankPage /\ job = NoJobs /\ session = NoSession
  BY DEF KYCPageInit, Accounts
<1>2. seen \in PageHistory
  BY DEF KYCPageInit, PageHistory
<1>3. PageOk(ui, session, seen)
  BY <1>1, <1>2, BlankOk, NoSessionSaved DEF PageOk
<1>4. WalletOk(ui, account, seen.prompt)
  BY <1>1, BlankOk DEF WalletOk
<1>5. StoreOk(seen.prompt)
  <2>1. identities = [w \in Wallets |-> NoIdentity] /\ NoIdentity \in Owner
    BY WalletIds DEF KYCPageInit, StoreInit
  <2>2. legacy = NoLegacy \/ \E w \in LegacyWallets, tag \in LegacyWallets \cup {NoWallet} :
              tag \in {w, NoWallet} /\ legacy = [identity |-> IdentityOf[w], wallet |-> tag]
    BY DEF KYCPageInit, StoreInit
  <2>3. LegacyWallets \subseteq Wallets
    BY IdentityStoreAssumption
  <2>4. legacy.identity # NoIdentity /\ legacy.wallet # NoWallet =>
           legacy.wallet \in Wallets /\ legacy.identity = IdentityOf[legacy.wallet]
    BY <2>2, <2>3 DEF NoLegacy
  <2> QED BY <2>1, <2>4 DEF StoreOk
<1>6. RowsOk(request, seen.prompt)
  <2>1. NoRequest \in ServerRow /\ NoRequest.fresh = NoWallet
    BY DEF NoRequest, ServerRow, Accounts
  <2>2. request = [c \in Ids |-> NoRequest]
    BY DEF KYCPageInit
  <2> QED BY <2>1, <2>2 DEF RowsOk
<1> QED BY <1>1, <1>3, <1>4, <1>5, <1>6, BlankOk DEF KYCPageIInv

LEMMA KYCPageStep ==
    ASSUME KYCPageIInv, [KYCPageNext]_<<kycPageVars, storeVars>>
    PROVE  KYCPageIInv'
<1>1. CASE AccountKnown \/ SwitchAccount \/ ConfigKnown \/ Reload \/ SessionExpires
  BY <1>1, AccountKnownKeeps, SwitchAccountKeeps, ConfigKnownKeeps, ReloadKeeps, SessionExpiresKeeps
<1>2. CASE ClickCreate \/ CreateConnected \/ CreateIdentityHere \/ CreateDeclined \/ CreateChecked
  BY <1>2, ClickCreateKeeps, CreateConnectedKeeps, CreateIdentityHereKeeps, CreateDeclinedKeeps,
     CreateCheckedKeeps
<1>3. CASE \E i \in job.inits : KYCPageAnswer(i) \/ InitRetried(i)
  BY <1>3, InitAnsweredKeeps, InitRetriedKeeps
<1>4. CASE ChooseSumsub \/ TokenExpires \/ TokenRenewed \/ SumsubComplete \/ SwitchMethod \/ StartOver
  BY <1>4, ChooseSumsubKeeps, Started, TokenRenewedKeeps, SubmissionStarts, StagesChange, StartOverKeeps
<1>5. CASE StartLocalFlow \/ Upload \/ TextRead \/ FaceRead \/ ProceedToSelfie \/ Capture \/ Captured
  BY <1>5, StagesChange, UploadKeeps, TextReadKeeps, FaceReadKeeps, Started, CapturedKeeps
<1>6. CASE StopScanning \/ StartLivenessCheck \/ BlinkSeen \/ LoopEnds \/ SkipLiveness
  BY <1>6, Started, LivenessPassed
<1>7. CASE \/ HandleSubmit \/ SubmitConnected \/ SubmitAnswered \/ SubmitFails \/ Poll \/ StatusAnswered
           \/ ServerDecides
  BY <1>7, SubmissionStarts, SubmitConnectedKeeps, SubmitAnsweredKeeps, Started, StatusAnsweredKeeps,
     ServerDecidesKeeps
<1>8. CASE UNCHANGED <<kycPageVars, storeVars>>
  <2>1. UNCHANGED <<account, ui, session, storeVars, seen, job, request>>
    BY <1>8 DEF kycPageVars
  <2> QED BY <2>1, HiddenStep, PageFacts
<1> QED BY <1>1, <1>2, <1>3, <1>4, <1>5, <1>6, <1>7, <1>8 DEF KYCPageNext

LEMMA KYCPageImplied == ASSUME KYCPageIInv PROVE KYCPageInv
<1>1. /\ ui \in PageState /\ session \in SavedSession /\ seen \in PageHistory /\ job \in PageJobs
      /\ account \in Accounts /\ ui.identity \in Owner
      /\ (Clean(seen) => OwnPage(ui) /\ OwnSession(session, ui.identity))
      /\ JobsOk(job, account, seen.prompt) /\ RowsOk(request, seen.prompt)
      /\ job.inits \subseteq Inits /\ job.loops \in 0..2
  BY PageFacts
<1>2. KYCPageTypeOK
  <2>1. account \in Wallets \cup {NoWallet} /\ ui.wallet \in Wallets \cup {NoWallet} /\ ui.stage \in Stages
    BY <1>1 DEF Accounts, PageState
  <2>2. {ui.identity, ui.token, ui.document, ui.face, ui.match} \subseteq Owner /\ ui.status.of \in Owner
    BY <1>1 DEF PageState
  <2>3. job.ref \in Owner /\ session.stage \in Stages \cup {"none"}
    BY <1>1 DEF PageJobs, SavedSession
  <2>4. \A c \in Ids : request[c].status \in {"none", "pending", "decided"}
    BY <1>1 DEF RowsOk, ServerRow
  <2> QED BY <1>1, <2>1, <2>2, <2>3, <2>4 DEF KYCPageTypeOK
<1>3. PageIsOwn
  BY <1>1 DEF PageIsOwn, OwnPage, Clean
<1>4. SessionIsOwn
  BY <1>1 DEF SessionIsOwn, OwnSession, Clean
<1>5. FreshnessPaired
  BY <1>1 DEF FreshnessPaired, RowsOk
<1>6. OneLiveInit
  <2> DEFINE alive == {i \in job.inits : ~i.aborted}
  <2>1. {i.for : i \in alive} \subseteq {job.ref} /\ \A i, k \in alive : i = k
    BY <1>1 DEF JobsOk, InitsOk
  <2>2. Cardinality(alive) <= 1
    <3>1. CASE alive = {}
      BY <3>1, FS_EmptySet
    <3>2. CASE alive # {}
      <4>1. PICK i \in alive : alive = {i}
        BY <2>1, <3>2
      <4> HIDE DEF alive
      <4> QED BY <4>1, FS_Singleton
    <3> QED BY <3>1, <3>2
  <2> QED BY <2>1, <2>2 DEF OneLiveInit
<1> QED BY <1>2, <1>3, <1>4, <1>5, <1>6 DEF KYCPageInv

(* Whoever the user is with, the page, the session it saved and the        *)
(* server's rows hold what belongs to the identity they are of, unless an  *)
(* answer came late or the account was changed in a prompt: for any        *)
(* wallets, any earlier identity and any number of moves.                  *)
THEOREM PageBelongsToItsIdentity == KYCPageSpec => []KYCPageInv
<1>1. KYCPageInit => KYCPageIInv
  BY KYCPageStarts
<1>2. KYCPageIInv /\ [KYCPageNext]_<<kycPageVars, storeVars>> => KYCPageIInv'
  BY KYCPageStep
<1>3. KYCPageIInv => KYCPageInv
  BY KYCPageImplied
<1> QED BY <1>1, <1>2, <1>3, PTL DEF KYCPageSpec

-----------------------------------------------------------------------------
(* The tree of freshness.ts, for any depth and any leaves.                 *)

(* Induction over the levels.                                              *)
LEMMA LevelInduction ==
    ASSUME NEW T, 0 \in T, \A m \in 0..(Depth - 1) : m \in T => m + 1 \in T
    PROVE  \A l \in 0..Depth : l \in T
<1> DEFINE Bad == {l \in 0..Depth : l \notin T}
<1>0. Depth \in Nat \ {0}
  BY TreeAssumption
<1>1. ASSUME Bad # {} PROVE FALSE
  <2>1. PICK m \in Bad : \A k \in Bad : m <= k
    <3>1. Bad \subseteq Nat
      BY <1>0
    <3> HIDE DEF Bad
    <3> QED BY <1>1, <3>1, LeastElement
  <2>2. m \in 1..Depth /\ m \notin T
    BY <1>0, <2>1
  <2>3. m - 1 \in 0..Depth /\ m - 1 \in 0..(Depth - 1) /\ (m - 1) + 1 = m /\ ~ (m <= m - 1)
    BY <1>0, <2>2
  <2>4. m - 1 \notin Bad
    <3> HIDE DEF Bad
    <3> QED BY <2>1, <2>3
  <2> QED BY <2>2, <2>3, <2>4
<1> QED BY <1>1

(* The recursive functions over the levels exist, so they are what their   *)
(* definitions say.                                                        *)
LEMMA ZeroRootsAre ==
    /\ ZeroRoots(0) = ZeroLeaf
    /\ \A l \in 1..Depth : ZeroRoots(l) = <<ZeroRoots(l - 1), ZeroRoots(l - 1)>>
<1> DEFINE Upto(f, m) == f = [i \in 0..m |-> IF i = 0 THEN ZeroLeaf ELSE <<f[i - 1], f[i - 1]>>]
           Built == {m \in 0..Depth : \E f : Upto(f, m)}
<1>0. Depth \in Nat \ {0} /\ 0 \in 0..Depth /\ Depth \in 0..Depth
  BY TreeAssumption
<1>1. 0 \in Built
  <2> DEFINE f == [i \in 0..0 |-> ZeroLeaf]
  <2>1. Upto(f, 0)
    OBVIOUS
  <2> QED BY <1>0, <2>1
<1>2. ASSUME NEW m \in 0..(Depth - 1), m \in Built PROVE m + 1 \in Built
  <2>1. PICK f : Upto(f, m)
    BY <1>2
  <2>2. m \in Nat /\ m \in 0..(m + 1) /\ m + 1 \in 0..Depth /\ m # m + 1 /\ (m + 1) - 1 = m
    BY <1>0
  <2> DEFINE g == [i \in 0..(m + 1) |-> IF i = m + 1 THEN <<f[m], f[m]>> ELSE f[i]]
  <2>3. \A i \in 0..m : f[i] = IF i = 0 THEN ZeroLeaf ELSE <<f[i - 1], f[i - 1]>>
    BY <2>1, Zenon
  <2>4. \A i \in 0..(m + 1) : g[i] = IF i = m + 1 THEN <<f[m], f[m]>> ELSE f[i]
    OBVIOUS
  <2>5. g[m] = f[m]
    BY <2>2, <2>4
  <2>6. \A i \in 0..(m + 1) : g[i] = IF i = 0 THEN ZeroLeaf ELSE <<g[i - 1], g[i - 1]>>
    <3> TAKE i \in 0..(m + 1)
    <3>1. CASE i = m + 1
      <4>1. i # 0 /\ i - 1 = m
        BY <2>2, <3>1
      <4> QED BY <2>4, <2>5, <3>1, <4>1
    <3>2. CASE i # m + 1 /\ i = 0
      <4>1. i \in 0..m
        BY <2>2, <3>2
      <4> QED BY <2>3, <2>4, <3>2, <4>1
    <3>3. CASE i # m + 1 /\ i # 0
      <4>1. i \in 0..m /\ i - 1 \in 0..(m + 1) /\ i - 1 # m + 1
        BY <2>2, <3>3
      <4>2. g[i] = f[i] /\ g[i - 1] = f[i - 1]
        BY <2>4, <3>3, <4>1
      <4> QED BY <2>3, <3>3, <4>1, <4>2
    <3> QED BY <3>1, <3>2, <3>3
  <2>7. g = [i \in 0..(m + 1) |-> g[i]]
    OBVIOUS
  <2> HIDE DEF g
  <2>8. Upto(g, m + 1)
    BY <2>6, <2>7
  <2> QED BY <2>2, <2>8
<1>3. \A l \in 0..Depth : l \in Built
  <2> HIDE DEF Built
  <2> QED BY <1>1, <1>2, LevelInduction
<1>4. PICK f : Upto(f, Depth)
  BY <1>0, <1>3
<1> DEFINE z == ZeroRootsFrom
<1>5. z = [i \in 0..Depth |-> IF i = 0 THEN ZeroLeaf ELSE <<z[i - 1], z[i - 1]>>]
  BY <1>4, Zenon DEF ZeroRootsFrom
<1> HIDE DEF z
<1>6. \A i \in 0..Depth : z[i] = IF i = 0 THEN ZeroLeaf ELSE <<z[i - 1], z[i - 1]>>
  BY <1>5, Zenon
<1>7. ASSUME NEW l \in 1..Depth PROVE z[l] = <<z[l - 1], z[l - 1]>>
  <2>1. l \in 0..Depth /\ l # 0
    BY <1>0
  <2> QED BY <1>6, <2>1
<1> QED BY <1>0, <1>6, <1>7 DEF z, ZeroRoots

LEMMA LayersAre ==
    ASSUME NEW leaves
    PROVE  /\ Layers(leaves)[0] = leaves
           /\ \A l \in 1..Depth : Layers(leaves)[l] = NextLayer(Layers(leaves)[l - 1], l - 1)
<1> DEFINE Upto(f, m) == f = [i \in 0..m |-> IF i = 0 THEN leaves ELSE NextLayer(f[i - 1], i - 1)]
           Built == {m \in 0..Depth : \E f : Upto(f, m)}
<1>0. Depth \in Nat \ {0} /\ 0 \in 0..Depth /\ Depth \in 0..Depth
  BY TreeAssumption
<1>1. 0 \in Built
  <2> DEFINE f == [i \in 0..0 |-> leaves]
  <2>1. Upto(f, 0)
    OBVIOUS
  <2> QED BY <1>0, <2>1
<1>2. ASSUME NEW m \in 0..(Depth - 1), m \in Built PROVE m + 1 \in Built
  <2>1. PICK f : Upto(f, m)
    BY <1>2
  <2>2. m \in Nat /\ m \in 0..(m + 1) /\ m + 1 \in 0..Depth /\ m # m + 1 /\ (m + 1) - 1 = m
    BY <1>0
  <2> DEFINE g == [i \in 0..(m + 1) |-> IF i = m + 1 THEN NextLayer(f[m], m) ELSE f[i]]
  <2>3. \A i \in 0..m : f[i] = IF i = 0 THEN leaves ELSE NextLayer(f[i - 1], i - 1)
    BY <2>1, Zenon
  <2>4. \A i \in 0..(m + 1) : g[i] = IF i = m + 1 THEN NextLayer(f[m], m) ELSE f[i]
    OBVIOUS
  <2>5. g[m] = f[m]
    BY <2>2, <2>4
  <2>6. \A i \in 0..(m + 1) : g[i] = IF i = 0 THEN leaves ELSE NextLayer(g[i - 1], i - 1)
    <3> TAKE i \in 0..(m + 1)
    <3>1. CASE i = m + 1
      <4>1. i # 0 /\ i - 1 = m
        BY <2>2, <3>1
      <4> QED BY <2>4, <2>5, <3>1, <4>1
    <3>2. CASE i # m + 1 /\ i = 0
      <4>1. i \in 0..m
        BY <2>2, <3>2
      <4> QED BY <2>3, <2>4, <3>2, <4>1
    <3>3. CASE i # m + 1 /\ i # 0
      <4>1. i \in 0..m /\ i - 1 \in 0..(m + 1) /\ i - 1 # m + 1
        BY <2>2, <3>3
      <4>2. g[i] = f[i] /\ g[i - 1] = f[i - 1]
        BY <2>4, <3>3, <4>1
      <4> QED BY <2>3, <3>3, <4>1, <4>2
    <3> QED BY <3>1, <3>2, <3>3
  <2>7. g = [i \in 0..(m + 1) |-> g[i]]
    OBVIOUS
  <2> HIDE DEF g
  <2>8. Upto(g, m + 1)
    BY <2>6, <2>7
  <2> QED BY <2>2, <2>8
<1>3. \A l \in 0..Depth : l \in Built
  <2> HIDE DEF Built
  <2> QED BY <1>1, <1>2, LevelInduction
<1>4. PICK f : Upto(f, Depth)
  BY <1>0, <1>3
<1> DEFINE z == Layers(leaves)
<1>5. z = [i \in 0..Depth |-> IF i = 0 THEN leaves ELSE NextLayer(z[i - 1], i - 1)]
  BY <1>4, Zenon DEF Layers
<1> HIDE DEF z
<1>6. \A i \in 0..Depth : z[i] = IF i = 0 THEN leaves ELSE NextLayer(z[i - 1], i - 1)
  BY <1>5, Zenon
<1>7. ASSUME NEW l \in 1..Depth PROVE z[l] = NextLayer(z[l - 1], l - 1)
  <2>1. l \in 0..Depth /\ l # 0
    BY <1>0
  <2> QED BY <1>6, <2>1
<1> QED BY <1>0, <1>6, <1>7 DEF z

LEMMA CountsExist ==
    ASSUME NEW step \in [Nat -> Nat], NEW start \in Nat
    PROVE  \E f : f = [i \in 0..Depth |-> IF i = 0 THEN start ELSE step[f[i - 1]]]
<1> DEFINE Upto(f, m) == f = [i \in 0..m |-> IF i = 0 THEN start ELSE step[f[i - 1]]]
           Built == {m \in 0..Depth : \E f : Upto(f, m)}
<1>0. Depth \in Nat \ {0} /\ 0 \in 0..Depth /\ Depth \in 0..Depth
  BY TreeAssumption
<1>1. 0 \in Built
  <2> DEFINE f == [i \in 0..0 |-> start]
  <2>1. Upto(f, 0)
    OBVIOUS
  <2> QED BY <1>0, <2>1
<1>2. ASSUME NEW m \in 0..(Depth - 1), m \in Built PROVE m + 1 \in Built
  <2>1. PICK f : Upto(f, m)
    BY <1>2
  <2>2. m \in Nat /\ m \in 0..(m + 1) /\ m + 1 \in 0..Depth /\ m # m + 1 /\ (m + 1) - 1 = m
    BY <1>0
  <2> DEFINE g == [i \in 0..(m + 1) |-> IF i = m + 1 THEN step[f[m]] ELSE f[i]]
  <2>3. \A i \in 0..m : f[i] = IF i = 0 THEN start ELSE step[f[i - 1]]
    BY <2>1, Zenon
  <2>4. \A i \in 0..(m + 1) : g[i] = IF i = m + 1 THEN step[f[m]] ELSE f[i]
    OBVIOUS
  <2>5. g[m] = f[m]
    BY <2>2, <2>4
  <2>6. \A i \in 0..(m + 1) : g[i] = IF i = 0 THEN start ELSE step[g[i - 1]]
    <3> TAKE i \in 0..(m + 1)
    <3>1. CASE i = m + 1
      <4>1. i # 0 /\ i - 1 = m
        BY <2>2, <3>1
      <4> QED BY <2>4, <2>5, <3>1, <4>1
    <3>2. CASE i # m + 1 /\ i = 0
      <4>1. i \in 0..m
        BY <2>2, <3>2
      <4> QED BY <2>3, <2>4, <3>2, <4>1
    <3>3. CASE i # m + 1 /\ i # 0
      <4>1. i \in 0..m /\ i - 1 \in 0..(m + 1) /\ i - 1 # m + 1
        BY <2>2, <3>3
      <4>2. g[i] = f[i] /\ g[i - 1] = f[i - 1]
        BY <2>4, <3>3, <4>1
      <4> QED BY <2>3, <3>3, <4>1, <4>2
    <3> QED BY <3>1, <3>2, <3>3
  <2>7. g = [i \in 0..(m + 1) |-> g[i]]
    OBVIOUS
  <2> HIDE DEF g
  <2>8. Upto(g, m + 1)
    BY <2>6, <2>7
  <2> QED BY <2>2, <2>8
<1>3. \A l \in 0..Depth : l \in Built
  <2> HIDE DEF Built
  <2> QED BY <1>1, <1>2, LevelInduction
<1>4. PICK f : Upto(f, Depth)
  BY <1>0, <1>3
<1> QED BY <1>4

LEMMA CountsAre ==
    ASSUME NEW step \in [Nat -> Nat], NEW start \in Nat, NEW z,
           z = [i \in 0..Depth |-> IF i = 0 THEN start ELSE step[z[i - 1]]]
    PROVE  /\ z[0] = start
           /\ \A l \in 1..Depth : z[l] = step[z[l - 1]]
           /\ \A l \in 0..Depth : z[l] \in Nat
<1> DEFINE T == {l \in 0..Depth : z[l] \in Nat}
<1>0. Depth \in Nat \ {0} /\ 0 \in 0..Depth
  BY TreeAssumption
<1>1. \A i \in 0..Depth : z[i] = IF i = 0 THEN start ELSE step[z[i - 1]]
  BY Zenon
<1>2. z[0] = start
  BY <1>0, <1>1
<1>3. ASSUME NEW l \in 1..Depth PROVE z[l] = step[z[l - 1]]
  <2>1. l \in 0..Depth /\ l # 0
    BY <1>0
  <2> QED BY <1>1, <2>1
<1>4. 0 \in T
  BY <1>0, <1>2
<1>5. ASSUME NEW m \in 0..(Depth - 1), m \in T PROVE m + 1 \in T
  <2>1. m + 1 \in 1..Depth /\ m + 1 \in 0..Depth /\ (m + 1) - 1 = m
    BY <1>0
  <2>2. z[m + 1] = step[z[m]]
    BY <1>3, <2>1
  <2> QED BY <1>5, <2>1, <2>2
<1>6. \A l \in 0..Depth : l \in T
  <2> HIDE DEF T
  <2> QED BY <1>4, <1>5, LevelInduction
<1> QED BY <1>2, <1>3, <1>6

LEMMA WidthIs ==
    /\ Width[0] = 1
    /\ \A l \in 1..Depth : Width[l] = 2 * Width[l - 1]
    /\ \A l \in 0..Depth : Width[l] \in Nat \ {0}
<1> DEFINE double == [n \in Nat |-> 2 * n]
           z == Width
           T == {l \in 0..Depth : z[l] \in Nat \ {0}}
<1>0. Depth \in Nat \ {0} /\ 0 \in 0..Depth
  BY TreeAssumption
<1>1. PICK f : f = [i \in 0..Depth |-> IF i = 0 THEN 1 ELSE double[f[i - 1]]]
  <2>1. double \in [Nat -> Nat] /\ 1 \in Nat
    OBVIOUS
  <2> HIDE DEF double
  <2> QED BY <2>1, CountsExist
<1>2. \A i \in 0..Depth : (IF i = 0 THEN 1 ELSE double[f[i - 1]]) = (IF i = 0 THEN 1 ELSE 2 * f[i - 1])
  <2>1. double \in [Nat -> Nat] /\ 1 \in Nat
    OBVIOUS
  <2>2. \A l \in 0..Depth : f[l] \in Nat
    <3> HIDE DEF double
    <3> QED BY <1>1, <2>1, CountsAre
  <2>3. ASSUME NEW i \in 0..Depth, i # 0 PROVE double[f[i - 1]] = 2 * f[i - 1]
    <3>1. i - 1 \in 0..Depth
      BY <1>0, <2>3
    <3>2. f[i - 1] \in Nat
      BY <2>2, <3>1
    <3> QED BY <3>2
  <2> QED BY <2>3
<1>3. f = [i \in 0..Depth |-> IF i = 0 THEN 1 ELSE 2 * f[i - 1]]
  <2> HIDE DEF double
  <2> QED BY <1>1, <1>2
<1>4. z = [i \in 0..Depth |-> IF i = 0 THEN 1 ELSE 2 * z[i - 1]]
  BY <1>3, Zenon DEF Width
<1> HIDE DEF z, double
<1>5. \A i \in 0..Depth : z[i] = IF i = 0 THEN 1 ELSE 2 * z[i - 1]
  BY <1>4, Zenon
<1>6. ASSUME NEW l \in 1..Depth PROVE z[l] = 2 * z[l - 1]
  <2>1. l \in 0..Depth /\ l # 0
    BY <1>0
  <2> QED BY <1>5, <2>1
<1>7. z[0] = 1
  BY <1>0, <1>5
<1>8. ASSUME NEW m \in 0..(Depth - 1), m \in T PROVE m + 1 \in T
  <2>1. m + 1 \in 1..Depth /\ m + 1 \in 0..Depth /\ (m + 1) - 1 = m
    BY <1>0
  <2>2. z[m + 1] = 2 * z[m]
    BY <1>6, <2>1
  <2> QED BY <1>8, <2>1, <2>2
<1>9. 0 \in T
  BY <1>0, <1>7
<1>10. \A l \in 0..Depth : l \in T
  <2> HIDE DEF T
  <2> QED BY <1>8, <1>9, LevelInduction
<1> QED BY <1>6, <1>7, <1>10 DEF z

(* The positions above an index, a level at a time.                        *)
Above(node, index) ==
    /\ node[0] = index
    /\ \A l \in 1..Depth : node[l] = node[l - 1] \div 2
    /\ \A l \in 0..Depth : node[l] \in Nat

PathOf(leaves, node) ==
    [level \in 0..(Depth - 1) |->
        [sibling |-> LET n == node[level]
                     IN NodeAt(Layers(leaves)[level], IF n % 2 = 0 THEN n + 1 ELSE n - 1, level),
         right |-> node[level] % 2 = 1]]

LEMMA NodesAre ==
    ASSUME NEW leaves, NEW index \in Nat
    PROVE  \E node : Above(node, index) /\ TreeProof(leaves, index) = PathOf(leaves, node)
<1> DEFINE half == [n \in Nat |-> n \div 2]
           z == CHOOSE node : node = [i \in 0..Depth |-> IF i = 0 THEN index ELSE node[i - 1] \div 2]
           T == {l \in 0..Depth : z[l] \in Nat}
<1>0. Depth \in Nat \ {0} /\ 0 \in 0..Depth
  BY TreeAssumption
<1>1. PICK f : f = [i \in 0..Depth |-> IF i = 0 THEN index ELSE half[f[i - 1]]]
  <2>1. half \in [Nat -> Nat]
    OBVIOUS
  <2> HIDE DEF half
  <2> QED BY <2>1, CountsExist
<1>2. \A i \in 0..Depth :
        (IF i = 0 THEN index ELSE half[f[i - 1]]) = (IF i = 0 THEN index ELSE f[i - 1] \div 2)
  <2>1. half \in [Nat -> Nat]
    OBVIOUS
  <2>2. \A l \in 0..Depth : f[l] \in Nat
    <3> HIDE DEF half, z, T
    <3> SUFFICES ASSUME NEW step \in [Nat -> Nat], NEW y,
                        y = [i \in 0..Depth |-> IF i = 0 THEN index ELSE step[y[i - 1]]]
                 PROVE  \A l \in 0..Depth : y[l] \in Nat
      BY <1>1, <2>1
    <3> QED BY CountsAre
  <2>3. ASSUME NEW i \in 0..Depth, i # 0 PROVE half[f[i - 1]] = f[i - 1] \div 2
    <3>1. i - 1 \in 0..Depth
      BY <1>0, <2>3
    <3>2. f[i - 1] \in Nat
      BY <2>2, <3>1
    <3> QED BY <3>2
  <2> QED BY <2>3
<1>3. f = [i \in 0..Depth |-> IF i = 0 THEN index ELSE f[i - 1] \div 2]
  <2> HIDE DEF half
  <2> QED BY <1>1, <1>2
<1>4. z = [i \in 0..Depth |-> IF i = 0 THEN index ELSE z[i - 1] \div 2]
  BY <1>3, Zenon
<1>5. TreeProof(leaves, index) = PathOf(leaves, z)
  BY Zenon DEF TreeProof, PathOf
<1> HIDE DEF z, half
<1>6. \A i \in 0..Depth : z[i] = IF i = 0 THEN index ELSE z[i - 1] \div 2
  BY <1>4, Zenon
<1>7. ASSUME NEW l \in 1..Depth PROVE z[l] = z[l - 1] \div 2
  <2>1. l \in 0..Depth /\ l # 0
    BY <1>0
  <2> QED BY <1>6, <2>1
<1>8. z[0] = index
  BY <1>0, <1>6
<1>9. ASSUME NEW m \in 0..(Depth - 1), m \in T PROVE m + 1 \in T
  <2>1. m + 1 \in 1..Depth /\ m + 1 \in 0..Depth /\ (m + 1) - 1 = m
    BY <1>0
  <2>2. z[m + 1] = z[m] \div 2
    BY <1>7, <2>1
  <2> QED BY <1>9, <2>1, <2>2
<1>10. 0 \in T
  BY <1>0, <1>8
<1>11. \A l \in 0..Depth : l \in T
  <2> HIDE DEF T
  <2> QED BY <1>9, <1>10, LevelInduction
<1>12. Above(z, index)
  BY <1>7, <1>8, <1>11 DEF Above
<1> QED BY <1>5, <1>12

(* An index below the width is of the leaf under the root.                 *)
LEMMA RootAbove ==
    ASSUME NEW index \in Nat, index < Width[Depth], NEW node, Above(node, index)
    PROVE  node[Depth] = 0
<1> DEFINE T == {l \in 0..Depth : node[l] < Width[Depth - l]}
<1>0. Depth \in Nat \ {0} /\ 0 \in 0..Depth /\ Depth \in 0..Depth
  BY TreeAssumption
<1>1. 0 \in T
  BY <1>0 DEF Above
<1>2. ASSUME NEW m \in 0..(Depth - 1), m \in T PROVE m + 1 \in T
  <2>1. /\ m \in 0..Depth /\ m + 1 \in 1..Depth /\ m + 1 \in 0..Depth /\ (m + 1) - 1 = m
        /\ Depth - m \in 1..Depth /\ Depth - (m + 1) \in 0..Depth /\ (Depth - m) - 1 = Depth - (m + 1)
    BY <1>0
  <2> DEFINE w == Width[Depth - (m + 1)]
             n == node[m]
  <2>2. Width[Depth - m] = 2 * w /\ w \in Nat
    BY <2>1, WidthIs
  <2>3. node[m + 1] = n \div 2 /\ n \in Nat
    BY <2>1 DEF Above
  <2>4. n < 2 * w
    BY <1>2, <2>2
  <2> HIDE DEF n, w
  <2>5. n \div 2 < w
    BY <2>2, <2>3, <2>4
  <2> QED BY <2>1, <2>3, <2>5 DEF w
<1>3. \A l \in 0..Depth : l \in T
  <2> HIDE DEF T
  <2> QED BY <1>1, <1>2, LevelInduction
<1>4. Depth \in T
  BY <1>0, <1>3
<1>5. node[Depth] < Width[Depth - Depth] /\ node[Depth] \in Nat /\ Depth - Depth = 0
  BY <1>0, <1>4 DEF Above
<1> QED BY <1>5, WidthIs

LEMMA NextLayerIs ==
    ASSUME NEW S, NEW layer \in Seq(S), NEW level \in 0..(Depth - 1)
    PROVE  /\ \E U : NextLayer(layer, level) \in Seq(U)
           /\ Len(NextLayer(layer, level)) \in Nat \ {0}
           /\ \A i \in Nat : NodeAt(NextLayer(layer, level), i, level + 1) =
                                 <<NodeAt(layer, 2 * i, level), NodeAt(layer, 2 * i + 1, level)>>
<1> DEFINE n == IF layer = << >> THEN 1 ELSE Len(layer)
           half == (n + 1) \div 2
           pair(k) == <<NodeAt(layer, 2 * (k - 1), level), NodeAt(layer, 2 * (k - 1) + 1, level)>>
           next == NextLayer(layer, level)
           U == {pair(k) : k \in 1..half}
<1>0. Depth \in Nat \ {0} /\ level + 1 \in 1..Depth /\ (level + 1) - 1 = level
  BY TreeAssumption
<1>1. n \in Nat \ {0} /\ (layer # << >> => n = Len(layer)) /\ (layer = << >> => Len(layer) = 0 /\ n = 1)
      /\ Len(layer) \in Nat
  OBVIOUS
<1> HIDE DEF n
<1>2. half \in Nat \ {0} /\ (\A i \in Nat : i < half \/ 2 * i >= n)
  BY <1>1
<1>3. next = [k \in 1..half |-> pair(k)]
  BY DEF NextLayer, n
<1> HIDE DEF half, next
<1>4. next \in Seq(U)
  <2>1. next \in [1..half -> U]
    BY <1>3
  <2> HIDE DEF U
  <2> QED BY <1>2, <2>1, SeqDef
<1>5. Len(next) = half
  BY <1>2, <1>3
<1>6. ASSUME NEW i \in Nat
      PROVE  NodeAt(next, i, level + 1) = <<NodeAt(layer, 2 * i, level), NodeAt(layer, 2 * i + 1, level)>>
  <2>1. CASE i < half
    <3>1. i + 1 \in 1..half /\ (i + 1) - 1 = i
      BY <1>2, <2>1
    <3>2. next[i + 1] = pair(i + 1)
      BY <1>3, <3>1
    <3>3. NodeAt(next, i, level + 1) = next[i + 1]
      BY <1>5, <2>1 DEF NodeAt
    <3> QED BY <3>1, <3>2, <3>3
  <2>2. CASE ~ (i < half)
    <3>1. NodeAt(next, i, level + 1) = ZeroRoots(level + 1)
      BY <1>5, <2>2 DEF NodeAt
    <3>2. ZeroRoots(level + 1) = <<ZeroRoots(level), ZeroRoots(level)>>
      BY <1>0, ZeroRootsAre
    <3>3. ~ (2 * i < Len(layer)) /\ ~ (2 * i + 1 < Len(layer))
      BY <1>1, <1>2, <2>2
    <3>4. NodeAt(layer, 2 * i, level) = ZeroRoots(level) /\ NodeAt(layer, 2 * i + 1, level) = ZeroRoots(level)
      BY <3>3 DEF NodeAt
    <3> QED BY <3>1, <3>2, <3>4
  <2> QED BY <2>1, <2>2
<1> HIDE DEF U
<1> QED BY <1>2, <1>4, <1>5, <1>6 DEF next

(* Position i of a level, and the two below it.                            *)
Node(leaves, l, i) == NodeAt(Layers(leaves)[l], i, l)

LEMMA LayersAreSequences ==
    ASSUME NEW S, NEW leaves \in Seq(S)
    PROVE  /\ \A l \in 0..Depth : \E U : Layers(leaves)[l] \in Seq(U)
           /\ \A l \in 1..Depth : Len(Layers(leaves)[l]) \in Nat \ {0}
           /\ \A l \in 1..Depth, i \in Nat :
                Node(leaves, l, i) = <<Node(leaves, l - 1, 2 * i), Node(leaves, l - 1, 2 * i + 1)>>
<1> DEFINE at == Layers(leaves)
           T == {l \in 0..Depth : \E U : at[l] \in Seq(U)}
<1>0. Depth \in Nat \ {0} /\ 0 \in 0..Depth
  BY TreeAssumption
<1>1. at[0] = leaves /\ \A l \in 1..Depth : at[l] = NextLayer(at[l - 1], l - 1)
  BY LayersAre
<1> HIDE DEF at
<1>2. 0 \in T
  BY <1>0, <1>1
<1>3. ASSUME NEW m \in 0..(Depth - 1), m \in T PROVE m + 1 \in T
  <2>1. m + 1 \in 1..Depth /\ m + 1 \in 0..Depth /\ (m + 1) - 1 = m
    BY <1>0
  <2>2. at[m + 1] = NextLayer(at[m], m)
    BY <1>1, <2>1
  <2>3. PICK U : at[m] \in Seq(U)
    BY <1>3
  <2>4. \E V : at[m + 1] \in Seq(V)
    BY <2>2, <2>3, NextLayerIs
  <2> QED BY <2>1, <2>4
<1>4. \A l \in 0..Depth : l \in T
  <2> HIDE DEF T
  <2> QED BY <1>2, <1>3, LevelInduction
<1>5. ASSUME NEW l \in 1..Depth
      PROVE  /\ Len(at[l]) \in Nat \ {0}
             /\ \A i \in Nat : NodeAt(at[l], i, l) =
                    <<NodeAt(at[l - 1], 2 * i, l - 1), NodeAt(at[l - 1], 2 * i + 1, l - 1)>>
  <2>1. l - 1 \in 0..(Depth - 1) /\ l - 1 \in 0..Depth /\ (l - 1) + 1 = l
    BY <1>0
  <2>2. PICK U : at[l - 1] \in Seq(U)
    BY <1>4, <2>1
  <2>3. at[l] = NextLayer(at[l - 1], l - 1)
    BY <1>1
  <2> QED BY <2>1, <2>2, <2>3, NextLayerIs
<1> QED BY <1>4, <1>5 DEF at, Node

(* The root is the node at the top; the leaves are those at the bottom.    *)
LEMMA NodeEnds ==
    ASSUME NEW S, NEW leaves \in Seq(S)
    PROVE  /\ TreeRoot(leaves) = Node(leaves, Depth, 0)
           /\ \A i \in Nat : Node(leaves, 0, i) = IF i < Len(leaves) THEN leaves[i + 1] ELSE ZeroLeaf
<1>0. Depth \in 1..Depth
  BY TreeAssumption
<1>1. Len(Layers(leaves)[Depth]) \in Nat \ {0}
  BY <1>0, LayersAreSequences
<1>2. TreeRoot(leaves) = Node(leaves, Depth, 0)
  BY <1>1 DEF TreeRoot, Node, NodeAt
<1>3. Layers(leaves)[0] = leaves /\ ZeroRoots(0) = ZeroLeaf
  BY LayersAre, ZeroRootsAre
<1> QED BY <1>2, <1>3 DEF Node, NodeAt

(* The full tree, empty positions holding 0, has the same root.            *)
LEMMA FullRoot ==
    ASSUME NEW S, NEW leaves \in Seq(S)
    PROVE  FullTreeRoot(leaves) = TreeRoot(leaves)
<1> DEFINE Is(f) == f = [level \in 0..Depth |-> [i \in 0..(Width[Depth - level] - 1) |->
                            IF level = 0 THEN IF i < Len(leaves) THEN leaves[i + 1] ELSE ZeroLeaf
                            ELSE <<f[level - 1][2 * i], f[level - 1][2 * i + 1]>>]]
           full == [level \in 0..Depth |-> [i \in 0..(Width[Depth - level] - 1) |-> Node(leaves, level, i)]]
           under == CHOOSE f : Is(f)
           T == {l \in 0..Depth : \A i \in 0..(Width[Depth - l] - 1) : under[l][i] = Node(leaves, l, i)}
<1>0. Depth \in Nat \ {0} /\ 0 \in 0..Depth /\ Depth \in 0..Depth /\ Depth \in 1..Depth
  BY TreeAssumption
<1>1. \A i \in Nat : Node(leaves, 0, i) = IF i < Len(leaves) THEN leaves[i + 1] ELSE ZeroLeaf
  BY NodeEnds
<1>2. ASSUME NEW l \in 1..Depth, NEW i \in 0..(Width[Depth - l] - 1)
      PROVE  /\ Node(leaves, l, i) = <<Node(leaves, l - 1, 2 * i), Node(leaves, l - 1, 2 * i + 1)>>
             /\ 2 * i \in 0..(Width[Depth - (l - 1)] - 1) /\ 2 * i + 1 \in 0..(Width[Depth - (l - 1)] - 1)
             /\ l - 1 \in 0..Depth
  <2>1. /\ Depth - l \in 0..Depth /\ Depth - (l - 1) \in 1..Depth /\ (Depth - (l - 1)) - 1 = Depth - l
        /\ l - 1 \in 0..Depth
    BY <1>0
  <2>2. Width[Depth - (l - 1)] = 2 * Width[Depth - l] /\ Width[Depth - l] \in Nat \ {0}
    BY <2>1, WidthIs
  <2> DEFINE w == Width[Depth - l]
  <2>3. w \in Nat \ {0} /\ i \in 0..(w - 1)
    BY <2>2
  <2> HIDE DEF w
  <2>4. i \in Nat /\ 2 * i \in 0..((2 * w) - 1) /\ 2 * i + 1 \in 0..((2 * w) - 1)
    BY <2>3
  <2>5. Node(leaves, l, i) = <<Node(leaves, l - 1, 2 * i), Node(leaves, l - 1, 2 * i + 1)>>
    BY <2>4, LayersAreSequences
  <2> QED BY <2>1, <2>2, <2>4, <2>5 DEF w
<1>3. Is(full)
  <2>1. ASSUME NEW l \in 0..Depth, NEW i \in 0..(Width[Depth - l] - 1)
        PROVE  Node(leaves, l, i) = IF l = 0 THEN IF i < Len(leaves) THEN leaves[i + 1] ELSE ZeroLeaf
                                    ELSE <<full[l - 1][2 * i], full[l - 1][2 * i + 1]>>
    <3>1. CASE l = 0
      <4>1. i \in Nat
        BY <1>0, <3>1, WidthIs
      <4> QED BY <1>1, <3>1, <4>1
    <3>2. CASE l # 0
      <4>1. l \in 1..Depth
        BY <1>0, <3>2
      <4>2. /\ full[l - 1][2 * i] = Node(leaves, l - 1, 2 * i)
            /\ full[l - 1][2 * i + 1] = Node(leaves, l - 1, 2 * i + 1)
        BY <1>2, <4>1
      <4> HIDE DEF full
      <4> QED BY <1>2, <3>2, <4>1, <4>2
    <3> QED BY <3>1, <3>2
  <2> QED BY <2>1
<1>4. Is(under)
  <2> HIDE DEF Is
  <2> QED BY <1>3
<1>5. FullTreeRoot(leaves) = under[Depth][0]
  BY Zenon DEF FullTreeRoot
<1> HIDE DEF under, full
<1>6. \A l \in 0..Depth : \A i \in 0..(Width[Depth - l] - 1) :
          under[l][i] = IF l = 0 THEN IF i < Len(leaves) THEN leaves[i + 1] ELSE ZeroLeaf
                        ELSE <<under[l - 1][2 * i], under[l - 1][2 * i + 1]>>
  <2>1. \A l \in 0..Depth :
          under[l] = [i \in 0..(Width[Depth - l] - 1) |->
                         IF l = 0 THEN IF i < Len(leaves) THEN leaves[i + 1] ELSE ZeroLeaf
                         ELSE <<under[l - 1][2 * i], under[l - 1][2 * i + 1]>>]
    BY <1>4, Zenon
  <2> HIDE DEF Is
  <2> QED BY <2>1, Zenon
<1>7. 0 \in T
  <2>1. ASSUME NEW i \in 0..(Width[Depth - 0] - 1) PROVE under[0][i] = Node(leaves, 0, i)
    <3>1. i \in Nat
      BY <1>0, WidthIs
    <3> QED BY <1>0, <1>1, <1>6, <3>1
  <2> QED BY <1>0, <2>1
<1>8. ASSUME NEW m \in 0..(Depth - 1), m \in T PROVE m + 1 \in T
  <2>1. m + 1 \in 1..Depth /\ m + 1 \in 0..Depth /\ (m + 1) - 1 = m /\ m + 1 # 0 /\ m \in 0..Depth
    BY <1>0
  <2>2. ASSUME NEW i \in 0..(Width[Depth - (m + 1)] - 1) PROVE under[m + 1][i] = Node(leaves, m + 1, i)
    <3>1. /\ Node(leaves, m + 1, i) = <<Node(leaves, m, 2 * i), Node(leaves, m, 2 * i + 1)>>
          /\ 2 * i \in 0..(Width[Depth - m] - 1) /\ 2 * i + 1 \in 0..(Width[Depth - m] - 1)
      BY <1>2, <2>1
    <3>2. under[m][2 * i] = Node(leaves, m, 2 * i) /\ under[m][2 * i + 1] = Node(leaves, m, 2 * i + 1)
      BY <1>8, <3>1
    <3>3. under[m + 1][i] = <<under[m][2 * i], under[m][2 * i + 1]>>
      BY <1>6, <2>1
    <3> QED BY <3>1, <3>2, <3>3
  <2> QED BY <2>1, <2>2
<1>9. \A l \in 0..Depth : l \in T
  <2> HIDE DEF T
  <2> QED BY <1>7, <1>8, LevelInduction
<1>10. 0 \in 0..(Width[Depth - Depth] - 1)
  BY <1>0, WidthIs
<1>11. under[Depth][0] = Node(leaves, Depth, 0)
  BY <1>0, <1>9, <1>10
<1> QED BY <1>5, <1>11, NodeEnds

(* What the circuit computes of a leaf and its path is the root.           *)
LEMMA PathClimbs ==
    ASSUME NEW S, NEW leaves \in Seq(S), Len(leaves) <= Width[Depth],
           NEW index \in 0..(Len(leaves) - 1)
    PROVE  Climb(leaves[index + 1], TreeProof(leaves, index)) = TreeRoot(leaves)
<1>0. Depth \in Nat \ {0} /\ 0 \in 0..Depth /\ Depth \in 0..Depth /\ index \in Nat /\ index < Width[Depth]
  <2>1. Depth \in Nat \ {0} /\ 0 \in 0..Depth /\ Depth \in 0..Depth
    BY TreeAssumption
  <2>2. Width[Depth] \in Nat
    BY <2>1, WidthIs
  <2> QED BY <2>1, <2>2
<1>1. PICK node : Above(node, index) /\ TreeProof(leaves, index) = PathOf(leaves, node)
  BY <1>0, NodesAre
<1> DEFINE leaf == leaves[index + 1]
           path == PathOf(leaves, node)
           Is(f) == f = [level \in 0..Depth |->
                           IF level = 0 THEN leaf
                           ELSE LET p == path[level - 1] IN
                                IF p.right THEN <<p.sibling, f[level - 1]>> ELSE <<f[level - 1], p.sibling>>]
           here(l) == Node(leaves, l, node[l])
           climbed == [l \in 0..Depth |-> here(l)]
           up == CHOOSE f : Is(f)
           T == {l \in 0..Depth : up[l] = here(l)}
<1>2. here(0) = leaf
  BY <1>0, <1>1, NodeEnds DEF Above
<1>3. ASSUME NEW l \in 1..Depth
      PROVE  /\ l - 1 \in 0..Depth /\ l - 1 \in 0..(Depth - 1)
             /\ here(l) = IF path[l - 1].right THEN <<path[l - 1].sibling, here(l - 1)>>
                          ELSE <<here(l - 1), path[l - 1].sibling>>
  <2> DEFINE n == node[l - 1]
             k == node[l]
  <2>1. l - 1 \in 0..Depth /\ l - 1 \in 0..(Depth - 1) /\ l \in 0..Depth
    BY <1>0
  <2>2. n \in Nat /\ k = n \div 2 /\ k \in Nat
    BY <1>1, <2>1 DEF Above
  <2>3. /\ path[l - 1].sibling = Node(leaves, l - 1, IF n % 2 = 0 THEN n + 1 ELSE n - 1)
        /\ path[l - 1].right = (n % 2 = 1)
    BY <2>1 DEF PathOf, Node
  <2>4. Node(leaves, l, k) = <<Node(leaves, l - 1, 2 * k), Node(leaves, l - 1, 2 * k + 1)>>
    BY <2>2, LayersAreSequences
  <2> HIDE DEF path
  <2>5. CASE n % 2 = 0
    <3>1. 2 * k = n /\ 2 * k + 1 = n + 1 /\ n % 2 # 1
      BY <2>2, <2>5
    <3> QED BY <2>1, <2>3, <2>4, <2>5, <3>1
  <2>6. CASE n % 2 # 0
    <3>1. 2 * k = n - 1 /\ 2 * k + 1 = n /\ n % 2 = 1
      BY <2>2, <2>6
    <3> QED BY <2>1, <2>3, <2>4, <2>6, <3>1
  <2> QED BY <2>5, <2>6
<1> HIDE DEF path, leaf
<1>4. Is(climbed)
  <2>1. ASSUME NEW l \in 0..Depth
        PROVE  here(l) = IF l = 0 THEN leaf
                         ELSE LET p == path[l - 1] IN
                              IF p.right THEN <<p.sibling, climbed[l - 1]>> ELSE <<climbed[l - 1], p.sibling>>
    <3>1. CASE l = 0
      BY <1>2, <3>1
    <3>2. CASE l # 0
      <4>1. l \in 1..Depth
        BY <1>0, <3>2
      <4>2. climbed[l - 1] = here(l - 1)
        BY <1>3, <4>1
      <4> HIDE DEF climbed, here
      <4> QED BY <1>3, <3>2, <4>1, <4>2
    <3> QED BY <3>1, <3>2
  <2> HIDE DEF here
  <2> QED BY <2>1
<1>5. Is(up)
  <2> HIDE DEF Is
  <2> QED BY <1>4
<1>6. Climb(leaf, path) = up[Depth]
  BY Zenon DEF Climb
<1> HIDE DEF up, climbed, here
<1>7. \A l \in 0..Depth : up[l] = IF l = 0 THEN leaf
                                  ELSE LET p == path[l - 1] IN
                                       IF p.right THEN <<p.sibling, up[l - 1]>> ELSE <<up[l - 1], p.sibling>>
  BY <1>5, Zenon
<1>8. 0 \in T
  BY <1>0, <1>2, <1>7
<1>9. ASSUME NEW m \in 0..(Depth - 1), m \in T PROVE m + 1 \in T
  <2>1. m + 1 \in 1..Depth /\ m + 1 \in 0..Depth /\ (m + 1) - 1 = m /\ m + 1 # 0
    BY <1>0
  <2>2. up[m + 1] = IF path[m].right THEN <<path[m].sibling, up[m]>> ELSE <<up[m], path[m].sibling>>
    BY <1>7, <2>1
  <2>3. here(m + 1) = IF path[m].right THEN <<path[m].sibling, here(m)>> ELSE <<here(m), path[m].sibling>>
    BY <1>3, <2>1
  <2> QED BY <1>9, <2>1, <2>2, <2>3
<1>10. \A l \in 0..Depth : l \in T
  <2> HIDE DEF T
  <2> QED BY <1>8, <1>9, LevelInduction
<1>11. up[Depth] = here(Depth) /\ node[Depth] = 0
  BY <1>0, <1>1, <1>10, RootAbove
<1> QED BY <1>1, <1>6, <1>11, NodeEnds DEF here, path, leaf

(* Trees of different sizes have different roots.                          *)
LEMMA RootsTellLengths ==
    ASSUME NEW S, NEW U, NEW s \in Seq(S), NEW t \in Seq(U), Len(s) < Len(t), Len(t) <= Width[Depth],
           t[Len(s) + 1] # ZeroLeaf
    PROVE  TreeRoot(s) # TreeRoot(t)
<1> SUFFICES ASSUME TreeRoot(s) = TreeRoot(t) PROVE FALSE
  OBVIOUS
<1> DEFINE T == {d \in 0..Depth : \A i \in 0..(Width[d] - 1) : Node(s, Depth - d, i) = Node(t, Depth - d, i)}
<1>0. Depth \in Nat \ {0} /\ 0 \in 0..Depth /\ Depth \in 0..Depth /\ Depth - 0 = Depth /\ Depth - Depth = 0
  BY TreeAssumption
<1>1. 0 \in T
  <2>1. \A i \in 0..(Width[0] - 1) : i = 0
    BY WidthIs
  <2>2. Node(s, Depth, 0) = Node(t, Depth, 0)
    BY NodeEnds
  <2> QED BY <1>0, <2>1, <2>2
<1>2. ASSUME NEW m \in 0..(Depth - 1), m \in T PROVE m + 1 \in T
  <2>1. /\ m \in 0..Depth /\ m + 1 \in 1..Depth /\ m + 1 \in 0..Depth /\ (m + 1) - 1 = m
        /\ Depth - m \in 1..Depth /\ (Depth - m) - 1 = Depth - (m + 1)
    BY <1>0
  <2>2. Width[m + 1] = 2 * Width[m] /\ Width[m] \in Nat \ {0}
    BY <2>1, WidthIs
  <2>3. ASSUME NEW i \in 0..(Width[m + 1] - 1) PROVE Node(s, Depth - (m + 1), i) = Node(t, Depth - (m + 1), i)
    <3> DEFINE w == Width[m]
               j == i \div 2
    <3>1. w \in Nat \ {0} /\ i \in 0..((2 * w) - 1)
      BY <2>2
    <3> HIDE DEF w
    <3>2. j \in Nat /\ j \in 0..(w - 1) /\ (i = 2 * j \/ i = 2 * j + 1)
      BY <3>1
    <3> HIDE DEF j
    <3>3. Node(s, Depth - m, j) = Node(t, Depth - m, j)
      BY <1>2, <3>2 DEF w
    <3>4. /\ Node(s, Depth - m, j) = <<Node(s, Depth - (m + 1), 2 * j), Node(s, Depth - (m + 1), 2 * j + 1)>>
          /\ Node(t, Depth - m, j) = <<Node(t, Depth - (m + 1), 2 * j), Node(t, Depth - (m + 1), 2 * j + 1)>>
      BY <2>1, <3>2, LayersAreSequences
    <3>5. /\ Node(s, Depth - (m + 1), 2 * j) = Node(t, Depth - (m + 1), 2 * j)
          /\ Node(s, Depth - (m + 1), 2 * j + 1) = Node(t, Depth - (m + 1), 2 * j + 1)
      BY <3>3, <3>4
    <3> QED BY <3>2, <3>5
  <2> QED BY <2>1, <2>3
<1>3. \A d \in 0..Depth : d \in T
  <2> HIDE DEF T
  <2> QED BY <1>1, <1>2, LevelInduction
<1>4. Len(s) \in Nat /\ Len(t) \in Nat /\ Width[Depth] \in Nat
  BY <1>0, WidthIs
<1>5. Len(s) \in 0..(Width[Depth] - 1)
  BY <1>4
<1>6. Node(s, 0, Len(s)) = Node(t, 0, Len(s))
  BY <1>0, <1>3, <1>5
<1>7. Node(s, 0, Len(s)) = ZeroLeaf /\ Node(t, 0, Len(s)) = t[Len(s) + 1]
  BY <1>4, NodeEnds
<1> QED BY <1>6, <1>7

LEMMA DaysPass ==
    ASSUME NEW d \in Nat \ {0}, NEW x \in Int, NEW k \in Nat, x \div d > k
    PROVE  x > d * k
<1> DEFINE q == x \div d
<1>1. q \in Int /\ d * q <= x
  OBVIOUS
<1>2. q >= k + 1
  BY <1>1
<1> HIDE DEF q
<1>3. d * q >= d * (k + 1)
  BY <1>1, <1>2
<1>4. d * (k + 1) = d * k + d
  OBVIOUS
<1> DEFINE a == d * q
           b == d * k
<1>5. a \in Int /\ b \in Int
  BY <1>1
<1>6. a >= b + d /\ a <= x
  BY <1>1, <1>3, <1>4
<1> HIDE DEF a, b
<1> QED BY <1>5, <1>6 DEF b

-----------------------------------------------------------------------------
(* The freshness demo, over any groups, leaves and clicks.                 *)

RowLeaves == {Leaf(s, t) : s \in {User, Other}, t \in Nat}
AnyLeaf == {Leaf(s, t) : s \in {User, Demo, Other, Random}, t \in Int}
AnyRoot == {TreeRoot(s) : s \in Seq(AnyLeaf)} \cup {<<"none">>}
Visitor == [group : Groups, index : Nat, time : Nat, leaves : Seq(RowLeaves)]
PageProof == [root : AnyRoot, earliest : Int, from : Modes \cup {"none"}, warned : BOOLEAN]
DemoState == [mode : Modes, stage : FreshStages, window : Days, age : Days, user : Visitor,
              proof : PageProof, verified : {"none", "simulated", "onchain"}]

Pending(g) == IF mined # NoLeaf /\ mined.group = g THEN 1 ELSE 0

BackendOk ==
    /\ rows \in [Groups -> Seq(RowLeaves)]
    /\ posted = [g \in Groups |-> posted[g]] /\ \A g \in Groups : \E U : posted[g] \in Seq(U)
    /\ mined # NoLeaf => mined.group \in Groups /\ mined.leaf \in RowLeaves
    /\ told.leaves \in 0..MaxLeaves
    /\ \A g \in Groups : Len(rows[g]) + Pending(g) <= told.leaves

(* The leaf at an index is the visitor's.                                  *)
OfUser(u, leaves) == u.index < Len(leaves) /\ leaves[u.index + 1] = Leaf(User, u.time)

VisitorOk ==
    /\ probe.pc \in {"identity", "tree", "done"} /\ probe = [pc |-> probe.pc, found |-> probe.found]
    /\ probe.pc = "tree" => probe.found \in Visitor /\ OfUser(probe.found, rows[probe.found.group])
    /\ page.user # NoUser =>
         /\ probe.pc = "done" /\ OfUser(page.user, page.user.leaves)
         /\ Len(page.user.leaves) <= Len(rows[page.user.group])

(* A proof of the visitor's own leaf is for the tree the page was served.  *)
OwnProof(p, u) == p \in PageProof /\ (p.from = "user" => u # NoUser /\ p.root = TreeRoot(u.leaves))

DemoOk ==
    /\ page \in DemoState
    /\ page.mode = "user" => page.user # NoUser
    /\ OwnProof(page.proof, page.user) /\ ~page.proof.warned

(* A witness asked for under the warning does not satisfy the circuit.     *)
WitnessOk(w, u) ==
    OwnProof(w.proof, u) /\ w.issued \in Int /\ (w.proof.warned => w.issued < w.proof.earliest)

AskedOk(v, u) ==
    OwnProof(v.proof, u) /\ (v.mode = "user" => u # NoUser /\ v.group = u.group)

CallsOk ==
    /\ calls = [proving |-> calls.proving, verifying |-> calls.verifying]
    /\ \A w \in calls.proving : WitnessOk(w, page.user)
    /\ \A v \in calls.verifying : AskedOk(v, page.user)

(* One call at a time unless they overlapped.                              *)
ToldOk ==
    /\ told = [accepted |-> told.accepted, refused |-> told.refused, overlap |-> told.overlap,
               clicks |-> told.clicks, leaves |-> told.leaves]
    /\ told.overlap \in BOOLEAN
    /\ ~told.overlap => /\ calls.proving = {} \/ calls.verifying = {}
                        /\ \A v \in calls.verifying : v.proof = page.proof
    /\ (page.stage = "verified-ok" /\ page.verified = "onchain") =>
           told.accepted # {} /\ (~told.overlap => page.proof \in told.accepted)
    /\ \A v \in told.refused : AskedOk(v, page.user)
    /\ UserProofAccepted

FreshIInv == BackendOk /\ VisitorOk /\ DemoOk /\ CallsOk /\ ToldOk

LEMMA FreshConstants ==
    /\ KycGroup \in Groups /\ DayUnits \in Nat \ {0} /\ RootHistory \in Nat \ {0}
    /\ MaxLeaves \in Nat /\ MaxLeaves <= Width[Depth] /\ Width[Depth] \in Nat \ {0}
    /\ DemoTime \in Nat /\ IssuanceTimes \subseteq Nat /\ Days \subseteq Nat /\ PageNow \in Nat
<1>1. Depth \in 0..Depth
  BY TreeAssumption
<1>2. Width[Depth] \in Nat \ {0}
  BY <1>1, WidthIs
<1> QED BY <1>2, FreshPageAssumption

LEMMA LeavesAre ==
    /\ \A s \in {User, Other}, t \in Nat : Leaf(s, t) \in RowLeaves
    /\ \A s \in {User, Demo, Other, Random}, t \in Int : Leaf(s, t) \in AnyLeaf
    /\ RowLeaves \subseteq AnyLeaf
    /\ \A x \in RowLeaves : x # ZeroLeaf /\ x # << >> /\ x[1].time \in Nat
                           /\ (x[1].secret = User => x = Leaf(User, x[1].time))
<1>1. \A s \in {User, Other}, t \in Nat : Leaf(s, t) \in RowLeaves
  BY DEF RowLeaves
<1>2. \A s \in {User, Demo, Other, Random}, t \in Int : Leaf(s, t) \in AnyLeaf
  BY DEF AnyLeaf
<1>3. RowLeaves \subseteq AnyLeaf
  BY DEF RowLeaves, AnyLeaf
<1>4. ASSUME NEW x \in RowLeaves
      PROVE  x # ZeroLeaf /\ x # << >> /\ x[1].time \in Nat /\ (x[1].secret = User => x = Leaf(User, x[1].time))
  <2>1. PICK s \in {User, Other}, t \in Nat : x = Leaf(s, t)
    BY DEF RowLeaves
  <2>2. x[1].secret = s /\ x[1].time = t
    BY <2>1 DEF Leaf
  <2>3. x # << >>
    BY <2>1 DEF Leaf
  <2> QED BY <2>1, <2>2, <2>3, FreshPageAssumption
<1> QED BY <1>1, <1>2, <1>3, <1>4

LEMMA FreshFacts ==
    ASSUME FreshIInv
    PROVE  /\ page \in DemoState /\ page.user \in Visitor /\ page.proof \in PageProof
           /\ page.mode \in Modes /\ page.stage \in FreshStages /\ page.window \in Days /\ page.age \in Days
           /\ page.user.group \in Groups /\ page.user.index \in Nat /\ page.user.time \in Nat
           /\ page.user.leaves \in Seq(RowLeaves)
           /\ \A g \in Groups : rows[g] \in Seq(RowLeaves) /\ Len(rows[g]) \in Nat /\ Len(rows[g]) <= MaxLeaves
           /\ told.leaves \in 0..MaxLeaves /\ MaxLeaves \in Nat
<1>1. page \in DemoState
  BY DEF FreshIInv, DemoOk
<1>2. page.user \in Visitor
  BY <1>1 DEF DemoState
<1>3. \A g \in Groups : rows[g] \in Seq(RowLeaves)
  BY DEF FreshIInv, BackendOk
<1>4. ASSUME NEW g \in Groups PROVE Len(rows[g]) \in Nat /\ Len(rows[g]) <= MaxLeaves
  <2>1. /\ Len(rows[g]) \in Nat /\ Pending(g) \in {0, 1} /\ Len(rows[g]) + Pending(g) <= told.leaves
        /\ told.leaves \in 0..MaxLeaves /\ MaxLeaves \in Nat
    BY <1>3, FreshConstants DEF FreshIInv, BackendOk, Pending
  <2> QED BY <2>1
<1> QED BY <1>1, <1>2, <1>3, <1>4, FreshConstants DEF DemoState, Visitor, FreshIInv, BackendOk

LEMMA PostLeafKeeps ==
    ASSUME FreshIInv, NEW g \in Groups, NEW secret \in {User, Other}, NEW time \in Nat,
           PostLeaf(g, secret, time)
    PROVE  FreshIInv'
<1> DEFINE new == Leaf(secret, time)
           grown == Append(rows[g], new)
           root == TreeRoot(grown)
           n == told.leaves + 1
<1>0. /\ mined = NoLeaf /\ told.leaves < MaxLeaves
      /\ posted' = [posted EXCEPT ![g] = Append(@, root)]
      /\ mined' = [group |-> g, leaf |-> new]
      /\ told' = [told EXCEPT !.leaves = n]
      /\ UNCHANGED <<rows, probe, page, calls>>
  BY DEF PostLeaf
<1>1. /\ \A h \in Groups : rows[h] \in Seq(RowLeaves) /\ Len(rows[h]) \in Nat /\ Len(rows[h]) <= MaxLeaves
      /\ told.leaves \in 0..MaxLeaves /\ MaxLeaves \in Nat /\ page.user.group \in Groups
      /\ page.user.leaves \in Seq(RowLeaves)
  BY FreshFacts
<1>2. new \in RowLeaves /\ new # << >>
  BY LeavesAre
<1>3. mined' # NoLeaf /\ mined'.group = g /\ mined'.leaf = new
  BY <1>0, <1>2 DEF NoLeaf
<1>4. n \in 0..MaxLeaves /\ told.leaves + 1 = n
  BY <1>0, <1>1
<1> HIDE DEF n, new
<1>5. told'.leaves = n /\ told'.accepted = told.accepted /\ told'.refused = told.refused
      /\ told'.overlap = told.overlap
      /\ told' = [accepted |-> told'.accepted, refused |-> told'.refused, overlap |-> told'.overlap,
                  clicks |-> told'.clicks, leaves |-> told'.leaves]
  BY <1>0 DEF FreshIInv, ToldOk
<1> HIDE DEF root
<1>6. /\ posted' = [h \in Groups |-> posted'[h]] /\ posted'[g] = Append(posted[g], root)
      /\ \A h \in Groups : h # g => posted'[h] = posted[h]
  BY <1>0 DEF FreshIInv, BackendOk
<1>7. PICK U : posted[g] \in Seq(U)
  BY DEF FreshIInv, BackendOk
<1>8. posted[g] \in Seq(U \cup {root})
  BY <1>7, SeqMonotonic
<1>9. BackendOk'
  <2>1. ASSUME NEW h \in Groups PROVE \E V : posted'[h] \in Seq(V)
    <3>1. CASE h = g
      <4>1. posted'[g] \in Seq(U \cup {root})
        BY <1>6, <1>8
      <4> QED BY <3>1, <4>1
    <3>2. CASE h # g
      BY <1>6, <3>2 DEF FreshIInv, BackendOk
    <3> QED BY <3>1, <3>2
  <2>2. ASSUME NEW h \in Groups PROVE Len(rows'[h]) + Pending(h)' <= told'.leaves
    <3>1. Len(rows[h]) <= told.leaves
      BY <1>0, <1>1 DEF FreshIInv, BackendOk, Pending
    <3>2. Pending(h)' \in {0, 1}
      BY DEF Pending
    <3> QED BY <1>0, <1>1, <1>4, <1>5, <3>1, <3>2
  <2>3. rows' \in [Groups -> Seq(RowLeaves)]
    BY <1>0 DEF FreshIInv, BackendOk
  <2> QED BY <1>2, <1>3, <1>4, <1>5, <1>6, <2>1, <2>2, <2>3 DEF BackendOk
<1>10. VisitorOk'
  BY <1>0 DEF FreshIInv, VisitorOk
<1>11. DemoOk'
  BY <1>0 DEF FreshIInv, DemoOk
<1>12. CallsOk'
  BY <1>0 DEF FreshIInv, CallsOk
<1>13. UserProofAccepted'
  <2> SUFFICES ASSUME NEW v \in told.refused, v.mode = "user", v.proof.from = "user"
               PROVE  ~IsKnownRootOf(page.user.group, v.proof.root)'
    BY <1>0, <1>5 DEF UserProofAccepted
  <2>1. ~IsKnownRootOf(page.user.group, v.proof.root)
    BY DEF FreshIInv, ToldOk, UserProofAccepted
  <2>2. page.user # NoUser /\ v.proof.root = TreeRoot(page.user.leaves)
    BY DEF FreshIInv, ToldOk, AskedOk, OwnProof
  <2>3. CASE page.user.group # g
    BY <1>0, <1>1, <1>6, <2>1, <2>3 DEF IsKnownRootOf
  <2>4. CASE page.user.group = g
    <3>1. Len(page.user.leaves) <= Len(rows[g])
      BY <2>2, <2>4 DEF FreshIInv, VisitorOk
    <3>2. grown \in Seq(RowLeaves) /\ Len(grown) = Len(rows[g]) + 1 /\ Len(page.user.leaves) \in Nat
      BY <1>1, <1>2
    <3>3. Len(rows[g]) <= told.leaves
      BY <1>0, <1>1 DEF FreshIInv, BackendOk, Pending
    <3>4. Len(grown) <= Width[Depth] /\ Len(page.user.leaves) < Len(grown)
      BY <1>0, <1>1, <3>1, <3>2, <3>3, FreshConstants
    <3>5. Len(page.user.leaves) + 1 \in 1..Len(grown)
      BY <3>2, <3>4
    <3> HIDE DEF grown
    <3>6. grown[Len(page.user.leaves) + 1] \in RowLeaves
      BY <3>2, <3>5
    <3>7. root # TreeRoot(page.user.leaves)
      BY <1>1, <3>2, <3>4, <3>6, LeavesAre, RootsTellLengths DEF root
    <3> DEFINE p == posted[g]
    <3>8. /\ posted'[g] = Append(p, root) /\ p \in Seq(U \cup {root})
          /\ \A k \in DOMAIN p : k > Len(p) - RootHistory => p[k] # v.proof.root
      BY <1>6, <1>8, <2>1, <2>4 DEF IsKnownRootOf
    <3> HIDE DEF p
    <3>9. \A k \in DOMAIN posted'[g] : k > Len(posted'[g]) - RootHistory => posted'[g][k] # v.proof.root
      <4> TAKE k \in DOMAIN posted'[g]
      <4>1. Len(posted'[g]) = Len(p) + 1 /\ Len(p) \in Nat /\ k \in 1..(Len(p) + 1) /\ DOMAIN p = 1..Len(p)
        BY <3>8
      <4>2. CASE k = Len(p) + 1
        <5>1. posted'[g][k] = root
          BY <3>8, <4>1, <4>2
        <5> QED BY <2>2, <3>7, <5>1
      <4>3. CASE k # Len(p) + 1
        <5>1. k \in 1..Len(p)
          BY <4>1, <4>3
        <5>2. posted'[g][k] = p[k]
          BY <3>8, <5>1
        <5> DEFINE length == Len(p)
        <5>3. length \in Nat /\ k \in Int /\ RootHistory \in Nat
          BY <4>1, <5>1, FreshConstants
        <5> HIDE DEF length
        <5>4. k > length + 1 - RootHistory => k > length - RootHistory
          BY <5>3
        <5>5. k > Len(posted'[g]) - RootHistory => k > Len(p) - RootHistory
          <6>1. Len(posted'[g]) = length + 1 /\ Len(p) = length
            BY <4>1 DEF length
          <6> DEFINE m == Len(posted'[g])
          <6>2. m = length + 1
            BY <6>1
          <6> HIDE DEF m
          <6>3. k > m - RootHistory => k > length - RootHistory
            BY <5>3, <5>4, <6>2
          <6> QED BY <6>1, <6>3 DEF m
        <5>6. k \in DOMAIN p
          BY <4>1, <5>1
        <5> QED BY <3>8, <5>2, <5>5, <5>6
      <4> QED BY <4>2, <4>3
    <3> QED BY <1>0, <2>4, <3>9 DEF IsKnownRootOf
  <2> QED BY <2>3, <2>4
<1>14. ToldOk'
  BY <1>0, <1>5, <1>13 DEF FreshIInv, ToldOk
<1> QED BY <1>9, <1>10, <1>11, <1>12, <1>14 DEF FreshIInv

LEMMA RecordLeafKeeps == ASSUME FreshIInv, RecordLeaf PROVE FreshIInv'
<1> DEFINE g == mined.group
           grown == Append(rows[g], mined.leaf)
<1>0. /\ mined # NoLeaf /\ rows' = [rows EXCEPT ![g] = grown] /\ mined' = NoLeaf
      /\ UNCHANGED <<posted, probe, page, calls, told>>
  BY DEF RecordLeaf
<1>1. /\ g \in Groups /\ mined.leaf \in RowLeaves
      /\ \A h \in Groups : rows[h] \in Seq(RowLeaves) /\ Len(rows[h]) \in Nat
      /\ told.leaves \in 0..MaxLeaves /\ rows \in [Groups -> Seq(RowLeaves)] /\ page.user \in Visitor
  BY <1>0, FreshFacts DEF FreshIInv, BackendOk
<1>2. /\ grown \in Seq(RowLeaves) /\ Len(grown) = Len(rows[g]) + 1
      /\ \A i \in Nat : i < Len(rows[g]) => grown[i + 1] = rows[g][i + 1]
  BY <1>1
<1>3. Pending(g) = 1 /\ \A h \in Groups : Pending(h)' = 0
  BY <1>0 DEF Pending
<1> HIDE DEF grown, g
<1>4. rows' \in [Groups -> Seq(RowLeaves)] /\ rows'[g] = grown /\ \A h \in Groups : h # g => rows'[h] = rows[h]
  BY <1>0, <1>1, <1>2
<1>5. BackendOk'
  <2>1. ASSUME NEW h \in Groups PROVE Len(rows'[h]) + Pending(h)' <= told'.leaves
    <3>1. Len(rows[h]) + Pending(h) <= told.leaves /\ Pending(h) \in {0, 1}
      BY DEF FreshIInv, BackendOk, Pending
    <3>2. CASE h = g
      BY <1>0, <1>1, <1>2, <1>3, <1>4, <3>1, <3>2
    <3>3. CASE h # g
      BY <1>0, <1>1, <1>3, <1>4, <3>1, <3>3
    <3> QED BY <3>2, <3>3
  <2>2. posted' = [h \in Groups |-> posted'[h]] /\ \A h \in Groups : \E U : posted'[h] \in Seq(U)
    BY <1>0 DEF FreshIInv, BackendOk
  <2> QED BY <1>0, <1>1, <1>4, <2>1, <2>2 DEF BackendOk
<1>6. VisitorOk'
  <2>1. ASSUME NEW h \in Groups
        PROVE  /\ Len(rows[h]) <= Len(rows'[h])
               /\ \A u : u.index \in Nat /\ OfUser(u, rows[h]) => OfUser(u, rows'[h])
    <3>1. CASE h = g
      BY <1>1, <1>2, <1>4, <3>1 DEF OfUser
    <3>2. CASE h # g
      BY <1>1, <1>4, <3>2
    <3> QED BY <3>1, <3>2
  <2>2. probe.pc = "tree" => OfUser(probe.found, rows'[probe.found.group])
    <3>1. probe.pc = "tree" => /\ probe.found.group \in Groups /\ probe.found.index \in Nat
                               /\ OfUser(probe.found, rows[probe.found.group])
      BY DEF FreshIInv, VisitorOk, Visitor
    <3> QED BY <2>1, <3>1
  <2>3. page.user # NoUser => Len(page.user.leaves) <= Len(rows'[page.user.group])
    <3> SUFFICES ASSUME page.user # NoUser PROVE Len(page.user.leaves) <= Len(rows'[page.user.group])
      OBVIOUS
    <3> DEFINE h == page.user.group
               a == Len(page.user.leaves)
               b == Len(rows[h])
               c == Len(rows'[h])
    <3>1. h \in Groups /\ page.user.leaves \in Seq(RowLeaves)
      BY <1>1 DEF Visitor
    <3>2. a \in Nat /\ b \in Nat /\ c \in Nat
      BY <1>1, <1>4, <3>1
    <3>3. a <= b /\ b <= c
      BY <2>1, <3>1 DEF FreshIInv, VisitorOk
    <3> HIDE DEF a, b, c
    <3>4. a <= c
      BY <3>2, <3>3
    <3> QED BY <3>4 DEF a, c
  <2> QED BY <1>0, <2>2, <2>3 DEF FreshIInv, VisitorOk
<1>7. DemoOk' /\ CallsOk'
  BY <1>0 DEF FreshIInv, DemoOk, CallsOk
<1>8. ToldOk'
  BY <1>0 DEF FreshIInv, ToldOk, UserProofAccepted, IsKnownRootOf
<1> QED BY <1>5, <1>6, <1>7, <1>8 DEF FreshIInv

\* What a step that leaves the backend, the effect and the visitor alone has to show.
LEMMA PageStepKeeps ==
    ASSUME FreshIInv, UNCHANGED <<rows, posted, mined, probe>>, page'.user = page.user,
           told'.leaves = told.leaves, DemoOk', CallsOk', ToldOk'
    PROVE  FreshIInv'
<1>1. BackendOk'
  BY DEF FreshIInv, BackendOk, Pending
<1>2. VisitorOk'
  BY DEF FreshIInv, VisitorOk
<1> QED BY <1>1, <1>2 DEF FreshIInv

LEMMA ProbeIdentityKeeps == ASSUME FreshIInv, ProbeIdentity PROVE FreshIInv'
<1> DEFINE matches == {f \in Groups \X (1..MaxLeaves) :
                          f[2] <= Len(rows[f[1]]) /\ rows[f[1]][f[2]][1].secret = User}
           at == CHOOSE f \in matches : TRUE
<1>0. /\ probe.pc = "identity" /\ UNCHANGED <<rows, posted, mined, page, calls, told>>
      /\ probe' = IF matches = {} THEN [probe EXCEPT !.pc = "done"]
                  ELSE [pc |-> "tree", found |-> IdentityRow(at[1], at[2])]
  BY DEF ProbeIdentity
<1>1. page.user = NoUser
  BY <1>0 DEF FreshIInv, VisitorOk
<1>2. VisitorOk'
  <2>1. CASE matches = {}
    BY <1>0, <1>1, <2>1 DEF FreshIInv, VisitorOk
  <2>2. CASE matches # {}
    <3>0. at \in matches
      BY <2>2
    <3> HIDE DEF at
    <3>1. at \in Groups \X (1..MaxLeaves) /\ at[2] <= Len(rows[at[1]]) /\ rows[at[1]][at[2]][1].secret = User
      BY <3>0
    <3> DEFINE h == at[1]
               k == at[2]
    <3>2. h \in Groups /\ k \in 1..MaxLeaves /\ k <= Len(rows[h]) /\ rows[h][k][1].secret = User
      BY <3>1
    <3>3. probe' = [pc |-> "tree", found |-> IdentityRow(h, k)]
      BY <1>0, <2>2 DEF at
    <3> HIDE DEF h, k
    <3>4. rows[h] \in Seq(RowLeaves) /\ Len(rows[h]) \in Nat /\ MaxLeaves \in Nat
      BY <3>2, FreshFacts
    <3>5. rows[h][k] \in RowLeaves
      BY <3>2, <3>4
    <3>6. rows[h][k] = Leaf(User, rows[h][k][1].time) /\ rows[h][k][1].time \in Nat
      BY <3>2, <3>5, LeavesAre
    <3> DEFINE u == IdentityRow(h, k)
    <3>7. u = [group |-> h, index |-> k - 1, time |-> rows[h][k][1].time, leaves |-> << >>]
      BY DEF IdentityRow
    <3>8. /\ u.group = h /\ u.index = k - 1 /\ u.time = rows[h][k][1].time
          /\ u \in Visitor
      BY <3>2, <3>6, <3>7 DEF Visitor
    <3> HIDE DEF u
    <3>9. OfUser(u, rows[h])
      <4>1. u.index + 1 = k /\ u.index < Len(rows[h])
        BY <3>2, <3>4, <3>8
      <4> QED BY <3>6, <3>8, <4>1 DEF OfUser
    <3>10. probe'.pc = "tree" /\ probe'.found = u /\ probe' = [pc |-> probe'.pc, found |-> probe'.found]
      BY <3>3 DEF u
    <3> QED BY <1>0, <1>1, <3>8, <3>9, <3>10 DEF VisitorOk
  <2> QED BY <2>1, <2>2
<1>3. BackendOk' /\ DemoOk' /\ CallsOk' /\ ToldOk'
  BY <1>0 DEF FreshIInv, BackendOk, Pending, DemoOk, CallsOk, ToldOk, UserProofAccepted, IsKnownRootOf
<1> QED BY <1>2, <1>3 DEF FreshIInv

\* Before the visitor is known nothing on the page is about them.
LEMMA ProbeTreeKeeps == ASSUME FreshIInv, ProbeTree PROVE FreshIInv'
<1> DEFINE u == [probe.found EXCEPT !.leaves = rows[probe.found.group]]
<1>0. /\ probe.pc = "tree" /\ probe' = [probe EXCEPT !.pc = "done"] /\ page' = [page EXCEPT !.user = u]
      /\ UNCHANGED <<rows, posted, mined, calls, told>>
  BY DEF ProbeTree, TreeState
<1>1. page.user = NoUser /\ probe.found \in Visitor /\ OfUser(probe.found, rows[probe.found.group])
  BY <1>0 DEF FreshIInv, VisitorOk
<1>2. /\ u \in Visitor /\ u.group = probe.found.group /\ u.index = probe.found.index
      /\ u.time = probe.found.time /\ u.leaves = rows[probe.found.group]
  BY <1>1, FreshFacts DEF Visitor
<1>3. OfUser(u, u.leaves) /\ Len(u.leaves) <= Len(rows[u.group])
  <2>1. rows[u.group] \in Seq(RowLeaves)
    BY <1>2, FreshFacts DEF Visitor
  <2> QED BY <1>1, <1>2, <2>1 DEF OfUser
<1> HIDE DEF u
<1>4. /\ page' \in DemoState /\ page'.user = u /\ page'.proof = page.proof /\ page'.mode = page.mode
      /\ page'.stage = page.stage /\ page'.verified = page.verified
  BY <1>0, <1>2, FreshFacts DEF DemoState
<1>5. ASSUME NEW p, OwnProof(p, page.user) PROVE p.from # "user" /\ OwnProof(p, u)
  BY <1>1, <1>5 DEF OwnProof
<1>6. DemoOk'
  BY <1>1, <1>4, <1>5 DEF FreshIInv, DemoOk, OwnProof
<1>7. CallsOk'
  <2>1. \A w \in calls.proving : WitnessOk(w, u)
    BY <1>5 DEF FreshIInv, CallsOk, WitnessOk
  <2>2. \A v \in calls.verifying : AskedOk(v, u)
    BY <1>1, <1>5 DEF FreshIInv, CallsOk, AskedOk
  <2> QED BY <1>0, <1>4, <2>1, <2>2 DEF FreshIInv, CallsOk
<1>8. ToldOk'
  <2>1. ASSUME NEW v \in told.refused PROVE AskedOk(v, u) /\ v.mode # "user"
    <3>1. AskedOk(v, page.user)
      BY DEF FreshIInv, ToldOk
    <3> QED BY <1>1, <1>5, <3>1 DEF AskedOk
  <2> QED BY <1>0, <1>4, <2>1 DEF FreshIInv, ToldOk, UserProofAccepted
<1>9. VisitorOk'
  BY <1>0, <1>2, <1>3, <1>4 DEF FreshIInv, VisitorOk
<1>10. BackendOk'
  BY <1>0 DEF FreshIInv, BackendOk, Pending
<1> QED BY <1>6, <1>7, <1>8, <1>9, <1>10 DEF FreshIInv

LEMMA ProbeFailsKeeps == ASSUME FreshIInv, ProbeFails PROVE FreshIInv'
<1>0. probe.pc # "done" /\ probe' = [probe EXCEPT !.pc = "done"] /\ UNCHANGED <<rows, posted, mined, page, calls, told>>
  BY DEF ProbeFails
<1>1. VisitorOk'
  BY <1>0 DEF FreshIInv, VisitorOk
<1>2. BackendOk' /\ DemoOk' /\ CallsOk' /\ ToldOk'
  BY <1>0 DEF FreshIInv, BackendOk, Pending, DemoOk, CallsOk, ToldOk, UserProofAccepted, IsKnownRootOf
<1> QED BY <1>1, <1>2 DEF FreshIInv

LEMMA WitnessIs == ASSUME FreshIInv PROVE WitnessOk(Witness, page.user)
<1> DEFINE leaves == CASE page.mode = "live" -> SeededTree
                       [] page.mode = "user" -> page.user.leaves
                       [] page.mode = "sandbox" -> SandboxTree(Issued)
           w == Witness
<1>1. /\ w.proof = [root |-> TreeRoot(leaves), earliest |-> Earliest, from |-> page.mode, warned |-> ~IsFresh]
      /\ w.issued = Issued
  BY DEF Witness
<1> HIDE DEF w, leaves
<1>2. /\ page.mode \in Modes /\ page.window \in Nat /\ page.age \in Nat /\ page.user.time \in Nat
      /\ page.user.leaves \in Seq(RowLeaves) /\ DayUnits \in Nat \ {0} /\ PageNow \in Nat /\ DemoTime \in Nat
  BY FreshFacts, FreshConstants
<1>3. DayUnits * page.age \in Nat /\ DayUnits * page.window \in Nat
  BY <1>2
<1>4. Issued \in Int
  BY <1>2, <1>3 DEF Issued, Modes
<1>5. leaves \in Seq(AnyLeaf)
  <2>1. CASE page.mode = "live"
    <3>1. Leaf(Other, DemoTime) \in AnyLeaf /\ Leaf(Demo, DemoTime) \in AnyLeaf
      BY <1>2, LeavesAre
    <3> QED BY <2>1, <3>1 DEF leaves, SeededTree
  <2>2. CASE page.mode = "user"
    <3>1. page.user.leaves \in Seq(AnyLeaf)
      BY <1>2, LeavesAre, SeqMonotonic
    <3> QED BY <2>2, <3>1 DEF leaves
  <2>3. CASE page.mode = "sandbox"
    <3>1. Leaf(Other, DemoTime) \in AnyLeaf /\ Leaf(Random, Issued) \in AnyLeaf
      BY <1>2, <1>4, LeavesAre
    <3> QED BY <2>3, <3>1 DEF leaves, SandboxTree
  <2> QED BY <1>2, <2>1, <2>2, <2>3 DEF Modes
<1>6. w.proof \in PageProof
  <2>1. TreeRoot(leaves) \in AnyRoot
    BY <1>5 DEF AnyRoot
  <2>2. Earliest \in Int /\ (~IsFresh) \in BOOLEAN
    BY <1>2, <1>3 DEF Earliest
  <2> QED BY <1>1, <1>2, <2>1, <2>2 DEF PageProof
<1>7. w.proof.from = "user" => page.user # NoUser /\ w.proof.root = TreeRoot(page.user.leaves)
  BY <1>1 DEF leaves, FreshIInv, DemoOk
<1>8. w.proof.warned => w.issued < w.proof.earliest
  <2> DEFINE late == ~IsFresh
  <2>0. w.proof = [root |-> TreeRoot(leaves), earliest |-> Earliest, from |-> page.mode, warned |-> late]
    BY <1>1
  <2> HIDE DEF late
  <2>00. w.proof.warned = late /\ w.proof.earliest = Earliest
    BY <2>0
  <2> SUFFICES ASSUME late PROVE Issued < Earliest
    BY <1>1, <2>00
  <2> USE DEF late
  <2>1. CASE page.mode = "sandbox"
    <3> DEFINE a == page.age
               b == page.window
    <3>1. a \in Nat /\ b \in Nat /\ ~(a <= b)
      BY <1>2, <2>1 DEF IsFresh, DaysSince
    <3>2. Issued = PageNow - DayUnits * a /\ Earliest = PageNow - DayUnits * b
      BY <2>1 DEF Issued, Earliest
    <3> HIDE DEF a, b
    <3>3. PICK d \in Nat \ {0} : DayUnits = d
      BY <1>2
    <3>4. d * b + d <= d * a
      <4>1. b + 1 <= a
        BY <3>1
      <4> QED BY <3>1, <3>3, <4>1
    <3>5. d * a \in Nat /\ d * b \in Nat
      BY <3>1, <3>3
    <3> QED BY <1>2, <3>2, <3>3, <3>4, <3>5
  <2>2. CASE page.mode # "sandbox"
    <3> DEFINE x == PageNow - Issued
               b == page.window
    <3>1. x \in Int /\ b \in Nat /\ ~((x \div DayUnits) <= b) /\ Earliest = PageNow - DayUnits * b
      BY <1>2, <1>4, <2>2 DEF IsFresh, DaysSince, Earliest
    <3> HIDE DEF b
    <3>2. x \div DayUnits > b
      BY <1>2, <3>1
    <3>3. x > DayUnits * b
      BY <1>2, <3>1, <3>2, DaysPass
    <3>4. DayUnits * b \in Nat
      BY <1>2, <3>1
    <3> QED BY <1>2, <1>4, <3>1, <3>3, <3>4
  <2> QED BY <2>1, <2>2
<1> QED BY <1>1, <1>4, <1>6, <1>7, <1>8 DEF WitnessOk, OwnProof, w

\* Nothing is about a page with no proof.
LEMMA NoProofIs == NoProof \in PageProof /\ ~NoProof.warned /\ \A u : OwnProof(NoProof, u)
<1>1. <<"none">> \in AnyRoot
  BY DEF AnyRoot
<1>2. NoProof \in PageProof
  BY <1>1 DEF PageProof, NoProof
<1> QED BY <1>2 DEF OwnProof, NoProof

LEMMA ClickIs ==
    ASSUME ToldOk, NEW busy \in BOOLEAN
    PROVE  LET new == Clicked(busy) IN
           /\ new = [accepted |-> new.accepted, refused |-> new.refused, overlap |-> new.overlap,
                     clicks |-> new.clicks, leaves |-> new.leaves]
           /\ new.accepted = told.accepted /\ new.refused = told.refused /\ new.leaves = told.leaves
           /\ new.overlap \in BOOLEAN /\ (new.overlap <=> told.overlap \/ busy)
<1> DEFINE b == told.overlap \/ busy
           c == told.clicks + 1
           t == [told EXCEPT !.clicks = c, !.overlap = b]
<1>1. Clicked(busy) = t
  BY DEF Clicked
<1>2. b \in BOOLEAN /\ (b <=> told.overlap \/ busy)
  BY DEF ToldOk
<1> HIDE DEF b, c
<1>3. /\ t = [accepted |-> t.accepted, refused |-> t.refused, overlap |-> t.overlap,
              clicks |-> t.clicks, leaves |-> t.leaves]
      /\ t.accepted = told.accepted /\ t.refused = told.refused /\ t.leaves = told.leaves /\ t.overlap = b
  <2>1. PICK r, s, o, k, n : told = [accepted |-> r, refused |-> s, overlap |-> o, clicks |-> k, leaves |-> n]
    BY DEF ToldOk
  <2> DEFINE clicked == [told EXCEPT !.clicks = c]
  <2>2. clicked = [accepted |-> r, refused |-> s, overlap |-> o, clicks |-> c, leaves |-> n]
    BY <2>1
  <2>3. t = [clicked EXCEPT !.overlap = b]
    OBVIOUS
  <2> HIDE DEF t, clicked
  <2>4. t = [accepted |-> r, refused |-> s, overlap |-> b, clicks |-> c, leaves |-> n]
    BY <2>2, <2>3
  <2> QED BY <2>1, <2>4
<1> HIDE DEF t
<1> QED BY <1>1, <1>2, <1>3

LEMMA SwitchModeKeeps == ASSUME FreshIInv, NEW m \in Modes, SwitchMode(m) PROVE FreshIInv'
<1>0. /\ m = "user" => page.user # NoUser
      /\ page' = [page EXCEPT !.mode = m, !.stage = "idle", !.proof = NoProof]
      /\ told' = Clicked(Busy) /\ UNCHANGED <<rows, posted, mined, probe, calls>>
  BY DEF SwitchMode
<1>1. Busy \in BOOLEAN /\ ToldOk
  BY DEF Busy, FreshIInv
<1>2. /\ told' = [accepted |-> told'.accepted, refused |-> told'.refused, overlap |-> told'.overlap,
                  clicks |-> told'.clicks, leaves |-> told'.leaves]
      /\ told'.accepted = told.accepted /\ told'.refused = told.refused /\ told'.leaves = told.leaves
      /\ told'.overlap \in BOOLEAN /\ (told'.overlap <=> told.overlap \/ Busy)
  BY <1>0, <1>1, ClickIs
<1>3. /\ page' \in DemoState /\ page'.user = page.user /\ page'.mode = m /\ page'.proof = NoProof
      /\ page'.stage = "idle"
  BY <1>0, FreshFacts, NoProofIs DEF DemoState, FreshStages
<1>4. DemoOk'
  BY <1>0, <1>3, NoProofIs DEF DemoOk
<1>5. CallsOk'
  BY <1>0, <1>3 DEF FreshIInv, CallsOk
<1>6. UserProofAccepted'
  BY <1>0, <1>2, <1>3 DEF FreshIInv, ToldOk, UserProofAccepted, IsKnownRootOf
<1>7. ToldOk'
  BY <1>0, <1>2, <1>3, <1>6 DEF FreshIInv, ToldOk, Busy
<1> QED BY <1>0, <1>2, <1>3, <1>4, <1>5, <1>7, PageStepKeeps

LEMMA MoveSliderKeeps == ASSUME FreshIInv, MoveSlider PROVE FreshIInv'
<1>0. told' = Clicked(FALSE) /\ UNCHANGED <<rows, posted, mined, probe, calls>>
  BY DEF MoveSlider
<1>1. ToldOk
  BY DEF FreshIInv
<1>2. /\ told' = [accepted |-> told'.accepted, refused |-> told'.refused, overlap |-> told'.overlap,
                  clicks |-> told'.clicks, leaves |-> told'.leaves]
      /\ told'.accepted = told.accepted /\ told'.refused = told.refused /\ told'.leaves = told.leaves
      /\ told'.overlap \in BOOLEAN /\ (told'.overlap <=> told.overlap)
  BY <1>0, <1>1, ClickIs
<1>3. /\ page' \in DemoState /\ page'.user = page.user /\ page'.mode = page.mode /\ page'.proof = page.proof
      /\ page'.stage = page.stage /\ page'.verified = page.verified
  <2>1. PICK d \in Days : page' = [page EXCEPT !.window = d] \/ page' = [page EXCEPT !.age = d]
    BY DEF MoveSlider
  <2> QED BY <2>1, FreshFacts DEF DemoState
<1>4. DemoOk'
  BY <1>3 DEF FreshIInv, DemoOk
<1>5. CallsOk'
  BY <1>0, <1>3 DEF FreshIInv, CallsOk
<1>6. UserProofAccepted'
  BY <1>0, <1>2, <1>3 DEF FreshIInv, ToldOk, UserProofAccepted, IsKnownRootOf
<1>7. ToldOk'
  BY <1>0, <1>2, <1>3, <1>6 DEF FreshIInv, ToldOk
<1> QED BY <1>0, <1>2, <1>3, <1>4, <1>5, <1>7, PageStepKeeps

LEMMA HandleGenerateKeeps == ASSUME FreshIInv, HandleGenerate PROVE FreshIInv'
<1> DEFINE asked == calls.proving \cup {Witness}
<1>0. /\ page' = [page EXCEPT !.stage = "generating", !.proof = NoProof, !.verified = "none"]
      /\ calls' = [calls EXCEPT !.proving = asked]
      /\ told' = Clicked(Busy) /\ UNCHANGED <<rows, posted, mined, probe>>
  BY DEF HandleGenerate
<1>1. Busy \in BOOLEAN /\ ToldOk
  BY DEF Busy, FreshIInv
<1>2. /\ told' = [accepted |-> told'.accepted, refused |-> told'.refused, overlap |-> told'.overlap,
                  clicks |-> told'.clicks, leaves |-> told'.leaves]
      /\ told'.accepted = told.accepted /\ told'.refused = told.refused /\ told'.leaves = told.leaves
      /\ told'.overlap \in BOOLEAN /\ (told'.overlap <=> told.overlap \/ Busy)
  BY <1>0, <1>1, ClickIs
<1>3. /\ page' \in DemoState /\ page'.user = page.user /\ page'.mode = page.mode /\ page'.proof = NoProof
      /\ page'.stage = "generating"
  BY <1>0, FreshFacts, NoProofIs DEF DemoState, FreshStages
<1>4. \A w \in asked : WitnessOk(w, page.user)
  BY WitnessIs DEF FreshIInv, CallsOk
<1> HIDE DEF asked
<1>5. calls' = [proving |-> asked, verifying |-> calls.verifying]
  BY <1>0 DEF FreshIInv, CallsOk
<1>6. DemoOk'
  BY <1>3, NoProofIs DEF FreshIInv, DemoOk
<1>7. CallsOk'
  BY <1>3, <1>4, <1>5 DEF FreshIInv, CallsOk
<1>8. UserProofAccepted'
  BY <1>0, <1>2, <1>3 DEF FreshIInv, ToldOk, UserProofAccepted, IsKnownRootOf
<1>9. ToldOk'
  BY <1>2, <1>3, <1>5, <1>8 DEF FreshIInv, ToldOk, Busy
<1> QED BY <1>0, <1>2, <1>3, <1>6, <1>7, <1>9, PageStepKeeps

LEMMA HandleVerifyKeeps == ASSUME FreshIInv, HandleVerify PROVE FreshIInv'
<1> DEFINE new == [proof |-> page.proof, group |-> GroupForVerify, mode |-> page.mode]
           asked == calls.verifying \cup {new}
<1>0. /\ page' = [page EXCEPT !.stage = "verifying"] /\ calls' = [calls EXCEPT !.verifying = asked]
      /\ told' = Clicked(Busy) /\ UNCHANGED <<rows, posted, mined, probe>>
  BY DEF HandleVerify
<1>1. Busy \in BOOLEAN /\ ToldOk
  BY DEF Busy, FreshIInv
<1>2. /\ told' = [accepted |-> told'.accepted, refused |-> told'.refused, overlap |-> told'.overlap,
                  clicks |-> told'.clicks, leaves |-> told'.leaves]
      /\ told'.accepted = told.accepted /\ told'.refused = told.refused /\ told'.leaves = told.leaves
      /\ told'.overlap \in BOOLEAN /\ (told'.overlap <=> told.overlap \/ Busy)
  BY <1>0, <1>1, ClickIs
<1>3. /\ page' \in DemoState /\ page'.user = page.user /\ page'.mode = page.mode /\ page'.proof = page.proof
      /\ page'.stage = "verifying"
  BY <1>0, FreshFacts DEF DemoState, FreshStages
<1>4. new.proof = page.proof /\ AskedOk(new, page.user)
  BY DEF FreshIInv, DemoOk, AskedOk, GroupForVerify
<1> HIDE DEF new
<1>5. \A v \in asked : AskedOk(v, page.user)
  BY <1>4 DEF FreshIInv, CallsOk
<1>6. calls.verifying = {} => \A v \in asked : v.proof = page.proof
  BY <1>4
<1> HIDE DEF asked
<1>7. calls' = [proving |-> calls.proving, verifying |-> asked]
  BY <1>0 DEF FreshIInv, CallsOk
<1>8. DemoOk'
  BY <1>3 DEF FreshIInv, DemoOk
<1>9. CallsOk'
  BY <1>3, <1>5, <1>7 DEF FreshIInv, CallsOk
<1>10. UserProofAccepted'
  BY <1>0, <1>2, <1>3 DEF FreshIInv, ToldOk, UserProofAccepted, IsKnownRootOf
<1>11. ToldOk'
  BY <1>2, <1>3, <1>6, <1>7, <1>10 DEF FreshIInv, ToldOk, Busy
<1> QED BY <1>0, <1>2, <1>3, <1>8, <1>9, <1>11, PageStepKeeps

LEMMA GeneratedKeeps == ASSUME FreshIInv, NEW w \in calls.proving, Generated(w) PROVE FreshIInv'
<1> DEFINE asked == calls.proving \ {w}
<1>0. /\ page' = [page EXCEPT !.stage = "generated", !.proof = w.proof] /\ calls' = [calls EXCEPT !.proving = asked]
      /\ UNCHANGED <<rows, posted, mined, probe, told>> /\ w.issued >= w.proof.earliest
  BY DEF Generated, CircuitHolds
<1>1. OwnProof(w.proof, page.user) /\ w.proof \in PageProof /\ w.issued \in Int
      /\ (w.proof.warned => w.issued < w.proof.earliest)
  BY DEF FreshIInv, CallsOk, WitnessOk, OwnProof
<1>2. ~w.proof.warned
  BY <1>0, <1>1 DEF PageProof
<1>3. /\ page' \in DemoState /\ page'.user = page.user /\ page'.mode = page.mode /\ page'.proof = w.proof
      /\ page'.stage = "generated"
  BY <1>0, <1>1, FreshFacts DEF DemoState, FreshStages
<1>4. asked \subseteq calls.proving
  OBVIOUS
<1> HIDE DEF asked
<1>5. calls' = [proving |-> asked, verifying |-> calls.verifying]
  BY <1>0 DEF FreshIInv, CallsOk
<1>6. DemoOk'
  BY <1>1, <1>2, <1>3 DEF FreshIInv, DemoOk
<1>7. CallsOk'
  BY <1>3, <1>4, <1>5 DEF FreshIInv, CallsOk
<1>8. UserProofAccepted'
  BY <1>0, <1>3 DEF FreshIInv, ToldOk, UserProofAccepted, IsKnownRootOf
<1>9. ToldOk'
  BY <1>0, <1>3, <1>4, <1>5, <1>8 DEF FreshIInv, ToldOk
<1> QED BY <1>0, <1>3, <1>6, <1>7, <1>9, PageStepKeeps

LEMMA GenerateFailsKeeps == ASSUME FreshIInv, NEW w \in calls.proving, GenerateFails(w) PROVE FreshIInv'
<1> DEFINE asked == calls.proving \ {w}
<1>0. /\ page' = [page EXCEPT !.stage = "error"] /\ calls' = [calls EXCEPT !.proving = asked]
      /\ UNCHANGED <<rows, posted, mined, probe, told>>
  BY DEF GenerateFails
<1>1. /\ page' \in DemoState /\ page'.user = page.user /\ page'.mode = page.mode /\ page'.proof = page.proof
      /\ page'.stage = "error"
  BY <1>0, FreshFacts DEF DemoState, FreshStages
<1>2. asked \subseteq calls.proving
  OBVIOUS
<1> HIDE DEF asked
<1>3. calls' = [proving |-> asked, verifying |-> calls.verifying]
  BY <1>0 DEF FreshIInv, CallsOk
<1>4. DemoOk'
  BY <1>1 DEF FreshIInv, DemoOk
<1>5. CallsOk'
  BY <1>1, <1>2, <1>3 DEF FreshIInv, CallsOk
<1>6. UserProofAccepted'
  BY <1>0, <1>1 DEF FreshIInv, ToldOk, UserProofAccepted, IsKnownRootOf
<1>7. ToldOk'
  BY <1>0, <1>1, <1>2, <1>3, <1>6 DEF FreshIInv, ToldOk
<1> QED BY <1>0, <1>1, <1>4, <1>5, <1>7, PageStepKeeps

\* An answer the chain did not give: the simulation, or a failed call.
LEMMA NoAnswerKeeps ==
    ASSUME FreshIInv, NEW v \in calls.verifying, VerifySimulated(v) \/ VerifyFails(v)
    PROVE  FreshIInv'
<1> DEFINE asked == calls.verifying \ {v}
<1>0. /\ calls' = [calls EXCEPT !.verifying = asked] /\ UNCHANGED <<rows, posted, mined, probe, told>>
      /\ \/ page' = [page EXCEPT !.stage = "verified-ok", !.verified = "simulated"]
         \/ page' = [page EXCEPT !.stage = "error"]
  BY DEF VerifySimulated, VerifyFails
<1>1. /\ page' \in DemoState /\ page'.user = page.user /\ page'.mode = page.mode /\ page'.proof = page.proof
      /\ ~(page'.stage = "verified-ok" /\ page'.verified = "onchain")
  <2>1. CASE page' = [page EXCEPT !.stage = "verified-ok", !.verified = "simulated"]
    BY <2>1, FreshFacts DEF DemoState, FreshStages
  <2>2. CASE page' = [page EXCEPT !.stage = "error"]
    BY <2>2, FreshFacts DEF DemoState, FreshStages
  <2> QED BY <1>0, <2>1, <2>2
<1>2. asked \subseteq calls.verifying
  OBVIOUS
<1> HIDE DEF asked
<1>3. calls' = [proving |-> calls.proving, verifying |-> asked]
  BY <1>0 DEF FreshIInv, CallsOk
<1>4. DemoOk'
  BY <1>1 DEF FreshIInv, DemoOk
<1>5. CallsOk'
  BY <1>1, <1>2, <1>3 DEF FreshIInv, CallsOk
<1>6. UserProofAccepted'
  BY <1>0, <1>1 DEF FreshIInv, ToldOk, UserProofAccepted, IsKnownRootOf
<1>7. ToldOk'
  BY <1>0, <1>1, <1>2, <1>3, <1>6 DEF FreshIInv, ToldOk
<1> QED BY <1>0, <1>1, <1>4, <1>5, <1>7, PageStepKeeps

LEMMA VerifyAnsweredKeeps ==
    ASSUME FreshIInv, NEW v \in calls.verifying, VerifyAnswered(v)
    PROVE  FreshIInv'
<1> DEFINE asked == calls.verifying \ {v}
           known == IsKnownRootOf(v.group, v.proof.root)
           yes == told.accepted \cup {v.proof}
           no == told.refused \cup {v}
<1>0. /\ calls' = [calls EXCEPT !.verifying = asked] /\ UNCHANGED <<rows, posted, mined, probe>>
      /\ page' = [page EXCEPT !.stage = Verified(known), !.verified = "onchain"]
      /\ told' = IF known THEN [told EXCEPT !.accepted = yes] ELSE [told EXCEPT !.refused = no]
  BY DEF VerifyAnswered
<1>1. asked \subseteq calls.verifying /\ v.proof \in yes /\ told.accepted \subseteq yes
  OBVIOUS
<1>2. AskedOk(v, page.user)
  BY DEF FreshIInv, CallsOk
<1> HIDE DEF asked, yes
<1>3. calls' = [proving |-> calls.proving, verifying |-> asked]
  BY <1>0 DEF FreshIInv, CallsOk
<1>4. PICK r, s, o, k, n : told = [accepted |-> r, refused |-> s, overlap |-> o, clicks |-> k, leaves |-> n]
  BY DEF FreshIInv, ToldOk
<1>5. CASE known
  <2>1. told' = [accepted |-> yes, refused |-> s, overlap |-> o, clicks |-> k, leaves |-> n]
    BY <1>0, <1>4, <1>5
  <2>2. page' = [page EXCEPT !.stage = "verified-ok", !.verified = "onchain"]
    BY <1>0, <1>5 DEF Verified
  <2>3. /\ page' \in DemoState /\ page'.user = page.user /\ page'.mode = page.mode /\ page'.proof = page.proof
    BY <2>2, FreshFacts DEF DemoState, FreshStages
  <2>4. /\ told' = [accepted |-> told'.accepted, refused |-> told'.refused, overlap |-> told'.overlap,
                    clicks |-> told'.clicks, leaves |-> told'.leaves]
        /\ told'.accepted = yes /\ told'.refused = told.refused /\ told'.overlap = told.overlap
        /\ told'.leaves = told.leaves
    BY <1>4, <2>1
  <2>5. DemoOk'
    BY <2>3 DEF FreshIInv, DemoOk
  <2>6. CallsOk'
    BY <1>1, <1>3, <2>3 DEF FreshIInv, CallsOk
  <2>7. UserProofAccepted'
    BY <1>0, <2>3, <2>4 DEF FreshIInv, ToldOk, UserProofAccepted, IsKnownRootOf
  <2>8. yes # {} /\ (~told.overlap => page.proof \in yes)
    BY <1>1 DEF FreshIInv, ToldOk
  <2>9. ToldOk'
    BY <1>1, <1>3, <2>3, <2>4, <2>7, <2>8 DEF FreshIInv, ToldOk
  <2> QED BY <1>0, <2>3, <2>4, <2>5, <2>6, <2>9, PageStepKeeps
<1>6. CASE ~known
  <2>0. \A x \in no : x \in told.refused \/ x = v
    OBVIOUS
  <2> HIDE DEF no
  <2>1. told' = [accepted |-> r, refused |-> no, overlap |-> o, clicks |-> k, leaves |-> n]
    BY <1>0, <1>4, <1>6
  <2>2. page' = [page EXCEPT !.stage = "verified-fail", !.verified = "onchain"]
    BY <1>0, <1>6 DEF Verified
  <2>3. /\ page' \in DemoState /\ page'.user = page.user /\ page'.mode = page.mode /\ page'.proof = page.proof
        /\ page'.stage = "verified-fail"
    BY <2>2, FreshFacts DEF DemoState, FreshStages
  <2>4. /\ told' = [accepted |-> told'.accepted, refused |-> told'.refused, overlap |-> told'.overlap,
                    clicks |-> told'.clicks, leaves |-> told'.leaves]
        /\ told'.accepted = told.accepted /\ told'.refused = no /\ told'.overlap = told.overlap
        /\ told'.leaves = told.leaves
    BY <1>4, <2>1
  <2>5. DemoOk'
    BY <2>3 DEF FreshIInv, DemoOk
  <2>6. CallsOk'
    BY <1>1, <1>3, <2>3 DEF FreshIInv, CallsOk
  <2>7. UserProofAccepted'
    <3> SUFFICES ASSUME NEW x \in no, x.mode = "user", x.proof.from = "user"
                 PROVE  ~IsKnownRootOf(page.user.group, x.proof.root)
      BY <1>0, <2>3, <2>4 DEF UserProofAccepted, IsKnownRootOf
    <3>1. CASE x \in told.refused
      BY <3>1 DEF FreshIInv, ToldOk, UserProofAccepted
    <3>2. CASE x = v
      BY <1>2, <1>6, <3>2 DEF AskedOk
    <3> QED BY <2>0, <3>1, <3>2
  <2>8. \A x \in no : AskedOk(x, page.user)
    BY <1>2, <2>0 DEF FreshIInv, ToldOk
  <2>9. ToldOk'
    BY <1>1, <1>3, <2>3, <2>4, <2>7, <2>8 DEF FreshIInv, ToldOk
  <2> QED BY <1>0, <2>3, <2>4, <2>5, <2>6, <2>9, PageStepKeeps
<1> QED BY <1>5, <1>6

LEMMA FreshStepKeeps == FreshIInv /\ [FreshNext]_freshVars => FreshIInv'
<1> SUFFICES ASSUME FreshIInv, [FreshNext]_freshVars PROVE FreshIInv'
  OBVIOUS
<1>1. CASE \E g \in Groups : PostLeaf(g, Other, DemoTime) \/ \E t \in IssuanceTimes : PostLeaf(g, User, t)
  BY <1>1, PostLeafKeeps, FreshConstants
<1>2. CASE RecordLeaf
  BY <1>2, RecordLeafKeeps
<1>3. CASE ProbeIdentity \/ ProbeTree \/ ProbeFails
  BY <1>3, ProbeIdentityKeeps, ProbeTreeKeeps, ProbeFailsKeeps
<1>4. CASE \E m \in Modes : SwitchMode(m)
  BY <1>4, SwitchModeKeeps
<1>5. CASE MoveSlider \/ HandleGenerate \/ HandleVerify
  BY <1>5, MoveSliderKeeps, HandleGenerateKeeps, HandleVerifyKeeps
<1>6. CASE \E w \in calls.proving : Generated(w) \/ GenerateFails(w)
  BY <1>6, GeneratedKeeps, GenerateFailsKeeps
<1>7. CASE \E v \in calls.verifying : VerifySimulated(v) \/ VerifyAnswered(v) \/ VerifyFails(v)
  BY <1>7, NoAnswerKeeps, VerifyAnsweredKeeps
<1>8. CASE UNCHANGED freshVars
  BY <1>8 DEF freshVars, FreshIInv, BackendOk, Pending, VisitorOk, DemoOk, CallsOk, ToldOk,
              UserProofAccepted, IsKnownRootOf
<1> QED BY <1>1, <1>2, <1>3, <1>4, <1>5, <1>6, <1>7, <1>8 DEF FreshNext

LEMMA FreshStarts == FreshInit => FreshIInv
<1> SUFFICES ASSUME FreshInit PROVE FreshIInv
  OBVIOUS
<1>1. \A g \in Groups : Len(rows[g]) = 0 /\ Pending(g) = 0
  BY DEF FreshInit, Pending
<1>2. BackendOk
  <2>1. rows \in [Groups -> Seq(RowLeaves)]
    BY DEF FreshInit
  <2>2. \A g \in Groups : \E U : posted[g] \in Seq(U)
    <3> TAKE g \in Groups
    <3> DEFINE root == TreeRoot(SeededTree)
    <3>0. posted[g] = <<root>> \/ posted[g] = << >>
      BY DEF FreshInit
    <3> HIDE DEF root
    <3>1. <<root>> \in Seq({root}) /\ << >> \in Seq({root})
      OBVIOUS
    <3>2. posted[g] \in Seq({root})
      BY <3>0, <3>1
    <3> QED BY <3>2
  <2>3. posted = [g \in Groups |-> posted[g]] /\ mined = NoLeaf /\ told.leaves = 0
    BY DEF FreshInit
  <2> QED BY <1>1, <2>1, <2>2, <2>3, FreshConstants DEF BackendOk
<1>3. NoUser \in Visitor
  BY FreshConstants DEF NoUser, Visitor
<1>4. page \in DemoState /\ page.user = NoUser /\ page.proof = NoProof /\ page.mode = "live" /\ page.stage = "idle"
  BY <1>3, NoProofIs DEF FreshInit, DemoState, Modes, FreshStages
<1>5. VisitorOk
  BY <1>4 DEF VisitorOk, FreshInit
<1>6. DemoOk
  BY <1>4, NoProofIs DEF DemoOk
<1>7. CallsOk
  BY DEF CallsOk, FreshInit
<1>8. ToldOk
  BY <1>4 DEF FreshInit, ToldOk, UserProofAccepted
<1> QED BY <1>2, <1>5, <1>6, <1>7, <1>8 DEF FreshIInv

THEOREM FreshInvariance == FreshSpec => []FreshIInv
BY FreshStarts, FreshStepKeeps, PTL DEF FreshSpec

\* The index the API gives of the visitor's leaf is one of the tree.
LEMMA FreshImplies == FreshIInv => FreshInv
<1> SUFFICES ASSUME FreshIInv PROVE FreshInv
  OBVIOUS
<1>1. /\ page \in DemoState /\ page.user \in Visitor /\ page.user.group \in Groups
      /\ \A g \in Groups : rows[g] \in Seq(RowLeaves) /\ Len(rows[g]) \in Nat /\ Len(rows[g]) <= MaxLeaves
  BY FreshFacts
<1>2. MaxLeaves \in Nat /\ Width[Depth] \in Nat \ {0} /\ MaxLeaves <= Width[Depth]
  BY FreshConstants
<1>3. TreeIsMerkle
  <2> SUFFICES ASSUME NEW g \in Groups
               PROVE  /\ TreeRoot(rows[g]) = FullTreeRoot(rows[g])
                      /\ \A i \in 0..(Len(rows[g]) - 1) :
                             Climb(rows[g][i + 1], TreeProof(rows[g], i)) = TreeRoot(rows[g])
    BY DEF TreeIsMerkle
  <2> QED BY <1>1, <1>2, FullRoot, PathClimbs
<1>4. FreshTypeOK
  <2>1. page.user.index \in 0..(Width[Depth] - 1)
    <3>1. CASE page.user = NoUser
      BY <1>2, <3>1 DEF NoUser
    <3>2. CASE page.user # NoUser
      <4> DEFINE a == Len(page.user.leaves)
                 b == Len(rows[page.user.group])
      <4>1. page.user.index \in Nat /\ a \in Nat /\ b \in Nat /\ b <= MaxLeaves
        BY <1>1 DEF Visitor
      <4>2. page.user.index < a /\ a <= b
        BY <3>2 DEF FreshIInv, VisitorOk, OfUser
      <4> HIDE DEF a, b
      <4> QED BY <1>2, <4>1, <4>2
    <3> QED BY <3>1, <3>2
  <2> QED BY <1>1, <2>1 DEF FreshTypeOK, DemoState, Visitor
<1>5. LeafServed
  BY DEF FreshIInv, VisitorOk, OfUser, LeafServed
<1>6. WarnedIsRefused /\ GreenBacked /\ UserProofAccepted
  BY DEF FreshIInv, DemoOk, ToldOk, WarnedIsRefused, GreenBacked
<1> QED BY <1>3, <1>4, <1>5, <1>6 DEF FreshInv

\* Whatever the backend posts in between and whatever the visitor clicks, the
\* tree of every group is a Merkle tree all of whose leaves can be proved, the
\* leaf served is the visitor's, the circuit refuses what the page warns of, a
\* green result is one of the chain, and a refused proof of the visitor's own
\* leaf is one whose root has left the window.
THEOREM DemoShowsWhatHolds == FreshSpec => []FreshInv
BY FreshInvariance, FreshImplies, PTL

-----------------------------------------------------------------------------
(* The local checks of a document and of a face                            *)

LEMMA UpTo ==
    ASSUME NEW n \in Nat, NEW T, 0 \in T, \A m \in 0..(n - 1) : m \in T => m + 1 \in T
    PROVE  \A l \in 0..n : l \in T
<1> DEFINE Bad == {l \in 0..n : l \notin T}
<1>1. ASSUME Bad # {} PROVE FALSE
  <2>1. PICK m \in Bad : \A k \in Bad : m <= k
    <3>1. Bad \subseteq Nat
      OBVIOUS
    <3> HIDE DEF Bad
    <3> QED BY <1>1, <3>1, LeastElement
  <2>2. m \in 1..n /\ m \notin T
    BY <2>1
  <2>3. m - 1 \in 0..n /\ m - 1 \in 0..(n - 1) /\ (m - 1) + 1 = m /\ ~ (m <= m - 1)
    BY <2>2
  <2>4. m - 1 \notin Bad
    <3> HIDE DEF Bad
    <3> QED BY <2>1, <2>3
  <2> QED BY <2>2, <2>3, <2>4
<1> QED BY <1>1

LEMMA OneMore ==
    ASSUME NEW n \in Nat
    PROVE  /\ \A k \in 1..(n + 1) : k \in 1..n \/ k = n + 1
           /\ n + 1 \in 1..(n + 1)
           /\ \A k \in 1..n : k \in 1..(n + 1) /\ k < n + 1 /\ ~ (n + 1 < k)
           /\ ~ (n + 1 < n + 1)
OBVIOUS

LEMMA LeastOf ==
    ASSUME NEW I, I \subseteq Nat, NEW k \in I, \A j \in I : k <= j
    PROVE  (CHOOSE x \in I : \A y \in I : x <= y) = k
<1> DEFINE c == CHOOSE x \in I : \A y \in I : x <= y
<1>1. c \in I /\ c <= k /\ k <= c /\ c \in Nat /\ k \in Nat
  OBVIOUS
<1> HIDE DEF c
<1>2. c = k
  BY <1>1
<1> QED BY <1>2 DEF c

(* A function each of whose values is computed from the one before exists. *)
Computed(f, n, V, start, step) ==
    /\ f \in [0..n -> V] /\ f[0] = start
    /\ \A i \in 1..n : f[i] = step[i][f[i - 1]]

LEMMA StepsExist ==
    ASSUME NEW n \in Nat, NEW V, NEW start \in V, NEW step \in [1..n -> [V -> V]]
    PROVE  \E f : Computed(f, n, V, start, step)
<1> DEFINE Is(f, m) == /\ f \in [0..m -> V] /\ f[0] = start
                       /\ \A i \in 1..m : f[i] = step[i][f[i - 1]]
           Built == {m \in 0..n : \E f : Is(f, m)}
<1>1. 0 \in Built
  <2> DEFINE f == [i \in 0..0 |-> start]
  <2>1. f \in [0..0 -> V] /\ f[0] = start /\ 1..0 = {} /\ 0 \in 0..n
    OBVIOUS
  <2> HIDE DEF f
  <2>2. Is(f, 0)
    BY <2>1
  <2> QED BY <2>1, <2>2
<1>2. ASSUME NEW m \in 0..(n - 1), m \in Built PROVE m + 1 \in Built
  <2>1. PICK f : Is(f, m)
    BY <1>2
  <2>2. m \in 0..m /\ m + 1 \in 0..n /\ m + 1 \in 1..n /\ m + 1 \notin 0..m /\ (m + 1) - 1 = m
    OBVIOUS
  <2>3. PICK v : v = step[m + 1][f[m]]
    OBVIOUS
  <2>4. v \in V
    BY <2>1, <2>2, <2>3
  <2> DEFINE g == [i \in 0..(m + 1) |-> IF i = m + 1 THEN v ELSE f[i]]
  <2>5. \A i \in 0..(m + 1) : i = m + 1 \/ i \in 0..m
    OBVIOUS
  <2>6. g \in [0..(m + 1) -> V]
    BY <2>1, <2>4, <2>5
  <2>7. \A i \in 0..m : g[i] = f[i]
    BY <2>2
  <2>8. g[m + 1] = v
    OBVIOUS
  <2> HIDE DEF g
  <2>9. \A i \in 1..(m + 1) : g[i] = step[i][g[i - 1]]
    <3> TAKE i \in 1..(m + 1)
    <3>1. CASE i = m + 1
      BY <2>2, <2>3, <2>7, <2>8, <3>1
    <3>2. CASE i # m + 1
      <4>1. i \in 1..m /\ i \in 0..m /\ i - 1 \in 0..m
        BY <3>2
      <4> QED BY <2>1, <2>7, <4>1
    <3> QED BY <3>1, <3>2
  <2>10. g[0] = start
    BY <2>1, <2>7
  <2>11. Is(g, m + 1)
    BY <2>6, <2>9, <2>10
  <2> QED BY <2>2, <2>11
<1>3. \A m \in 0..n : m \in Built
  <2> HIDE DEF Built
  <2> QED BY <1>1, <1>2, UpTo
<1>4. n \in Built
  BY <1>3
<1> QED BY <1>4 DEF Computed

(* A sum of numbers. *)
LEMMA SumsExist ==
    ASSUME NEW n \in Nat, NEW a \in [1..n -> Nat]
    PROVE  \E f : f = [k \in 0..n |-> IF k = 0 THEN 0 ELSE f[k - 1] + a[k]]
<1> DEFINE step == [k \in 1..n |-> [v \in Nat |-> v + a[k]]]
<1>1. step \in [1..n -> [Nat -> Nat]] /\ \A k \in 1..n : \A v \in Nat : step[k][v] = v + a[k]
  OBVIOUS
<1> HIDE DEF step
<1>2. PICK f \in [0..n -> Nat] : f[0] = 0 /\ \A i \in 1..n : f[i] = step[i][f[i - 1]]
  <2>1. 0 \in Nat
    OBVIOUS
  <2>2. \E f : Computed(f, n, Nat, 0, step)
    BY <1>1, <2>1, StepsExist
  <2> QED BY <2>2 DEF Computed
<1>3. \A k \in 0..n : f[k] = IF k = 0 THEN 0 ELSE f[k - 1] + a[k]
  <2> TAKE k \in 0..n
  <2>1. k # 0 => k \in 1..n /\ k - 1 \in 0..n
    OBVIOUS
  <2> QED BY <1>1, <1>2, <2>1
<1>4. f = [k \in 0..n |-> f[k]]
  OBVIOUS
<1>5. f = [k \in 0..n |-> IF k = 0 THEN 0 ELSE f[k - 1] + a[k]]
  BY <1>3, <1>4
<1> QED BY <1>5

LEMMA SumsGrow ==
    ASSUME NEW n \in Nat, NEW a \in [1..n -> Nat], NEW least \in Nat, \A k \in 1..n : a[k] >= least,
           NEW f, f = [k \in 0..n |-> IF k = 0 THEN 0 ELSE f[k - 1] + a[k]]
    PROVE  f[n] \in Nat /\ (n > 0 => f[n] >= least)
<1> DEFINE T == {k \in 0..n : f[k] \in Nat /\ (k > 0 => f[k] >= least)}
<1>1. f[0] = 0
  <2>1. 0 \in 0..n
    OBVIOUS
  <2> QED BY <2>1, Zenon
<1>2. \A k \in 1..n : f[k] = f[k - 1] + a[k]
  <2> TAKE k \in 1..n
  <2>1. k \in 0..n /\ k # 0
    OBVIOUS
  <2> QED BY <2>1, Zenon
<1>3. 0 \in T
  BY <1>1
<1>4. ASSUME NEW m \in 0..(n - 1), m \in T PROVE m + 1 \in T
  <2>1. m + 1 \in 1..n /\ (m + 1) - 1 = m
    OBVIOUS
  <2>2. f[m + 1] = f[m] + a[m + 1]
    BY <1>2, <2>1
  <2> QED BY <1>4, <2>1, <2>2
<1>5. \A k \in 0..n : k \in T
  <2> HIDE DEF T
  <2> QED BY <1>3, <1>4, UpTo
<1> QED BY <1>5

-----------------------------------------------------------------------------
(* The image *)

LEMMA Quotient ==
    ASSUME NEW a \in Int, NEW b \in Nat \ {0}, NEW q \in Int, q * b <= a, a < (q + 1) * b
    PROVE  a \div b = q
<1> DEFINE d == a \div b
<1>1. d \in Int /\ d * b <= a /\ a < d * b + b
  OBVIOUS
<1> HIDE DEF d
<1>2. CASE d < q
  <2>1. (d + 1) * b <= q * b
    BY <1>1, <1>2
  <2> QED BY <1>1, <2>1
<1>3. CASE d > q
  <2>1. (q + 1) * b <= d * b
    BY <1>1, <1>3
  <2> QED BY <1>1, <2>1
<1>4. d = q
  BY <1>1, <1>2, <1>3
<1> QED BY <1>4 DEF d

LEMMA DivMonotone ==
    ASSUME NEW a \in Int, NEW c \in Int, a <= c, NEW b \in Nat \ {0}
    PROVE  a \div b <= c \div b
<1> DEFINE p == a \div b
           q == c \div b
<1>1. p \in Int /\ p * b <= a /\ a < p * b + b
  OBVIOUS
<1>2. q \in Int /\ q * b <= c /\ c < q * b + b
  OBVIOUS
<1> HIDE DEF p, q
<1>3. ASSUME q < p PROVE FALSE
  <2>1. (q + 1) * b <= p * b
    BY <1>1, <1>2, <1>3
  <2> QED BY <1>1, <1>2, <2>1
<1>4. p <= q
  BY <1>1, <1>2, <1>3
<1> QED BY <1>4 DEF p, q

LEMMA DocumentConstants ==
    /\ Grays \subseteq Nat /\ Edges \subseteq Nat \ {0} /\ Distances \subseteq Nat /\ Ears \subseteq Nat
    /\ MaxLines \in Nat /\ MaxPixels \in Nat /\ MaxFrames \in Nat /\ StableFrames \in Nat
<1>1. 0..255 \subseteq Nat
  OBVIOUS
<1> QED BY <1>1, KYCDocumentAssumption DEF KYCDocumentAssumption

LEMMA PixelsSummed ==
    ASSUME NEW pixels \in Seq(Grays)
    PROVE  \E total \in Nat : \A g : Stretch(pixels, g) =
               Clamp(((g * Len(pixels) - total) * 16 + total * 10 + 5 * Len(pixels)) \div (10 * Len(pixels)), 0, 255)
<1> DEFINE n == Len(pixels)
           sum == CHOOSE f : f = [k \in 0..n |-> IF k = 0 THEN 0 ELSE f[k - 1] + pixels[k]]
<1>1. n \in Nat /\ pixels \in [1..n -> Nat]
  <2>1. n \in Nat /\ pixels \in [1..n -> Grays]
    OBVIOUS
  <2> HIDE DEF n
  <2> QED BY <2>1, DocumentConstants
<1>2. \A g : Stretch(pixels, g) = Clamp(((g * n - sum[n]) * 16 + sum[n] * 10 + 5 * n) \div (10 * n), 0, 255)
  BY Zenon DEF Stretch
<1> HIDE DEF n
<1>3. sum = [k \in 0..n |-> IF k = 0 THEN 0 ELSE sum[k - 1] + pixels[k]]
  BY <1>1, SumsExist, Zenon
<1> HIDE DEF sum
<1>4. sum[n] \in Nat
  <2>1. 0 \in Nat /\ \A k \in 1..n : pixels[k] >= 0
    BY <1>1
  <2> QED BY <1>1, <1>3, <2>1, SumsGrow
<1> QED BY <1>2, <1>4 DEF n

LEMMA StretchMonotone ==
    ASSUME NEW pixels \in Seq(Grays), pixels # << >>, NEW g \in Grays, NEW h \in Grays, g <= h
    PROVE  Stretch(pixels, g) <= Stretch(pixels, h)
<1>1. PICK total \in Nat : \A v : Stretch(pixels, v) =
               Clamp(((v * Len(pixels) - total) * 16 + total * 10 + 5 * Len(pixels)) \div (10 * Len(pixels)), 0, 255)
  BY PixelsSummed
<1>2. PICK n : n = Len(pixels)
  OBVIOUS
<1>3. n \in Nat \ {0} /\ g \in Nat /\ h \in Nat
  BY <1>2, DocumentConstants
<1>4. g * n \in Nat /\ h * n \in Nat /\ g * n <= h * n
  BY <1>3
<1>5. PICK a, b : /\ a = (g * n - total) * 16 + total * 10 + 5 * n
                  /\ b = (h * n - total) * 16 + total * 10 + 5 * n
  OBVIOUS
<1>6. a \in Int /\ b \in Int /\ a <= b
  BY <1>3, <1>4, <1>5
<1>7. 10 * n \in Nat \ {0}
  BY <1>3
<1>8. PICK p, q : p = a \div (10 * n) /\ q = b \div (10 * n)
  OBVIOUS
<1>9. p <= q
  BY <1>6, <1>7, <1>8, DivMonotone
<1>10. p \in Int /\ q \in Int
  BY <1>6, <1>7, <1>8
<1>11. Stretch(pixels, g) = Clamp(p, 0, 255) /\ Stretch(pixels, h) = Clamp(q, 0, 255)
  BY <1>1, <1>2, <1>5, <1>8
<1>12. Clamp(p, 0, 255) <= Clamp(q, 0, 255)
  BY <1>9, <1>10 DEF Clamp
<1> QED BY <1>11, <1>12

LEMMA LongEdge ==
    ASSUME NEW long \in Edges PROVE Upscaled(long, long) >= 1600
<1>1. long \in Nat \ {0}
  BY DocumentConstants
<1>2. (2 * long * 1600 + long) \div (2 * long) = 1600
  <2>1. 2 * long * 1600 + long \in Int /\ 2 * long \in Nat \ {0}
    BY <1>1
  <2>2. 1600 * (2 * long) <= 2 * long * 1600 + long /\ 2 * long * 1600 + long < (1600 + 1) * (2 * long)
    BY <1>1
  <2> QED BY <2>1, <2>2, Quotient
<1> QED BY <1>1, <1>2 DEF Upscaled

(* The image shown is the one prepared from the image given. *)
ImagePrepared ==
    \/ doc.original = NoImage /\ doc.prepared = NoImage
    \/ \E w \in Edges, h \in Edges, pixels \in Seq(Grays) \ {<< >>} :
          LET long == IF w > h THEN w ELSE h
          IN /\ doc.original = [pixels |-> pixels, width |-> w, height |-> h]
             /\ doc.prepared = [pixels |-> [k \in DOMAIN pixels |-> Stretch(pixels, pixels[k])],
                                width |-> Upscaled(w, long), height |-> Upscaled(h, long)]

LEMMA PreparedInOrder == ASSUME ImagePrepared PROVE PixelsKeepOrder
<1>1. CASE doc.original = NoImage
  BY <1>1 DEF PixelsKeepOrder, NoImage
<1>2. CASE doc.original # NoImage
  <2>1. PICK w \in Edges, h \in Edges, pixels \in Seq(Grays) \ {<< >>}, long \in Edges :
          /\ long = IF w > h THEN w ELSE h
          /\ doc.original = [pixels |-> pixels, width |-> w, height |-> h]
          /\ doc.prepared = [pixels |-> [k \in DOMAIN pixels |-> Stretch(pixels, pixels[k])],
                             width |-> Upscaled(w, long), height |-> Upscaled(h, long)]
    BY <1>2 DEF ImagePrepared
  <2>2. /\ doc.original.pixels = pixels
        /\ \A k \in DOMAIN pixels : doc.prepared.pixels[k] = Stretch(pixels, pixels[k])
        /\ doc.prepared.width = Upscaled(w, long) /\ doc.prepared.height = Upscaled(h, long)
    BY <2>1
  <2>3. Upscaled(long, long) >= 1600
    BY LongEdge
  <2>4. doc.prepared.width >= 1600 \/ doc.prepared.height >= 1600
    BY <2>1, <2>2, <2>3
  <2>5. \A i, j \in DOMAIN pixels : pixels[i] <= pixels[j] => Stretch(pixels, pixels[i]) <= Stretch(pixels, pixels[j])
    <3> TAKE i, j \in DOMAIN pixels
    <3>1. pixels[i] \in Grays /\ pixels[j] \in Grays
      OBVIOUS
    <3> QED BY <3>1, StretchMonotone
  <2> QED BY <2>2, <2>4, <2>5 DEF PixelsKeepOrder
<1> QED BY <1>1, <1>2

-----------------------------------------------------------------------------
(* The readings *)

LEMMA TextsAre == ASSUME NEW text \in Texts PROVE text \in Seq(Lines)
BY DocumentConstants DEF Texts, BoundedSeq, SeqOf

LEMMA TextLengthIs ==
    ASSUME NEW text \in Seq(Lines)
    PROVE  TextLength(text) \in Nat /\ (text # << >> => TextLength(text) >= 2)
<1> DEFINE n == Len(text)
           sum == CHOOSE f : f = [k \in 0..n |-> IF k = 0 THEN 0 ELSE f[k - 1] + text[k].length + 1]
<1>1. n \in Nat /\ \A k \in 1..n : text[k].length \in Nat \ {0}
  <2>1. n \in Nat /\ \A k \in 1..n : text[k] \in Lines
    OBVIOUS
  <2> HIDE DEF n
  <2> QED BY <2>1, KYCDocumentAssumption DEF KYCDocumentAssumption
<1>2. TextLength(text) = sum[n]
  BY Zenon DEF TextLength
<1>3. text # << >> => n > 0
  OBVIOUS
<1> HIDE DEF n
<1>4. \E f : f = [k \in 0..n |-> IF k = 0 THEN 0 ELSE f[k - 1] + text[k].length + 1]
  <2> DEFINE step == [k \in 1..n |-> [v \in Nat |-> v + text[k].length + 1]]
  <2>1. 0 \in Nat /\ step \in [1..n -> [Nat -> Nat]]
        /\ \A k \in 1..n : \A v \in Nat : step[k][v] = v + text[k].length + 1
    BY <1>1
  <2> HIDE DEF step
  <2>2. PICK f : Computed(f, n, Nat, 0, step)
    BY <1>1, <2>1, StepsExist
  <2>3. f \in [0..n -> Nat] /\ f[0] = 0 /\ \A i \in 1..n : f[i - 1] \in Nat /\ f[i] = f[i - 1] + text[i].length + 1
    <3>1. f \in [0..n -> Nat] /\ f[0] = 0 /\ \A i \in 1..n : f[i] = step[i][f[i - 1]]
      BY <2>2 DEF Computed
    <3>2. \A i \in 1..n : f[i - 1] \in Nat
      BY <1>1, <3>1
    <3> QED BY <2>1, <3>1, <3>2
  <2>4. \A k \in 0..n : f[k] = IF k = 0 THEN 0 ELSE f[k - 1] + text[k].length + 1
    BY <1>1, <2>3
  <2>5. f = [k \in 0..n |-> f[k]]
    BY <2>3
  <2>6. f = [k \in 0..n |-> IF k = 0 THEN 0 ELSE f[k - 1] + text[k].length + 1]
    BY <2>4, <2>5
  <2> QED BY <2>6
<1>5. sum = [k \in 0..n |-> IF k = 0 THEN 0 ELSE sum[k - 1] + text[k].length + 1]
  BY <1>4, Zenon
<1> HIDE DEF sum
<1> DEFINE T == {k \in 0..n : sum[k] \in Nat /\ (k > 0 => sum[k] >= 2)}
<1>6. sum[0] = 0 /\ \A k \in 1..n : sum[k] = sum[k - 1] + text[k].length + 1
  <2>1. 0 \in 0..n /\ \A k \in 1..n : k \in 0..n /\ k # 0
    BY <1>1
  <2> QED BY <1>5, <2>1, Zenon
<1>7. 0 \in T
  BY <1>1, <1>6
<1>8. ASSUME NEW m \in 0..(n - 1), m \in T PROVE m + 1 \in T
  <2>1. m + 1 \in 1..n /\ (m + 1) - 1 = m
    BY <1>1
  <2>2. sum[m + 1] = sum[m] + text[m + 1].length + 1
    BY <1>6, <2>1
  <2> QED BY <1>1, <1>8, <2>1, <2>2
<1>9. \A k \in 0..n : k \in T
  <2> HIDE DEF T
  <2> QED BY <1>1, <1>7, <1>8, UpTo
<1> QED BY <1>1, <1>2, <1>3, <1>9

LEMMA TextScoreIs ==
    ASSUME NEW text \in Texts
    PROVE  TextScore(text) \in Nat /\ (TextScore(text) = 0 => text = NoText)
<1>1. text \in Seq(Lines)
  BY TextsAre
<1>2. TextLength(text) \in Nat /\ (text # << >> => TextLength(text) >= 2)
  BY <1>1, TextLengthIs
<1> DEFINE long == {k \in DOMAIN text : text[k].length >= 3}
<1>3. Cardinality(long) \in Nat
  <2>1. long \subseteq 1..Len(text) /\ Len(text) \in Nat
    BY <1>1
  <2>2. IsFiniteSet(1..Len(text))
    BY <2>1, FS_Interval
  <2> HIDE DEF long
  <2> QED BY <2>1, <2>2, FS_Subset, FS_CardinalityType
<1>4. TextScore(text) = IF text = NoText THEN 0 ELSE Cardinality(long) * 10 + TextLength(text) - 1
  BY DEF TextScore
<1> HIDE DEF long
<1> QED BY <1>2, <1>3, <1>4 DEF NoText

Reading == [ok : {TRUE}, text : Texts] \cup {Failed}

(* The text kept is that of the first of the readings with the best score. *)
FirstBest(readings, best) ==
    \/ (\A k \in DOMAIN readings : ~readings[k].ok) /\ best = NoText
    \/ \E k \in DOMAIN readings :
          /\ readings[k].ok /\ best = readings[k].text
          /\ \A j \in DOMAIN readings : readings[j].ok =>
                /\ TextScore(readings[j].text) <= TextScore(readings[k].text)
                /\ j < k => TextScore(readings[j].text) < TextScore(readings[k].text)

LEMMA ReadingText == ASSUME NEW e \in Reading, e.ok PROVE e.text \in Texts
<1>1. CASE e \in [ok : {TRUE}, text : Texts]
  BY <1>1
<1>2. CASE e = Failed
  <2>1. e.ok = FALSE
    BY <1>2 DEF Failed
  <2> QED BY <2>1
<1> QED BY <1>1, <1>2 DEF Reading

LEMMA ReadingScores ==
    ASSUME NEW readings \in Seq(Reading), NEW k \in DOMAIN readings, readings[k].ok
    PROVE  readings[k].text \in Texts /\ TextScore(readings[k].text) \in Nat
<1>1. readings[k] \in Reading
  OBVIOUS
<1>2. readings[k].text \in Texts
  BY <1>1, ReadingText
<1> QED BY <1>2, TextScoreIs

LEMMA ReadingKept ==
    ASSUME NEW readings \in Seq(Reading), NEW best \in Texts, FirstBest(readings, best),
           NEW e \in Reading, NEW better, better = IF e.ok THEN Better(e.text, best) ELSE best
    PROVE  better \in Texts /\ FirstBest(Append(readings, e), better)
<1>1. PICK n \in Nat : n = Len(readings)
  OBVIOUS
<1>0. PICK rs : rs = Append(readings, e)
  OBVIOUS
<1>2. /\ DOMAIN readings = 1..n /\ rs[n + 1] = e /\ \A k \in 1..n : rs[k] = readings[k]
      /\ DOMAIN rs = 1..(n + 1)
  BY <1>0, <1>1
<1>3. \A k \in 1..(n + 1) : k \in 1..n \/ k = n + 1
  OBVIOUS
<1>4. \A k \in 1..n : k \in 1..(n + 1) /\ k < n + 1 /\ ~ (n + 1 < k)
  OBVIOUS
<1>5. \A k \in 1..n : readings[k].ok => readings[k].text \in Texts /\ TextScore(readings[k].text) \in Nat
  BY <1>2, ReadingScores
<1>6. e.ok => e.text \in Texts /\ TextScore(e.text) \in Nat /\ (TextScore(e.text) = 0 => e.text = NoText)
  <2>1. e.ok => e.text \in Texts
    BY ReadingText
  <2> QED BY <2>1, TextScoreIs
<1>7. TextScore(NoText) = 0
  BY DEF TextScore
<1>8. TextScore(best) \in Nat
  BY TextScoreIs
<1>9. better \in Texts
  BY <1>6 DEF Better
<1>10. n + 1 \in 1..(n + 1) /\ ~ (n + 1 < n + 1)
  BY <1>1
<1> SUFFICES FirstBest(rs, better)
  BY <1>0, <1>9
<1> DEFINE NoneRead == (\A k \in 1..n : ~readings[k].ok) /\ best = NoText
<1>11. CASE ~e.ok
  BY <1>2, <1>3, <1>4, <1>11 DEF FirstBest
<1>12. CASE e.ok /\ NoneRead
  <2>1. better = e.text
    BY <1>6, <1>7, <1>8, <1>12 DEF Better
  <2>2. TextScore(e.text) <= TextScore(e.text)
    BY <1>6, <1>12
  <2>3. \A j \in 1..(n + 1) : rs[j].ok => j = n + 1
    BY <1>2, <1>3, <1>12
  <2>4. /\ n + 1 \in DOMAIN rs /\ rs[n + 1].ok /\ better = rs[n + 1].text
        /\ \A j \in DOMAIN rs : rs[j].ok =>
              /\ TextScore(rs[j].text) <= TextScore(rs[n + 1].text)
              /\ j < n + 1 => TextScore(rs[j].text) < TextScore(rs[n + 1].text)
    BY <1>2, <1>10, <1>12, <2>1, <2>2, <2>3
  <2> QED BY <2>4, Zenon DEF FirstBest
<1>13. CASE e.ok /\ ~NoneRead
  <2>1. PICK k \in 1..n :
          /\ readings[k].ok /\ best = readings[k].text
          /\ \A j \in 1..n : readings[j].ok =>
                /\ TextScore(readings[j].text) <= TextScore(readings[k].text)
                /\ j < k => TextScore(readings[j].text) < TextScore(readings[k].text)
    BY <1>2, <1>13 DEF FirstBest
  <2>2. CASE TextScore(e.text) > TextScore(best)
    <3>1. better = e.text
      BY <1>13, <2>2 DEF Better
    <3>2. \A j \in 1..n : rs[j].ok => TextScore(rs[j].text) < TextScore(e.text)
      BY <1>2, <1>5, <1>6, <1>8, <1>13, <2>1, <2>2
    <3>3. \A j \in 1..n : rs[j].ok => TextScore(rs[j].text) <= TextScore(e.text)
      BY <1>2, <1>5, <1>6, <1>13, <3>2
    <3>4. TextScore(e.text) <= TextScore(e.text)
      BY <1>6, <1>13
    <3>5. \A j \in 1..(n + 1) : rs[j].ok =>
              /\ TextScore(rs[j].text) <= TextScore(e.text)
              /\ j < n + 1 => TextScore(rs[j].text) < TextScore(e.text)
      BY <1>2, <1>3, <1>10, <3>2, <3>3, <3>4
    <3>6. /\ n + 1 \in DOMAIN rs /\ rs[n + 1].ok /\ better = rs[n + 1].text
          /\ \A j \in DOMAIN rs : rs[j].ok =>
                /\ TextScore(rs[j].text) <= TextScore(rs[n + 1].text)
                /\ j < n + 1 => TextScore(rs[j].text) < TextScore(rs[n + 1].text)
      BY <1>2, <1>10, <1>13, <3>1, <3>5
    <3> QED BY <3>6, Zenon DEF FirstBest
  <2>3. CASE ~ (TextScore(e.text) > TextScore(best))
    <3>1. better = best
      BY <1>13, <2>3 DEF Better
    <3>2. TextScore(e.text) <= TextScore(best)
      BY <1>6, <1>8, <1>13, <2>3
    <3>3. \A j \in 1..(n + 1) : rs[j].ok =>
              /\ TextScore(rs[j].text) <= TextScore(best)
              /\ j < k => TextScore(rs[j].text) < TextScore(best)
      BY <1>2, <1>3, <1>4, <2>1, <3>2
    <3>4. rs[k].ok /\ best = rs[k].text /\ k \in 1..(n + 1)
      BY <1>2, <1>4, <2>1
    <3> QED BY <1>2, <3>1, <3>3, <3>4 DEF FirstBest
  <2> QED BY <2>2, <2>3
<1> HIDE DEF NoneRead
<1> QED BY <1>11, <1>12, <1>13, Zenon

LEMMA BestIsKept ==
    ASSUME doc.readings \in Seq(Reading), FirstBest(doc.readings, doc.best) PROVE BestReadingKept
<1> DEFINE read == {k \in DOMAIN doc.readings : doc.readings[k].ok}
           score(k) == TextScore(doc.readings[k].text)
           top == {k \in read : \A j \in read : score(j) <= score(k)}
           first == CHOOSE k \in top : \A j \in top : k <= j
<1>1. DOMAIN doc.readings \subseteq Nat
  OBVIOUS
<1>2. \A k \in read : score(k) \in Nat
  BY ReadingScores
<1>3. CASE (\A k \in DOMAIN doc.readings : ~doc.readings[k].ok) /\ doc.best = NoText
  BY <1>3 DEF BestReadingKept
<1>4. ASSUME NEW k \in read, doc.best = doc.readings[k].text,
             \A j \in read : score(j) <= score(k) /\ (j < k => score(j) < score(k))
      PROVE  BestReadingKept
  <2>1. k \in top
    BY <1>4
  <2>2. \A j \in top : j \in read /\ score(k) <= score(j) /\ score(j) <= score(k) /\ j \in Nat
    BY <1>1, <1>4
  <2>3. \A j \in top : k <= j
    <3> HIDE DEF top, read, score
    <3>1. ASSUME NEW j \in top, j < k PROVE FALSE
      BY <1>2, <1>4, <2>2, <3>1
    <3>2. k \in Nat
      BY <2>1, <2>2
    <3> QED BY <2>2, <3>1, <3>2
  <2>4. first = k
    <3> HIDE DEF top
    <3>1. first \in top /\ first <= k
      BY <2>1, <2>3
    <3> HIDE DEF first
    <3> QED BY <2>1, <2>2, <2>3, <3>1
  <2>5. read # {}
    BY <1>4
  <2> QED BY <1>4, <2>4, <2>5, Zenon DEF BestReadingKept
<1> QED BY <1>3, <1>4 DEF FirstBest

-----------------------------------------------------------------------------
(* The fields *)

(* The value is that of the first match, if there is one. *)
FirstOf(s, n, value) ==
    \/ (\A k \in 1..n : s[k] = "") /\ value = ""
    \/ \E k \in 1..n : s[k] # "" /\ value = s[k] /\ \A j \in 1..n : j < k => s[j] = ""

LEMMA FirstMatchIs ==
    ASSUME NEW s, NEW n \in Nat, DOMAIN s = 1..n, Len(s) = n, NEW value, FirstOf(s, n, value)
    PROVE  FirstMatch(s) = value
<1> DEFINE I == {k \in 1..n : s[k] # ""}
<1>1. CASE (\A k \in 1..n : s[k] = "") /\ value = ""
  BY <1>1 DEF FirstMatch
<1>2. ASSUME NEW k \in 1..n, s[k] # "", value = s[k], \A j \in 1..n : j < k => s[j] = ""
      PROVE  FirstMatch(s) = value
  <2>1. I # {}
    BY <1>2
  <2>2. SelectInSeq(s, LAMBDA m : m # "") = CHOOSE x \in I : \A y \in I : x <= y
    BY <2>1 DEF SelectInSeq, Min
  <2>3. k \in I /\ I \subseteq Nat
    <3>1. k \in I
      BY <1>2, Zenon
    <3>2. I \subseteq 1..n
      BY Zenon
    <3> HIDE DEF I
    <3> QED BY <3>1, <3>2
  <2>5. \A j \in I : k <= j
    <3>1. \A j \in I : j \in 1..n /\ s[j] # ""
      OBVIOUS
    <3>2. \A j \in I : j \in 1..n /\ ~ (j < k)
      BY <1>2, <3>1, Zenon
    <3> HIDE DEF I
    <3> QED BY <3>2
  <2> HIDE DEF I
  <2>4. SelectInSeq(s, LAMBDA m : m # "") = k
    BY <2>2, <2>3, <2>5, LeastOf
  <2> QED BY <1>2, <2>4 DEF FirstMatch
<1> QED BY <1>1, <1>2 DEF FirstOf

LEMMA FirstGoesOn ==
    ASSUME NEW s, NEW n \in Nat, NEW value, FirstOf(s, n, value), NEW next,
           next = IF value = "" THEN s[n + 1] ELSE value
    PROVE  FirstOf(s, n + 1, next)
<1>1. \A k \in 1..(n + 1) : k \in 1..n \/ k = n + 1
  BY OneMore
<1>2. n + 1 \in 1..(n + 1) /\ \A k \in 1..n : k \in 1..(n + 1) /\ k < n + 1 /\ ~ (n + 1 < k)
  BY OneMore
<1>3. ~ (n + 1 < n + 1)
  BY OneMore
<1>4. CASE (\A k \in 1..n : s[k] = "") /\ value = "" /\ s[n + 1] = ""
  BY <1>1, <1>4 DEF FirstOf
<1>5. CASE (\A k \in 1..n : s[k] = "") /\ value = "" /\ s[n + 1] # ""
  <2>1. next = s[n + 1]
    BY <1>5
  <2>2. \A j \in 1..(n + 1) : j < n + 1 => s[j] = ""
    BY <1>1, <1>3, <1>5
  <2> QED BY <1>2, <1>5, <2>1, <2>2, Zenon DEF FirstOf
<1>6. ASSUME NEW k \in 1..n, s[k] # "", value = s[k], \A j \in 1..n : j < k => s[j] = ""
      PROVE  FirstOf(s, n + 1, next)
  <2>1. next = s[k]
    BY <1>6
  <2>2. \A j \in 1..(n + 1) : j < k => s[j] = ""
    BY <1>1, <1>2, <1>6
  <2> QED BY <1>2, <1>6, <2>1, <2>2, Zenon DEF FirstOf
<1> QED BY <1>4, <1>5, <1>6 DEF FirstOf

(* The name is that of the first of the lines with the best score. *)
BestName(text, n, name, score) ==
    \/ (\A k \in 1..n : ~IsNameLine(text[k])) /\ name = "" /\ score = 0
    \/ \E k \in 1..n :
          /\ IsNameLine(text[k]) /\ name = text[k].text /\ score = NameScore(text[k])
          /\ \A j \in 1..n : IsNameLine(text[j]) =>
                /\ NameScore(text[j]) <= NameScore(text[k])
                /\ j < k => NameScore(text[j]) < NameScore(text[k])

LEMMA ScoreIsNumber ==
    ASSUME NEW a \in Nat, NEW c \in Nat \ {0}, NEW w \in Nat, NEW x \in Int, NEW y \in Int, NEW z \in Int
    PROVE  (10000 * a) \div c + 500 * w + x + y - z \in Int
OBVIOUS

LEMMA NameLines ==
    ASSUME NEW l \in Lines PROVE l.text # "" /\ (IsNameLine(l) => NameScore(l) \in Int)
<1>1. l.text # "" /\ l.letters \in Nat /\ l.words \in Nat /\ l.chars \in Nat
  BY KYCDocumentAssumption DEF KYCDocumentAssumption
<1>2. ASSUME IsNameLine(l) PROVE NameScore(l) \in Int
  <2>1. l.chars \in Nat \ {0}
    BY <1>2 DEF IsNameLine
  <2>2. PICK x, y, z : /\ x = IF l.capital THEN 2000 ELSE 0
                       /\ y = IF l.upper THEN 3000 ELSE 0
                       /\ z = IF l.label THEN 5000 ELSE 0
    OBVIOUS
  <2>3. x \in Int /\ y \in Int /\ z \in Int
    BY <2>2
  <2>4. PICK a, c, w : a = l.letters /\ c = l.chars /\ w = l.words
    OBVIOUS
  <2>5. a \in Nat /\ c \in Nat \ {0} /\ w \in Nat
    BY <1>1, <2>1, <2>4
  <2>6. (10000 * a) \div c + 500 * w + x + y - z \in Int
    BY <2>3, <2>5, ScoreIsNumber
  <2>7. NameScore(l) = (10000 * a) \div c + 500 * w + x + y - z
    BY <2>2, <2>4 DEF NameScore
  <2> QED BY <2>6, <2>7
<1> QED BY <1>1, <1>2

LEMMA NameGoesOn ==
    ASSUME NEW text \in Seq(Lines), NEW n \in Nat, n + 1 \in 1..Len(text),
           NEW f, BestName(text, n, f.name, f.nameScore),
           NEW g, g.name = IF Improves(f, text[n + 1]) THEN text[n + 1].text ELSE f.name,
           g.nameScore = IF Improves(f, text[n + 1]) THEN NameScore(text[n + 1]) ELSE f.nameScore
    PROVE  BestName(text, n + 1, g.name, g.nameScore)
<1>1. PICK l : l = text[n + 1]
  OBVIOUS
<1>2. \A k \in 1..(n + 1) : k \in 1..n \/ k = n + 1
  BY OneMore
<1>3. n + 1 \in 1..(n + 1) /\ \A k \in 1..n : k \in 1..(n + 1) /\ k < n + 1 /\ ~ (n + 1 < k)
  BY OneMore
<1>4. ~ (n + 1 < n + 1)
  BY OneMore
<1>5. \A k \in 1..(n + 1) : text[k] \in Lines
  OBVIOUS
<1>6. \A k \in 1..(n + 1) : IsNameLine(text[k]) => NameScore(text[k]) \in Int
  BY <1>5, NameLines
<1>7. CASE (\A k \in 1..n : ~IsNameLine(text[k])) /\ f.name = "" /\ f.nameScore = 0
  <2>1. CASE IsNameLine(l)
    <3>1. g.name = l.text /\ g.nameScore = NameScore(l)
      BY <1>1, <1>7, <2>1 DEF Improves
    <3>2. NameScore(l) <= NameScore(l)
      BY <1>1, <1>3, <1>6, <2>1
    <3>3. \A j \in 1..(n + 1) : IsNameLine(text[j]) => j = n + 1
      BY <1>2, <1>7
    <3>4. /\ n + 1 \in 1..(n + 1) /\ IsNameLine(text[n + 1])
          /\ g.name = text[n + 1].text /\ g.nameScore = NameScore(text[n + 1])
          /\ \A j \in 1..(n + 1) : IsNameLine(text[j]) =>
                /\ NameScore(text[j]) <= NameScore(text[n + 1])
                /\ j < n + 1 => NameScore(text[j]) < NameScore(text[n + 1])
      BY <1>1, <1>3, <1>4, <2>1, <3>1, <3>2, <3>3
    <3> QED BY <3>4, Zenon DEF BestName
  <2>2. CASE ~IsNameLine(l)
    <3>1. g.name = f.name /\ g.nameScore = f.nameScore
      BY <1>1, <2>2 DEF Improves
    <3>2. \A k \in 1..(n + 1) : ~IsNameLine(text[k])
      BY <1>1, <1>2, <1>7, <2>2
    <3> QED BY <1>7, <3>1, <3>2 DEF BestName
  <2> QED BY <2>1, <2>2
<1>8. ASSUME NEW k \in 1..n,
             IsNameLine(text[k]), f.name = text[k].text, f.nameScore = NameScore(text[k]),
             \A j \in 1..n : IsNameLine(text[j]) =>
                /\ NameScore(text[j]) <= NameScore(text[k])
                /\ j < k => NameScore(text[j]) < NameScore(text[k])
      PROVE  BestName(text, n + 1, g.name, g.nameScore)
  <2>1. f.name # ""
    BY <1>3, <1>5, <1>8, NameLines
  <2>2. CASE IsNameLine(l) /\ NameScore(l) > NameScore(text[k])
    <3>1. g.name = l.text /\ g.nameScore = NameScore(l)
      BY <1>1, <1>8, <2>2 DEF Improves
    <3>2. \A j \in 1..n : IsNameLine(text[j]) => NameScore(text[j]) < NameScore(l)
      BY <1>1, <1>3, <1>6, <1>8, <2>2
    <3>3. \A j \in 1..n : IsNameLine(text[j]) => NameScore(text[j]) <= NameScore(l)
      BY <1>1, <1>3, <1>6, <2>2, <3>2
    <3>4. NameScore(l) <= NameScore(l)
      BY <1>1, <1>3, <1>6, <2>2
    <3>5. \A j \in 1..(n + 1) : IsNameLine(text[j]) =>
                /\ NameScore(text[j]) <= NameScore(l)
                /\ j < n + 1 => NameScore(text[j]) < NameScore(l)
      BY <1>1, <1>2, <1>4, <3>2, <3>3, <3>4
    <3>6. /\ n + 1 \in 1..(n + 1) /\ IsNameLine(text[n + 1])
          /\ g.name = text[n + 1].text /\ g.nameScore = NameScore(text[n + 1])
          /\ \A j \in 1..(n + 1) : IsNameLine(text[j]) =>
                /\ NameScore(text[j]) <= NameScore(text[n + 1])
                /\ j < n + 1 => NameScore(text[j]) < NameScore(text[n + 1])
      BY <1>1, <1>3, <2>2, <3>1, <3>5
    <3> QED BY <3>6, Zenon DEF BestName
  <2>3. CASE ~ (IsNameLine(l) /\ NameScore(l) > NameScore(text[k]))
    <3>1. g.name = f.name /\ g.nameScore = f.nameScore
      BY <1>1, <1>8, <2>1, <2>3 DEF Improves
    <3>2. IsNameLine(l) => NameScore(l) <= NameScore(text[k])
      BY <1>1, <1>3, <1>6, <1>8, <2>3
    <3>3. \A j \in 1..(n + 1) : IsNameLine(text[j]) =>
                /\ NameScore(text[j]) <= NameScore(text[k])
                /\ j < k => NameScore(text[j]) < NameScore(text[k])
      BY <1>1, <1>2, <1>3, <1>8, <3>2
    <3>4. k \in 1..(n + 1) /\ g.name = text[k].text /\ g.nameScore = NameScore(text[k])
      BY <1>3, <1>8, <3>1
    <3> QED BY <1>8, <3>3, <3>4, Zenon DEF BestName
  <2> QED BY <2>2, <2>3
<1> QED BY <1>7, <1>8, Zenon DEF BestName

SomeFields ==
    [name : {""} \cup {l.text : l \in Lines}, nameScore : {0} \cup {NameScore(l) : l \in Lines},
     dob : {""} \cup {FirstMatch(l.dob) : l \in Lines}, id : {""} \cup {FirstMatch(l.id) : l \in Lines},
     country : {""} \cup {FirstMatch(l.country) : l \in Lines}]

LEMMA ParseLineTyped == ASSUME NEW f \in SomeFields, NEW l \in Lines PROVE ParseLine(f, l) \in SomeFields
BY DEF ParseLine, SomeFields

LEMMA ParsedStepwise ==
    ASSUME NEW text \in Seq(Lines)
    PROVE  \E f : /\ ParseDocumentFields(text) = f[Len(text)]
                  /\ f[0] = NoFields
                  /\ \A k \in 1..Len(text) : f[k] = ParseLine(f[k - 1], text[k])
<1> DEFINE n == Len(text)
           found == CHOOSE f : f = [k \in 0..n |-> IF k = 0 THEN NoFields ELSE ParseLine(f[k - 1], text[k])]
           step == [k \in 1..n |-> [f \in SomeFields |-> ParseLine(f, text[k])]]
<1>1. n \in Nat /\ \A k \in 1..n : text[k] \in Lines
  OBVIOUS
<1>2. ParseDocumentFields(text) = found[n]
  BY Zenon DEF ParseDocumentFields
<1> HIDE DEF n
<1>3. NoFields \in SomeFields
  BY DEF NoFields, SomeFields
<1>4. /\ step \in [1..n -> [SomeFields -> SomeFields]]
      /\ \A k \in 1..n : \A f \in SomeFields : step[k][f] = ParseLine(f, text[k])
  BY <1>1, ParseLineTyped
<1> HIDE DEF step
<1>5. PICK f : Computed(f, n, SomeFields, NoFields, step)
  BY <1>1, <1>3, <1>4, StepsExist
<1>6. /\ f \in [0..n -> SomeFields] /\ f[0] = NoFields
      /\ \A k \in 1..n : f[k] = step[k][f[k - 1]]
  BY <1>5 DEF Computed
<1>7. \A k \in 1..n : k - 1 \in 0..n
  BY <1>1
<1>8. \A k \in 1..n : f[k] = ParseLine(f[k - 1], text[k])
  BY <1>4, <1>6, <1>7
<1>9. \A k \in 0..n : k = 0 \/ k \in 1..n
  BY <1>1
<1>10. \A k \in 0..n : f[k] = IF k = 0 THEN NoFields ELSE ParseLine(f[k - 1], text[k])
  BY <1>6, <1>8, <1>9
<1>11. f = [k \in 0..n |-> IF k = 0 THEN NoFields ELSE ParseLine(f[k - 1], text[k])]
  <2>1. f = [k \in 0..n |-> f[k]]
    BY <1>6
  <2> QED BY <1>10, <2>1
<1>12. found = [k \in 0..n |-> IF k = 0 THEN NoFields ELSE ParseLine(found[k - 1], text[k])]
  BY <1>11, Zenon
<1> HIDE DEF found
<1>13. 0 \in 0..n /\ \A k \in 1..n : k \in 0..n /\ k # 0
  BY <1>1
<1>14. found[0] = NoFields /\ \A k \in 1..n : found[k] = ParseLine(found[k - 1], text[k])
  BY <1>12, <1>13, Zenon
<1> QED BY <1>2, <1>14 DEF n

Dobs(text) == [k \in DOMAIN text |-> FirstMatch(text[k].dob)]
IdNumbers(text) == [k \in DOMAIN text |-> FirstMatch(text[k].id)]
Countries(text) == [k \in DOMAIN text |-> FirstMatch(text[k].country)]

FieldsUpTo(text, n, f) ==
    /\ BestName(text, n, f.name, f.nameScore)
    /\ FirstOf(Dobs(text), n, f.dob)
    /\ FirstOf(IdNumbers(text), n, f.id)
    /\ FirstOf(Countries(text), n, f.country)

LEMMA FieldsGoOn ==
    ASSUME NEW text \in Seq(Lines), NEW n \in Nat, n + 1 \in 1..Len(text),
           NEW f, FieldsUpTo(text, n, f), NEW g, g = ParseLine(f, text[n + 1])
    PROVE  FieldsUpTo(text, n + 1, g)
<1>1. /\ g.name = IF Improves(f, text[n + 1]) THEN text[n + 1].text ELSE f.name
      /\ g.nameScore = IF Improves(f, text[n + 1]) THEN NameScore(text[n + 1]) ELSE f.nameScore
      /\ g.dob = IF f.dob = "" THEN FirstMatch(text[n + 1].dob) ELSE f.dob
      /\ g.id = IF f.id = "" THEN FirstMatch(text[n + 1].id) ELSE f.id
      /\ g.country = IF f.country = "" THEN FirstMatch(text[n + 1].country) ELSE f.country
  BY DEF ParseLine
<1>2. n + 1 \in DOMAIN text
  OBVIOUS
<1>3. /\ Dobs(text)[n + 1] = FirstMatch(text[n + 1].dob)
      /\ IdNumbers(text)[n + 1] = FirstMatch(text[n + 1].id)
      /\ Countries(text)[n + 1] = FirstMatch(text[n + 1].country)
  BY <1>2, Zenon DEF Dobs, IdNumbers, Countries
<1>4. BestName(text, n + 1, g.name, g.nameScore)
  BY <1>1, NameGoesOn DEF FieldsUpTo
<1>5. FirstOf(Dobs(text), n + 1, g.dob)
  BY <1>1, <1>3, FirstGoesOn DEF FieldsUpTo
<1>6. FirstOf(IdNumbers(text), n + 1, g.id)
  BY <1>1, <1>3, FirstGoesOn DEF FieldsUpTo
<1>7. FirstOf(Countries(text), n + 1, g.country)
  BY <1>1, <1>3, FirstGoesOn DEF FieldsUpTo
<1> QED BY <1>4, <1>5, <1>6, <1>7 DEF FieldsUpTo

LEMMA FieldsAre ==
    ASSUME NEW text \in Seq(Lines) PROVE FieldsUpTo(text, Len(text), ParseDocumentFields(text))
<1>1. PICK f : /\ ParseDocumentFields(text) = f[Len(text)]
               /\ f[0] = NoFields
               /\ \A k \in 1..Len(text) : f[k] = ParseLine(f[k - 1], text[k])
  BY ParsedStepwise
<1> DEFINE T == {k \in 0..Len(text) : FieldsUpTo(text, k, f[k])}
<1>2. 0 \in T
  <2>1. 1..0 = {} /\ 0 \in 0..Len(text)
    OBVIOUS
  <2>2. FieldsUpTo(text, 0, NoFields)
    BY <2>1 DEF FieldsUpTo, BestName, FirstOf, NoFields
  <2> QED BY <1>1, <2>1, <2>2
<1>3. ASSUME NEW m \in 0..(Len(text) - 1), m \in T PROVE m + 1 \in T
  <2>1. m \in Nat /\ m + 1 \in 1..Len(text) /\ m + 1 \in 0..Len(text) /\ (m + 1) - 1 = m
    OBVIOUS
  <2>2. f[m + 1] = ParseLine(f[m], text[m + 1])
    BY <1>1, <2>1
  <2>3. FieldsUpTo(text, m, f[m])
    BY <1>3
  <2>4. FieldsUpTo(text, m + 1, f[m + 1])
    BY <2>1, <2>2, <2>3, FieldsGoOn
  <2> QED BY <2>1, <2>4
<1>4. \A k \in 0..Len(text) : k \in T
  <2> HIDE DEF T
  <2> QED BY <1>2, <1>3, UpTo
<1> QED BY <1>1, <1>4

LEMMA FieldsFollow ==
    ASSUME doc.best \in Seq(Lines), doc.fields = ParseDocumentFields(doc.best)
    PROVE  FieldsOfText
<1> DEFINE text == doc.best
           f == doc.fields
           n == Len(text)
           named == {k \in DOMAIN text : IsNameLine(text[k])}
           top == {k \in named : \A j \in named : NameScore(text[j]) <= NameScore(text[k])}
           first == CHOOSE k \in top : \A j \in top : k <= j
<1>1. FieldsUpTo(text, n, f) /\ n \in Nat /\ DOMAIN text = 1..n
  BY FieldsAre
<1>2. FirstMatch(Dobs(text)) = f.dob
  <2>1. DOMAIN Dobs(text) = 1..n /\ Len(Dobs(text)) = n
    BY <1>1 DEF Dobs
  <2> QED BY <1>1, <2>1, FirstMatchIs DEF FieldsUpTo
<1>3. FirstMatch(IdNumbers(text)) = f.id
  <2>1. DOMAIN IdNumbers(text) = 1..n /\ Len(IdNumbers(text)) = n
    BY <1>1 DEF IdNumbers
  <2> QED BY <1>1, <2>1, FirstMatchIs DEF FieldsUpTo
<1>4. FirstMatch(Countries(text)) = f.country
  <2>1. DOMAIN Countries(text) = 1..n /\ Len(Countries(text)) = n
    BY <1>1 DEF Countries
  <2> QED BY <1>1, <2>1, FirstMatchIs DEF FieldsUpTo
<1>5. f.name = IF named = {} THEN "" ELSE text[first].text
  <2>1. BestName(text, n, f.name, f.nameScore)
    BY <1>1 DEF FieldsUpTo
  <2>2. CASE (\A k \in 1..n : ~IsNameLine(text[k])) /\ f.name = ""
    BY <1>1, <2>2
  <2>3. ASSUME NEW k \in 1..n, IsNameLine(text[k]), f.name = text[k].text,
               \A j \in 1..n : IsNameLine(text[j]) =>
                  /\ NameScore(text[j]) <= NameScore(text[k])
                  /\ j < k => NameScore(text[j]) < NameScore(text[k])
        PROVE  f.name = IF named = {} THEN "" ELSE text[first].text
    <3>1. k \in named /\ k \in top
      BY <1>1, <2>3
    <3>2. \A j \in named : IsNameLine(text[j]) /\ j \in 1..n /\ NameScore(text[j]) \in Int
      <4> SUFFICES ASSUME NEW j \in named PROVE IsNameLine(text[j]) /\ j \in 1..n /\ NameScore(text[j]) \in Int
        OBVIOUS
      <4>1. IsNameLine(text[j]) /\ j \in 1..n
        BY <1>1
      <4>2. text[j] \in Lines
        BY <4>1
      <4> QED BY <4>1, <4>2, NameLines
    <3>3. \A j \in top : k <= j
      <4> SUFFICES ASSUME NEW j \in top, j < k PROVE FALSE
        BY <1>1
      <4>1. j \in named /\ k \in named /\ NameScore(text[k]) <= NameScore(text[j])
        BY <3>1
      <4>2. NameScore(text[j]) < NameScore(text[k])
        BY <2>3, <3>2, <4>1
      <4> QED BY <3>2, <4>1, <4>2
    <3>4. top \subseteq Nat
      BY <1>1
    <3>5. first = k
      <4> HIDE DEF top
      <4> QED BY <3>1, <3>3, <3>4, LeastOf
    <3> HIDE DEF first
    <3> QED BY <2>3, <3>1, <3>5
  <2> QED BY <2>1, <2>2, <2>3 DEF BestName
<1> QED BY <1>2, <1>3, <1>4, <1>5, Zenon DEF FieldsOfText, DataHash, Dobs, IdNumbers, Countries

-----------------------------------------------------------------------------
(* The blink *)

Share(n) == (n * 6) \div 10
OpenCount(n) == IF Share(n) < 3 THEN 3 ELSE Share(n)

LEMMA OpenCountIs ==
    ASSUME NEW n \in Nat, n >= 5, NEW c \in Nat, 10 * c >= 6 * n
    PROVE  OpenCount(n) \div 2 \in Nat /\ OpenCount(n) \div 2 < c /\ OpenCount(n) \div 2 < n
<1> USE DEF OpenCount, Share
<1>1. Share(n) \in Nat /\ Share(n) >= 3 /\ Share(n) <= c /\ Share(n) <= n
  OBVIOUS
<1> QED BY <1>1

Reached(frames) ==
    {ear \in ToSet(frames) : Cardinality(Reaching(frames, ear)) > OpenCount(Len(frames)) \div 2}

LEMMA ReachingFinite ==
    ASSUME NEW frames \in Seq(Nat), NEW ear, NEW R, R \subseteq Reaching(frames, ear)
    PROVE  /\ IsFiniteSet(Reaching(frames, ear)) /\ Cardinality(Reaching(frames, ear)) \in Nat
           /\ Cardinality(R) \in Nat /\ Cardinality(R) <= Cardinality(Reaching(frames, ear))
<1>1. Reaching(frames, ear) \subseteq 1..Len(frames) /\ Len(frames) \in Nat
  BY DEF Reaching
<1>2. IsFiniteSet(1..Len(frames))
  BY <1>1, FS_Interval
<1>3. IsFiniteSet(Reaching(frames, ear))
  BY <1>1, <1>2, FS_Subset
<1> QED BY <1>3, FS_Subset, FS_CardinalityType

(* The least of the frames of a set, and the greatest of the frames. *)
LEMMA LeastFrame ==
    ASSUME NEW frames \in Seq(Nat), NEW R, R \subseteq DOMAIN frames, R # {}
    PROVE  \E k \in R : \A j \in R : frames[k] <= frames[j]
<1> DEFINE V == {frames[k] : k \in R}
<1>1. V \subseteq Nat /\ V # {}
  OBVIOUS
<1>2. PICK v \in V : \A u \in V : v <= u
  <2> HIDE DEF V
  <2> QED BY <1>1, LeastElement
<1> QED BY <1>2

LEMMA GreatestFrame ==
    ASSUME NEW frames \in Seq(Nat), NEW R, R \subseteq ToSet(frames), R # {}
    PROVE  \E v \in R : \A u \in R : u <= v
<1> DEFINE n == Len(frames)
           T == {k \in 0..n : \E b \in Nat : \A i \in 1..k : frames[i] <= b}
<1>1. n \in Nat /\ \A i \in 1..n : frames[i] \in Nat
  OBVIOUS
<1>2. R \subseteq Nat /\ \A u \in R : \E i \in 1..n : u = frames[i]
  BY DEF ToSet
<1>3. PICK b \in Nat : \A u \in R : u <= b
  <2> HIDE DEF n
  <2>1. 0 \in T
    BY <1>1
  <2>2. ASSUME NEW m \in 0..(n - 1), m \in T PROVE m + 1 \in T
    <3>1. PICK b \in Nat : \A i \in 1..m : frames[i] <= b
      BY <2>2
    <3>2. m \in Nat /\ m + 1 \in 1..n /\ m + 1 \in 0..n /\ \A i \in 1..(m + 1) : i \in 1..m \/ i = m + 1
      BY <1>1, OneMore
    <3>3. PICK v \in Nat : v = frames[m + 1]
      BY <1>1, <3>2
    <3>4. \A i \in 1..m : frames[i] <= b + v
      BY <1>1, <3>1, <3>2, <3>3
    <3>5. frames[m + 1] <= b + v
      BY <3>3
    <3>6. PICK c \in Nat : c = b + v
      OBVIOUS
    <3>7. \A i \in 1..(m + 1) : frames[i] <= c
      BY <3>2, <3>4, <3>5, <3>6
    <3> QED BY <3>2, <3>7, Zenon
  <2>3. n \in T
    <3>1. \A k \in 0..n : k \in T
      <4> HIDE DEF T
      <4> QED BY <1>1, <2>1, <2>2, UpTo
    <3>2. n \in 0..n
      BY <1>1
    <3> QED BY <3>1, <3>2, Zenon
  <2>4. PICK b \in Nat : \A i \in 1..n : frames[i] <= b
    BY <2>3, Zenon
  <2> QED BY <1>2, <2>4, Zenon
<1> DEFINE D == {d \in Nat : \E u \in R : d = b - u}
<1>4. D \subseteq Nat /\ D # {}
  <2>1. PICK u \in R : u \in Nat /\ u <= b
    BY <1>2, <1>3
  <2>2. b - u \in D
    BY <2>1
  <2> QED BY <2>2
<1>5. PICK d \in D : \A c \in D : d <= c
  <2> HIDE DEF D
  <2> QED BY <1>4, LeastElement
<1>6. PICK v \in R : d = b - v
  BY <1>5
<1>7. \A u \in R : u <= v
  <2> TAKE u \in R
  <2>1. b - u \in D
    BY <1>2, <1>3
  <2>2. b - v <= b - u /\ u \in Nat /\ v \in Nat
    <3> HIDE DEF D
    <3> QED BY <1>2, <1>5, <1>6, <2>1
  <2> QED BY <2>2
<1> QED BY <1>6, <1>7

LEMMA BaselineIs ==
    ASSUME NEW frames \in Seq(Nat), Len(frames) >= 5
    PROVE  /\ Baseline(frames) \in ToSet(frames)
           /\ \A ear \in Reached(frames) : ear <= Baseline(frames)
<1> DEFINE n == Len(frames)
<1>1. n \in Nat /\ n >= 5 /\ DOMAIN frames = 1..n
  OBVIOUS
<1>2. PICK k \in DOMAIN frames : \A j \in DOMAIN frames : frames[k] <= frames[j]
  <2>1. 1 \in DOMAIN frames
    BY <1>1
  <2> QED BY <2>1, LeastFrame
<1>3. Reaching(frames, frames[k]) = 1..n
  BY <1>1, <1>2 DEF Reaching
<1>4. Cardinality(1..n) = n
  <2>1. n \in Nat /\ 1 \in Int /\ n \in Int /\ ~ (1 > n) /\ n - 1 + 1 = n
    BY <1>1
  <2> HIDE DEF n
  <2> QED BY <2>1, FS_Interval
<1>5. OpenCount(n) \div 2 < n
  BY <1>1, OpenCountIs
<1>6. frames[k] \in Reached(frames)
  BY <1>2, <1>3, <1>4, <1>5 DEF Reached, ToSet
<1>7. Reached(frames) \subseteq ToSet(frames)
  BY DEF Reached
<1>8. PICK v \in Reached(frames) : \A u \in Reached(frames) : u <= v
  BY <1>6, <1>7, GreatestFrame
<1>9. Baseline(frames) = CHOOSE ear \in Reached(frames) : \A other \in Reached(frames) : other <= ear
  BY Zenon DEF Baseline, Reached, OpenCount, Share
<1> QED BY <1>7, <1>8, <1>9

LEMMA OpenEyesSetTheBaseline ==
    ASSUME NEW frames \in Seq(Nat), Len(frames) >= 5, NEW e \in Nat,
           10 * Cardinality({k \in 1..Len(frames) : frames[k] >= e}) >= 6 * Len(frames)
    PROVE  Baseline(frames) \in Nat /\ e <= Baseline(frames)
<1> DEFINE n == Len(frames)
           open == {k \in 1..n : frames[k] >= e}
<1>1. n \in Nat /\ DOMAIN frames = 1..n
  OBVIOUS
<1>2. open = Reaching(frames, e)
  BY <1>1 DEF Reaching
<1>3. Cardinality(open) \in Nat
  BY <1>2, ReachingFinite
<1>4. OpenCount(n) \div 2 < Cardinality(open) /\ OpenCount(n) \div 2 \in Nat
  BY <1>1, <1>3, OpenCountIs
<1>5. open # {}
  <2>1. Cardinality({}) = 0
    BY FS_EmptySet
  <2>2. Cardinality(open) # 0
    BY <1>3, <1>4
  <2> HIDE DEF open
  <2> QED BY <2>1, <2>2
<1>6. PICK k \in open : \A j \in open : frames[k] <= frames[j]
  <2>1. open \subseteq DOMAIN frames
    BY <1>1
  <2> HIDE DEF open
  <2> QED BY <1>5, <2>1, LeastFrame
<1>7. open \subseteq Reaching(frames, frames[k])
  BY <1>1, <1>6 DEF Reaching
<1>8. /\ Cardinality(Reaching(frames, frames[k])) \in Nat
      /\ Cardinality(open) <= Cardinality(Reaching(frames, frames[k]))
  <2> HIDE DEF open
  <2> QED BY <1>7, ReachingFinite
<1>9. Cardinality(Reaching(frames, frames[k])) > OpenCount(n) \div 2
  BY <1>3, <1>4, <1>8
<1>10. frames[k] \in Reached(frames) /\ frames[k] >= e /\ frames[k] \in Nat
  BY <1>1, <1>6, <1>9 DEF Reached, ToSet
<1>11. Baseline(frames) \in ToSet(frames) /\ frames[k] <= Baseline(frames)
  BY <1>10, BaselineIs
<1>12. Baseline(frames) \in Nat
  BY <1>11 DEF ToSet
<1> QED BY <1>10, <1>11, <1>12

LEMMA DropDetected ==
    ASSUME NEW frames \in Seq(Nat), Len(frames) >= 5, NEW e \in Nat,
           10 * Cardinality({k \in 1..Len(frames) : frames[k] >= e}) >= 6 * Len(frames),
           NEW k \in 1..Len(frames), frames[k] * 10 < e * 8 \/ frames[k] < 220
    PROVE  DetectBlink(frames)
<1>1. PICK b : b = Baseline(frames)
  OBVIOUS
<1>2. b \in Nat /\ e <= b
  BY <1>1, OpenEyesSetTheBaseline
<1>3. frames[k] \in Nat
  OBVIOUS
<1>4. BlinkThreshold(frames) = IF b * 88 < 18000 THEN 18000 ELSE b * 88
  BY <1>1 DEF BlinkThreshold
<1>5. frames[k] * 100 < BlinkThreshold(frames) \/ frames[k] < 240
  BY <1>2, <1>3, <1>4
<1> QED BY <1>5 DEF DetectBlink

LEMMA SteadyUndetected ==
    ASSUME NEW frames \in Seq(Nat), DetectBlink(frames)
    PROVE  \E i, j \in DOMAIN frames : frames[i] * 100 < frames[j] * 88 \/ frames[i] < 240
<1>1. Len(frames) >= 5
  BY DEF DetectBlink
<1>2. PICK j \in DOMAIN frames : Baseline(frames) = frames[j]
  BY <1>1, BaselineIs DEF ToSet
<1>3. PICK i \in DOMAIN frames : frames[i] * 100 < BlinkThreshold(frames) \/ frames[i] < 240
  BY DEF DetectBlink
<1>4. PICK a, b : a = frames[i] /\ b = frames[j]
  OBVIOUS
<1>5. a \in Nat /\ b \in Nat
  BY <1>4
<1>6. BlinkThreshold(frames) = IF b * 88 < 18000 THEN 18000 ELSE b * 88
  BY <1>2, <1>4 DEF BlinkThreshold
<1>7. a * 100 < b * 88 \/ a < 240
  BY <1>3, <1>4, <1>5, <1>6
<1> QED BY <1>4, <1>7

-----------------------------------------------------------------------------
(* A behaviour is about one part: the image, the text or the face.         *)

DocParts == {"part", "original", "prepared", "readings", "best", "fields"}
LoopParts == {"match", "frames", "elapsed", "pc"}

ReadingsKept ==
    /\ doc.readings \in Seq(Reading) /\ doc.best \in Texts
    /\ FirstBest(doc.readings, doc.best)
    /\ doc.part = "parsed" => doc.fields = ParseDocumentFields(doc.best)

FramesWatched ==
    /\ loop.frames \in Seq(Ears)
    /\ loop.pc = "blinked" <=> DetectBlink(loop.frames)

(* The strengthening: the image prepared, the text kept and its fields are *)
(* those of what was read, and the loop has blinked when the frames say so. *)
DocumentIInv ==
    /\ DOMAIN doc = DocParts /\ DOMAIN loop = LoopParts
    /\ ImagePrepared /\ ReadingsKept /\ FramesWatched

LEMMA DocumentStarts == ASSUME DocumentInit PROVE DocumentIInv
<1>1. PICK about \in {"image", "text", "liveness"} :
         doc = [part |-> about, original |-> NoImage, prepared |-> NoImage,
                readings |-> << >>, best |-> NoText, fields |-> NoFields]
  BY DEF DocumentInit
<1>2. loop = [match |-> 0, frames |-> << >>, elapsed |-> "", pc |-> "selfie"]
  BY DEF DocumentInit
<1>3. DOMAIN doc = DocParts /\ DOMAIN loop = LoopParts
  BY <1>1, <1>2 DEF DocParts, LoopParts
<1>4. ImagePrepared
  BY <1>1 DEF ImagePrepared
<1>5. << >> \in Texts
  BY DocumentConstants DEF Texts, BoundedSeq, SeqOf
<1>6. ReadingsKept
  BY <1>1, <1>5 DEF ReadingsKept, FirstBest, NoText
<1>7. loop.frames = << >> /\ loop.pc = "selfie" 
  BY <1>2
<1>8. ~DetectBlink(loop.frames) /\ << >> \in Seq(Ears)
  <2>1. Len(<< >>) = 0 /\ << >> \in Seq(Ears)
    OBVIOUS
  <2> QED BY <1>7, <2>1 DEF DetectBlink
<1>9. FramesWatched
  BY <1>7, <1>8 DEF FramesWatched
<1> QED BY <1>3, <1>4, <1>6, <1>9 DEF DocumentIInv

(* Only the part the step is about moves. *)
LEMMA LoopStepKeepsDocument ==
    ASSUME DocumentIInv, UNCHANGED doc, DOMAIN loop' = LoopParts, FramesWatched'
    PROVE  DocumentIInv'
<1>1. ImagePrepared' /\ ReadingsKept'
  BY DEF DocumentIInv, ImagePrepared, ReadingsKept
<1> QED BY <1>1 DEF DocumentIInv

LEMMA ImageKept ==
    ASSUME DocumentIInv, UNCHANGED loop, DOMAIN doc' = DocParts, ReadingsKept',
           doc'.original = doc.original, doc'.prepared = doc.prepared
    PROVE  DocumentIInv'
<1>1. ImagePrepared' /\ FramesWatched'
  BY DEF DocumentIInv, ImagePrepared, FramesWatched
<1> QED BY <1>1 DEF DocumentIInv

LEMMA PreprocessImageKeeps == ASSUME DocumentIInv, PreprocessImage PROVE DocumentIInv'
<1>1. PICK w \in Edges, h \in Edges, pixels \in BoundedSeq(Grays, MaxPixels) \ {<< >>} :
         LET long == IF w > h THEN w ELSE h
         IN doc' = [doc EXCEPT
              !.original = [pixels |-> pixels, width |-> w, height |-> h],
              !.prepared = [pixels |-> [k \in DOMAIN pixels |-> Stretch(pixels, pixels[k])],
                            width |-> Upscaled(w, long), height |-> Upscaled(h, long)]]
  BY DEF PreprocessImage
<1>2. pixels \in Seq(Grays) \ {<< >>}
  BY DocumentConstants DEF BoundedSeq, SeqOf
<1>3. PICK long : long = IF w > h THEN w ELSE h
  OBVIOUS
<1>4. PICK to : to = [k \in DOMAIN pixels |-> Stretch(pixels, pixels[k])]
  OBVIOUS
<1>5. DOMAIN doc = DocParts
  BY DEF DocumentIInv
<1>6. doc' = [doc EXCEPT !.original = [pixels |-> pixels, width |-> w, height |-> h],
                         !.prepared = [pixels |-> to, width |-> Upscaled(w, long), height |-> Upscaled(h, long)]]
  BY <1>1, <1>3, <1>4
<1>7. /\ doc'.original = [pixels |-> pixels, width |-> w, height |-> h]
      /\ doc'.prepared = [pixels |-> to, width |-> Upscaled(w, long), height |-> Upscaled(h, long)]
      /\ DOMAIN doc' = DocParts /\ doc'.part = doc.part /\ doc'.readings = doc.readings
      /\ doc'.best = doc.best /\ doc'.fields = doc.fields
  BY <1>5, <1>6 DEF DocParts
<1>8. ImagePrepared'
  BY <1>2, <1>3, <1>4, <1>7 DEF ImagePrepared
<1>9. ReadingsKept' /\ FramesWatched'
  BY <1>7 DEF DocumentIInv, ReadingsKept, FramesWatched, PreprocessImage
<1> QED BY <1>7, <1>8, <1>9 DEF DocumentIInv, PreprocessImage

LEMMA RecognizeKeeps == ASSUME DocumentIInv, Recognize PROVE DocumentIInv'
<1>1. PICK reading \in Reading :
         doc' = [doc EXCEPT !.readings = Append(@, reading),
                            !.best = IF reading.ok THEN Better(reading.text, @) ELSE @]
  BY DEF Recognize, Reading
<1>2. PICK better : better = IF reading.ok THEN Better(reading.text, doc.best) ELSE doc.best
  OBVIOUS
<1>3. DOMAIN doc = DocParts
  BY DEF DocumentIInv
<1>4. /\ doc'.readings = Append(doc.readings, reading) /\ doc'.best = better
      /\ DOMAIN doc' = DocParts /\ doc'.part = doc.part
      /\ doc'.original = doc.original /\ doc'.prepared = doc.prepared
  BY <1>1, <1>2, <1>3 DEF DocParts
<1>5. doc.readings \in Seq(Reading) /\ doc.best \in Texts /\ FirstBest(doc.readings, doc.best)
  BY DEF DocumentIInv, ReadingsKept
<1>6. better \in Texts /\ FirstBest(Append(doc.readings, reading), better)
  BY <1>2, <1>5, ReadingKept
<1>7. doc'.readings \in Seq(Reading)
  BY <1>4, <1>5
<1>8. ReadingsKept'
  BY <1>4, <1>6, <1>7 DEF ReadingsKept, Recognize, FirstBest
<1> QED BY <1>4, <1>8, ImageKept DEF Recognize

LEMMA ParsedKeeps == ASSUME DocumentIInv, Parsed PROVE DocumentIInv'
<1>1. DOMAIN doc = DocParts
  BY DEF DocumentIInv
<1>2. /\ DOMAIN doc' = DocParts /\ doc'.fields = ParseDocumentFields(doc.best)
      /\ doc'.readings = doc.readings /\ doc'.best = doc.best
      /\ doc'.original = doc.original /\ doc'.prepared = doc.prepared
  BY <1>1 DEF Parsed, DocParts
<1>3. ReadingsKept'
  BY <1>2 DEF DocumentIInv, ReadingsKept, FirstBest
<1> QED BY <1>2, <1>3, ImageKept DEF Parsed

LEMMA CaptureSelfieKeeps == ASSUME DocumentIInv, CaptureSelfie PROVE DocumentIInv'
<1>1. PICK d \in Distances :
         loop' = [loop EXCEPT !.match = MatchFaces(d).confidence,
                              !.pc = IF MatchFaces(d).matched THEN "liveness" ELSE "selfie"]
  BY DEF CaptureSelfie
<1>2. DOMAIN loop = LoopParts /\ FramesWatched /\ loop.pc = "selfie"
  BY DEF DocumentIInv, CaptureSelfie
<1>3. /\ DOMAIN loop' = LoopParts /\ loop'.frames = loop.frames
      /\ loop'.pc \in {"liveness", "selfie"}
  BY <1>1, <1>2 DEF LoopParts
<1>4. FramesWatched'
  BY <1>2, <1>3 DEF FramesWatched
<1> QED BY <1>3, <1>4, LoopStepKeepsDocument DEF CaptureSelfie

LEMMA TimeRunsKeeps == ASSUME DocumentIInv, TimeRuns PROVE DocumentIInv'
<1>1. DOMAIN loop = LoopParts /\ FramesWatched
  BY DEF DocumentIInv
<1>2. DOMAIN loop' = LoopParts /\ loop'.frames = loop.frames /\ loop'.pc = loop.pc
  BY <1>1 DEF TimeRuns, LoopParts
<1>3. FramesWatched'
  BY <1>1, <1>2 DEF FramesWatched
<1> QED BY <1>2, <1>3, LoopStepKeepsDocument DEF TimeRuns

LEMMA LivenessEndsKeeps == ASSUME DocumentIInv, LivenessEnds PROVE DocumentIInv'
<1>1. DOMAIN loop = LoopParts /\ FramesWatched /\ loop.pc = "liveness"
  BY DEF DocumentIInv, LivenessEnds
<1>2. PICK end \in {"timeout", "accepted"} : loop' = [loop EXCEPT !.pc = end]
  BY DEF LivenessEnds
<1>3. DOMAIN loop' = LoopParts /\ loop'.frames = loop.frames /\ loop'.pc = end
  BY <1>1, <1>2 DEF LoopParts
<1>4. FramesWatched'
  BY <1>1, <1>2, <1>3 DEF FramesWatched
<1> QED BY <1>3, <1>4, LoopStepKeepsDocument DEF LivenessEnds

LEMMA FrameSeenKeeps == ASSUME DocumentIInv, FrameSeen PROVE DocumentIInv'
<1>1. DOMAIN loop = LoopParts /\ FramesWatched /\ loop.pc = "liveness"
  BY DEF DocumentIInv, FrameSeen
<1>2. PICK ear \in Ears :
         LET frames == Append(loop.frames, ear)
         IN loop' = [loop EXCEPT !.frames = frames, !.pc = IF DetectBlink(frames) THEN "blinked" ELSE @]
  BY DEF FrameSeen
<1>3. PICK frames : frames = Append(loop.frames, ear)
  OBVIOUS
<1>4. /\ DOMAIN loop' = LoopParts /\ loop'.frames = frames
      /\ loop'.pc = IF DetectBlink(frames) THEN "blinked" ELSE "liveness"
  BY <1>1, <1>2, <1>3 DEF LoopParts
<1>5. frames \in Seq(Ears)
  BY <1>1, <1>3 DEF FramesWatched
<1>6. FramesWatched'
  <2>1. (loop'.pc = "blinked") <=> DetectBlink(frames)
    BY <1>4
  <2> QED BY <1>4, <1>5, <2>1 DEF FramesWatched
<1> QED BY <1>4, <1>6, LoopStepKeepsDocument DEF FrameSeen

LEMMA DocumentStepKeeps == ASSUME DocumentIInv, [DocumentNext]_docVars PROVE DocumentIInv'
<1>1. CASE UNCHANGED docVars
  BY <1>1 DEF docVars, DocumentIInv, ImagePrepared, ReadingsKept, FramesWatched
<1> QED
  BY <1>1, PreprocessImageKeeps, RecognizeKeeps, ParsedKeeps, CaptureSelfieKeeps, TimeRunsKeeps,
     LivenessEndsKeeps, FrameSeenKeeps DEF DocumentNext

LEMMA BlinksSeen == ASSUME FramesWatched PROVE DropIsBlink /\ SteadyIsNoBlink
<1>1. loop.frames \in Seq(Nat) /\ Ears \subseteq Nat
  <2>1. Ears \subseteq Nat
    BY DocumentConstants
  <2>2. loop.frames \in Seq(Ears)
    BY DEF FramesWatched
  <2> QED BY <2>1, <2>2, SeqMonotonic
<1>2. DropIsBlink
  BY <1>1, DropDetected DEF DropIsBlink, FramesWatched
<1>3. SteadyIsNoBlink
  BY <1>1, SteadyUndetected DEF SteadyIsNoBlink, FramesWatched
<1> QED BY <1>2, <1>3

LEMMA DocumentIInvImplies == ASSUME DocumentIInv PROVE DocumentInv
<1>1. PixelsKeepOrder
  BY PreparedInOrder DEF DocumentIInv
<1>2. BestReadingKept
  BY BestIsKept DEF DocumentIInv, ReadingsKept
<1>3. FieldsOfText
  <2>1. doc.best \in Seq(Lines)
    BY TextsAre DEF DocumentIInv, ReadingsKept
  <2>2. CASE doc.part = "parsed"
    BY <2>1, <2>2, FieldsFollow DEF DocumentIInv, ReadingsKept
  <2>3. CASE doc.part # "parsed"
    BY <2>3 DEF FieldsOfText
  <2> QED BY <2>2, <2>3
<1>4. DropIsBlink /\ SteadyIsNoBlink
  BY BlinksSeen DEF DocumentIInv
<1> QED BY <1>1, <1>2, <1>3, <1>4 DEF DocumentInv

(* Whatever document and face are shown, preparing the image keeps the     *)
(* order of its pixels, the first of the readings with the best score is   *)
(* kept and its fields follow from its text alone, an open-eyed face that  *)
(* drops by a fifth has blinked and a steady one has not (kyc-local.ts).   *)
THEOREM LocalChecks == DocumentSpec => []DocumentInv
<1>1. DocumentInit => DocumentIInv
  BY DocumentStarts
<1>2. DocumentIInv /\ [DocumentNext]_docVars => DocumentIInv'
  BY DocumentStepKeeps
<1>3. DocumentIInv => DocumentInv
  BY DocumentIInvImplies
<1> QED BY <1>1, <1>2, <1>3, PTL DEF DocumentSpec
=============================================================================
