-------------------------- MODULE IssuerDashboard --------------------------
(***************************************************************************)
(* The issuer dashboard (frontend app/issuer/page.tsx, lib/api.ts) and the *)
(* reads and reviews it authenticates at the backend (server.ts:           *)
(* authenticateIssuer, /api/kyc/queue, /api/kyc/review).  Another issuer   *)
(* works on the same rows; time counts units of a fraction of the nonce    *)
(* window.                                                                 *)
(***************************************************************************)
EXTENDS Naturals, FiniteSets

CONSTANTS Rows,        \* ids of KYC requests
          UnknownRows, \* those of a credential type the page has no group for
          NonceWindow, \* NONCE_WINDOW_MS
          ResignAfter, \* the four minutes of refreshQueue
          GcSize,      \* entries from which gcNonces collects
          MaxTime, MaxDashClicks \* bounds

ASSUME DashboardAssumption ==
    /\ UnknownRows \subseteq Rows
    /\ {NonceWindow, ResignAfter, GcSize, MaxDashClicks} \subseteq Nat
    /\ MaxTime \in Nat \ {0}

VARIABLES clock,    \* ms since some time before the first signature
          kyc,      \* kyc[r]: the status of the row, "none" before it is submitted
          issued,   \* rows whose credential is on the chain
          approver, \* the connected account is an approved issuer
          used,     \* usedIssuerNonces: <<nonce, time>>
          reads,    \* reads of the queue under way
          dash,     \* the React state
          refresh,  \* the refreshes under way
          review,   \* handleApprove or handleReject under way
          burnt     \* history: nonces accepted, those accepted in a read that came after,
                    \* clicks

dashVars == <<clock, kyc, issued, approver, used, reads, dash, refresh, review, burnt>>

Filters == {"pending", "approved", "rejected"}
NoQueue == [kind |-> "redacted", rows |-> {}]
NoReview == [pc |-> "idle", row |-> "none", action |-> "approve", nonce |-> 0, auth |-> 0, status |-> "none"]
NoRefresh == [pc |-> "idle", nonce |-> 0, filter |-> "pending", left |-> 0]

DashInit ==
    /\ clock = 1
    /\ kyc \in [Rows -> {"none", "pending"}]
    /\ issued = {} /\ used = {} /\ reads = {} /\ approver \in BOOLEAN
    /\ dash = [connected |-> FALSE, issuer |-> FALSE, auth |-> 0, closure |-> 0, filter |-> "pending",
               queue |-> NoQueue, crashed |-> FALSE]
    /\ refresh = NoRefresh /\ review = NoReview
    /\ burnt = [nonces |-> {}, replayed |-> {}, clicks |-> 0]

\* `crashed': a redacted row has no wallet_address, and the row's render slices it.
Show(d) == [d EXCEPT !.crashed = @ \/ (d.connected /\ d.queue.kind = "redacted" /\ d.queue.rows # {})]

DashClick == burnt.clicks < MaxDashClicks /\ ~dash.crashed /\ burnt' = [burnt EXCEPT !.clicks = @ + 1]

-----------------------------------------------------------------------------
(* The environment.                                                        *)

PassTime ==
    /\ clock < MaxTime /\ clock' = clock + 1
    /\ UNCHANGED <<kyc, issued, approver, used, reads, dash, refresh, review, burnt>>

(* A user submits; another issuer issues on the chain or rejects.          *)
OthersAct ==
    /\ \E r \in Rows :
         \/ kyc[r] = "none" /\ kyc' = [kyc EXCEPT ![r] = "pending"] /\ UNCHANGED issued
         \/ kyc[r] = "pending" /\ kyc' = [kyc EXCEPT ![r] = "rejected"] /\ UNCHANGED issued
         \/ kyc[r] = "pending" /\ r \notin issued /\ issued' = issued \cup {r} /\ UNCHANGED kyc
    /\ UNCHANGED <<clock, approver, used, reads, dash, refresh, review, burnt>>

-----------------------------------------------------------------------------
(* authenticateIssuer.                                                     *)

Young(nonce) == nonce # 0 /\ nonce <= clock /\ clock - nonce <= NonceWindow

(* gcNonces.                                                               *)
Collected(now) == IF Cardinality(used) < GcSize THEN used ELSE {e \in used : now - e[2] <= NonceWindow}

IsUsed(nonce) == \E e \in used : e[1] = nonce

RowsOf(filter) == {r \in Rows : kyc[r] = filter}

(* What is left of an answer: of a count, that it came.                    *)
Answered(q, kind) ==
    [q EXCEPT !.at = kind, !.rows = IF refresh.pc = "queue" THEN @ ELSE {}, !.since = 0, !.after = FALSE]

(* The queue is read, then the nonce checked; the await of approvedIssuers *)
(* comes before the nonce is burned.                                       *)
ReadArrives ==
    /\ \E q \in reads :
         /\ q.at = "sent"
         /\ IF Young(q.nonce) /\ ~IsUsed(q.nonce)
            THEN /\ used' = Collected(clock)
                 /\ reads' = (reads \ {q}) \cup
                      {[q EXCEPT !.at = "checking", !.rows = RowsOf(q.filter), !.since = clock,
                                 !.after = q.nonce \in burnt.nonces]}
            ELSE /\ UNCHANGED used
                 /\ reads' = (reads \ {q}) \cup {Answered([q EXCEPT !.rows = RowsOf(q.filter)], "redacted")}
    /\ UNCHANGED <<clock, kyc, issued, approver, dash, refresh, review, burnt>>

ReadChecked ==
    /\ \E q \in reads :
         /\ q.at = "checking"
         /\ \/ /\ approver
               /\ reads' = (reads \ {q}) \cup {Answered(q, "full")}
               /\ used' = {e \in used : e[1] # q.nonce} \cup {<<q.nonce, q.since>>}
               /\ burnt' = [burnt EXCEPT !.nonces = @ \cup {q.nonce},
                                         !.replayed = @ \cup (IF q.after THEN {q.nonce} ELSE {})]
            \/ /\ reads' = (reads \ {q}) \cup {Answered(q, "redacted")}
               /\ UNCHANGED <<used, burnt>>
    /\ UNCHANGED <<clock, kyc, issued, approver, dash, refresh, review>>

-----------------------------------------------------------------------------
(* The dashboard.                                                          *)

Send(filters, nonce) ==
    {[filter |-> f, nonce |-> nonce, at |-> "sent", rows |-> {}, since |-> 0, after |-> FALSE] : f \in filters}

(* approvedIssuers, then the signature.                                    *)
HandleConnect ==
    /\ DashClick /\ ~dash.connected
    /\ \/ /\ approver
          /\ dash' = Show([dash EXCEPT !.connected = TRUE, !.issuer = TRUE, !.auth = clock])
       \/ dash' = Show([dash EXCEPT !.connected = TRUE, !.issuer = approver])
    /\ UNCHANGED <<clock, kyc, issued, approver, used, reads, refresh, review>>

Filter(f) ==
    /\ DashClick /\ f # dash.filter /\ dash.connected
    /\ dash' = [dash EXCEPT !.filter = f, !.closure = dash.auth]
    /\ UNCHANGED <<clock, kyc, issued, approver, used, reads, refresh, review>>

(* refreshQueue with the auth and the filter of the render it is called    *)
(* from: the button's, or the one the interval was set in.                 *)
StartRefresh(auth) ==
    IF auth # 0 /\ clock - auth > ResignAfter
    THEN refresh' = [pc |-> "sign", nonce |-> auth, filter |-> dash.filter, left |-> 0] /\ UNCHANGED reads
    ELSE /\ refresh' = [pc |-> "counts", nonce |-> auth, filter |-> dash.filter, left |-> 3]
         /\ reads' = Send(Filters, auth)

RefreshQueue ==
    /\ refresh.pc = "idle" /\ ~dash.crashed
    /\ \/ StartRefresh(dash.closure) /\ UNCHANGED burnt
       \/ DashClick /\ dash.connected /\ StartRefresh(dash.auth)
    /\ UNCHANGED <<clock, kyc, issued, approver, used, dash, review>>

Resigned ==
    /\ refresh.pc = "sign"
    /\ \E nonce \in {0, clock} :
         /\ refresh' = [refresh EXCEPT !.pc = "counts", !.nonce = nonce, !.left = 3]
         /\ reads' = Send(Filters, nonce)
         /\ dash' = IF nonce = 0 THEN dash ELSE [dash EXCEPT !.auth = nonce]
    /\ UNCHANGED <<clock, kyc, issued, approver, used, review, burnt>>

Answers == {q \in reads : q.at \in {"full", "redacted"}}

(* The three counts, then the queue of the filter with the same headers.   *)
CountsAnswered ==
    /\ refresh.pc = "counts" /\ Cardinality(Answers) = refresh.left
    /\ reads' = Send({refresh.filter}, refresh.nonce)
    /\ refresh' = [refresh EXCEPT !.pc = "queue", !.left = 1]
    /\ UNCHANGED <<clock, kyc, issued, approver, used, dash, review, burnt>>

QueueAnswered ==
    /\ refresh.pc = "queue"
    /\ \E q \in Answers :
         dash' = Show([dash EXCEPT !.queue = [kind |-> q.at, rows |-> q.rows]])
    /\ reads' = {} /\ refresh' = NoRefresh
    /\ UNCHANGED <<clock, kyc, issued, approver, used, review, burnt>>

RefreshFails ==
    /\ refresh.pc \in {"counts", "queue"}
    /\ reads' = {} /\ refresh' = NoRefresh
    /\ UNCHANGED <<clock, kyc, issued, approver, used, dash, review, burnt>>

-----------------------------------------------------------------------------
(* Reviews.                                                                *)

Shown(r) == dash.connected /\ r \in dash.queue.rows /\ dash.filter = "pending"

HandleApprove ==
    /\ DashClick /\ dash.issuer /\ review.pc = "idle"
    /\ \E r \in Rows \ UnknownRows :
         /\ Shown(r)
         /\ review' = [NoReview EXCEPT !.pc = "issue", !.row = r, !.auth = dash.auth]
    /\ UNCHANGED <<clock, kyc, issued, approver, used, reads, dash, refresh>>

HandleReject ==
    /\ DashClick /\ review.pc = "idle"
    /\ \E r \in Rows :
         /\ Shown(r)
         /\ review' = [NoReview EXCEPT !.pc = "sign", !.row = r, !.action = "reject", !.auth = dash.auth]
    /\ UNCHANGED <<clock, kyc, issued, approver, used, reads, dash, refresh>>

\* Mutant: every error of issueCredential is taken for CredentialAlreadyIssued.
AfterAnyError(error) == "sign"

\* The ABI of the frontend names no errors, so that the code never sees this one by
\* name; the model lets it, which only adds behaviours.
AfterIssueError(error) == IF error = "CredentialAlreadyIssued" THEN "sign" ELSE "idle"

IssueMined ==
    /\ review.pc = "issue"
    /\ \/ /\ approver /\ review.row \notin issued
          /\ issued' = issued \cup {review.row}
          /\ review' = [review EXCEPT !.pc = "sign"]
       \/ /\ review.row \in issued
          /\ review' = [review EXCEPT !.pc = AfterIssueError("CredentialAlreadyIssued")]
          /\ UNCHANGED issued
       \/ /\ review' = [review EXCEPT !.pc = AfterIssueError("user rejected")]
          /\ UNCHANGED issued
    /\ UNCHANGED <<clock, kyc, approver, used, reads, dash, refresh, burnt>>

ReviewSigned ==
    /\ review.pc = "sign"
    /\ \/ review' = [review EXCEPT !.pc = "post", !.nonce = clock]
       \/ review' = NoReview
    /\ UNCHANGED <<clock, kyc, issued, approver, used, reads, dash, refresh, burnt>>

(* /api/kyc/review: window and signature, the await of approvedIssuers.    *)
ReviewArrives ==
    /\ review.pc = "post"
    /\ review' = IF Young(review.nonce) THEN [review EXCEPT !.pc = "checking", !.status = kyc[review.row]]
                 ELSE NoReview
    /\ UNCHANGED <<clock, kyc, issued, approver, used, reads, dash, refresh, burnt>>

\* Mutant: the status read before the await.
StatusAtArrival == review.status

StatusNow == kyc[review.row]

(* The row is decided if it is pending, and the answer may be lost; the    *)
(* handler goes on to refresh the queue.                                   *)
ReviewDecides ==
    /\ review.pc = "checking"
    /\ LET decides == approver /\ StatusNow = "pending" IN
       /\ kyc' = IF decides
                 THEN [kyc EXCEPT ![review.row] = IF review.action = "approve" THEN "approved" ELSE "rejected"]
                 ELSE kyc
       /\ review' = NoReview
       /\ IF decides /\ refresh.pc = "idle" /\ ~dash.crashed
          THEN StartRefresh(review.auth) ELSE UNCHANGED <<refresh, reads>>
    /\ UNCHANGED <<clock, issued, approver, used, dash, burnt>>

ReviewFails ==
    /\ review.pc = "checking"
    /\ review' = NoReview
    /\ UNCHANGED <<clock, kyc, issued, approver, used, reads, dash, refresh, burnt>>

DashNext ==
    \/ PassTime \/ OthersAct \/ ReadArrives \/ ReadChecked
    \/ HandleConnect \/ \E f \in Filters : Filter(f)
    \/ RefreshQueue \/ Resigned \/ CountsAnswered \/ QueueAnswered \/ RefreshFails
    \/ HandleApprove \/ HandleReject \/ IssueMined \/ ReviewSigned \/ ReviewArrives
    \/ ReviewDecides \/ ReviewFails

DashSpec == DashInit /\ [][DashNext]_dashVars

-----------------------------------------------------------------------------
DashTypeOK ==
    /\ clock \in 1..MaxTime /\ issued \subseteq Rows
    /\ kyc \in [Rows -> {"none"} \cup Filters]
    /\ \A q \in reads : q.filter \in Filters /\ q.rows \subseteq Rows
    /\ dash.queue.rows \subseteq Rows /\ dash.auth \in 0..MaxTime
    /\ refresh.left \in {0, 1, 3}
    /\ \A e \in used : e[1] <= e[2]

(* A read that comes in after its nonce was accepted is not accepted,      *)
(* whatever gcNonces has collected in between.                             *)
NoReplayAfterUse == burnt.replayed = {}

(* What the dashboard approves is on the chain.                            *)
ApprovedIsIssued == \A r \in Rows : kyc[r] = "approved" => r \in issued

(* A row is decided once: a review that another issuer's overtook does     *)
(* not overwrite it.                                                       *)
DecidedOnce ==
    [][\A r \in Rows : kyc[r] \in {"approved", "rejected"} => kyc'[r] = kyc[r]]_dashVars

(* What reads and reviews of the issuers leave behind at any moment.       *)
DashInv == DashTypeOK /\ NoReplayAfterUse /\ ApprovedIsIssued
=============================================================================
