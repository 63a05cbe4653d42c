---------------------------- MODULE KYCWorkflow ----------------------------
(***************************************************************************)
(* The KYC requests of the backend: the table kyc_requests (db.ts), the    *)
(* handlers that write it (server.ts), the demo auto-issuer                *)
(* (auto-issuer.ts), Sumsub with its webhook, and the e-mails (notify.ts). *)
(*                                                                         *)
(* JavaScript runs to completion between awaits: an action is the code     *)
(* from one await to the next.  A request is known by its position in      *)
(* rows, which is the order of submitted_at.  A call is a handler that is  *)
(* suspended at an await.                                                  *)
(***************************************************************************)
EXTENDS Naturals, Sequences, FiniteSets

CONSTANTS Commitments,   \* texts of the column identity_commitment
          BlindSessions, \* those of them that are session ids of the voucher flow ("blind-...")
          Unissuable,    \* those that are numbers the contract refuses (0, beyond the field)
          Others,        \* bound: those of them that take part only in a "crowd"
          Types,         \* credential types a request can name
          KnownTypes,    \* keys of CREDENTIAL_TYPE_TO_GROUP
          KYCVerified,   \* the type of the rows Sumsub's flow creates
          QueueLimit,    \* LIMIT of getKYCQueue (100)
          MaxRows,       \* bound: requests ever inserted
          MaxCalls,      \* bound: handlers suspended at a time
          MaxDeliveries, \* bound: verdicts Sumsub reports
          MaxFaults,     \* bound: failing calls and crashes of the process
          Scopes         \* bound: kinds of input one behaviour combines, sets of
                         \* "mail", "fresh", "misspelt", "sumsub", "chain", "fault", "crowd",
                         \* "twice" (a second verdict after a RED one), "voucher" (blind
                         \* sessions), "refused" (unissuable numbers), "halt" (groups close)

ASSUME KYCAssumption ==
    /\ KYCVerified \in KnownTypes /\ KnownTypes \subseteq Types
    /\ BlindSessions \subseteq Commitments /\ Unissuable \subseteq Commitments \ BlindSessions
    /\ QueueLimit \in Nat \ {0}
    /\ MaxRows \in Nat /\ MaxCalls \in Nat /\ MaxDeliveries \in Nat /\ MaxFaults \in Nat

VARIABLES rows,        \* kyc_requests
          digests,     \* webhook_events: deliveries recorded as seen
          applicants,  \* Sumsub's applicant of a commitment
          deliveries,  \* deliveries[n]: the commitment whose verdict webhook n reports
          unacked,     \* deliveries Sumsub still repeats
          calls,       \* suspended handlers
          auto,        \* where the auto-issuer's pass stands, and its snapshot of the queue
          mails,       \* notification promises not yet settled: the rows they are for
          approvers,   \* on-chain: "auto" and "human" as far as they are approved issuers
          groups,      \* on-chain: whether the group of a type takes the auto-issuer's issuances
          issued,      \* on-chain: credentials, as <<type, commitment>>
          everIssued,  \* history: credentials that were ever issued
          faults, scope

kycVars == <<rows, digests, applicants, deliveries, unacked, calls, auto, mails,
             approvers, groups, issued, everIssued, faults, scope>>
dbVars == <<rows, digests>>
sumsubVars == <<applicants, deliveries, unacked>>
chainVars == <<approvers, groups, issued, everIssued>>

Row == [c : Commitments, type : Types, status : {"pending", "approved", "rejected"},
        by : {"none", "human", "auto"}, email : BOOLEAN,
        notified : BOOLEAN, fresh : BOOLEAN]
RowIds == 1..Len(rows)
Call == [kind : {"init", "initCreate", "webhook", "approvalMail", "rejectionMail"},
         c : Commitments, email : BOOLEAN, fresh : BOOLEAN,
         delivery : Nat, row : Nat]
QueueEntry == [id : RowIds, mail : BOOLEAN]
AutoStep == {"off", "idle", "next", "look", "issue", "mined"}

(* "halted": paused, globally or for its issuer, or the wallet is neither   *)
(* its issuer nor its delegate; "reopened" after that; an inactive group    *)
(* stays so.  A group halts once: a bound.                                  *)
GroupStatus == {"open", "halted", "reopened", "inactive"}

KYCTypeOK ==
    /\ rows \in Seq(Row)
    /\ digests \subseteq DOMAIN deliveries
    /\ applicants \in [Commitments -> {"none", "init", "GREEN", "RED"}]
    /\ deliveries \in Seq(Commitments)
    /\ unacked \subseteq DOMAIN deliveries
    /\ calls \subseteq Call
    /\ auto \in [pc : AutoStep, queue : Seq(QueueEntry)]
    /\ mails \subseteq RowIds
    /\ approvers \subseteq {"auto", "human"}
    /\ groups \in [Types -> GroupStatus]
    /\ issued \subseteq everIssued /\ everIssued \subseteq Types \X Commitments
    /\ faults \in 0..MaxFaults

Faulty == faults < MaxFaults /\ "fault" \in scope

NoPass(pc) == [pc |-> pc, queue |-> << >>]

KYCInit ==
    /\ rows = << >> /\ digests = {}
    /\ applicants = [c \in Commitments |-> "none"]
    /\ deliveries = << >> /\ unacked = {}
    /\ calls = {} /\ auto \in {NoPass("off"), NoPass("idle")} /\ mails = {}
    /\ approvers = {"auto", "human"} /\ groups = [t \in Types |-> "open"] /\ issued = {} /\ everIssued = {}
    /\ faults = 0 /\ scope \in Scopes

----------------------------------------------------------------------------
(* db.ts *)

RowsOf(c) == {i \in RowIds : rows[i].c = c}

(* getKYCByCommitment: the latest row, 0 for none. *)
KYCByCommitment(c) == IF RowsOf(c) = {} THEN 0
                      ELSE CHOOSE i \in RowsOf(c) : \A j \in RowsOf(c) : j <= i

(* insertKYCRequest, bounded by MaxRows. *)
InsertKYCRequest(c, t, email, fresh) ==
    /\ Len(rows) < MaxRows
    /\ rows' = Append(rows, [c |-> c, type |-> t, status |-> "pending", by |-> "none",
                             email |-> email, notified |-> FALSE,
                             fresh |-> fresh])

SetFreshnessCommitment(i) == rows' = [rows EXCEPT ![i].fresh = TRUE]

MarkKYCNotified(i) == rows' = [rows EXCEPT ![i].notified = TRUE, ![i].email = FALSE]

UpdateKYCStatus(i, status, reviewer) ==
    rows' = [rows EXCEPT ![i].status = status, ![i].by = reviewer]

(* The pending ones of the first n rows, newest first, with the columns of *)
(* them that can change and are used later.                                *)
NewestPending[n \in 0..Len(rows)] ==
    IF n = 0 THEN << >>
    ELSE LET row == [id |-> n, mail |-> rows[n].email /\ ~rows[n].notified]
         IN  IF rows[n].status = "pending" THEN <<row>> \o NewestPending[n - 1]
                                           ELSE NewestPending[n - 1]

(* getKYCQueue("pending"): the newest QueueLimit of all.                   *)
KYCQueue ==
    LET pending == NewestPending[Len(rows)]
    IN  SubSeq(pending, 1, IF Len(pending) < QueueLimit THEN Len(pending) ELSE QueueLimit)

----------------------------------------------------------------------------
(* server.ts *)

(* The check of a commitment that a client sends. *)
Numeric(c) == c \notin BlindSessions

(* /api/kyc/submit, refused for KYCVerified: a pending latest row is kept. *)
Submit(c, t, email, fresh) ==
    /\ t # KYCVerified /\ Numeric(c)
    /\ LET existing == KYCByCommitment(c)
           waiting == existing # 0 /\ rows[existing].status = "pending"
       IN  IF waiting THEN fresh /\ SetFreshnessCommitment(existing)
                      ELSE InsertKYCRequest(c, t, email, fresh)
    /\ UNCHANGED <<digests, sumsubVars, calls, auto, mails, chainVars, faults, scope>>

(* /api/kyc/freshness/attach: to the latest row, whatever its status. *)
AttachFreshness(c) ==
    /\ Numeric(c) /\ RowsOf(c) # {}
    /\ SetFreshnessCommitment(KYCByCommitment(c))
    /\ UNCHANGED <<digests, sumsubVars, calls, auto, mails, chainVars, faults, scope>>

\* Mutant: no look at the status.
ReviewAgain(i, status) ==
    /\ "human" \in approvers
    /\ UpdateKYCStatus(i, status, "human")
    /\ UNCHANGED <<digests, sumsubVars, calls, auto, mails, chainVars, faults, scope>>

(* /api/kyc/review: after the awaited signature check the row is read and  *)
(* written in one piece.                                                   *)
Review(i, status) ==
    /\ "human" \in approvers
    /\ rows[i].status = "pending"
    /\ UpdateKYCStatus(i, status, "human")
    /\ UNCHANGED <<digests, sumsubVars, calls, auto, mails, chainVars, faults, scope>>

NewCall(call) == Cardinality(calls) < MaxCalls /\ calls' = calls \cup {call}

(* /api/kyc/sumsub/init, up to its first await. *)
SumsubInit(c, email, fresh) ==
    /\ Numeric(c)
    /\ NewCall([kind |-> "init", c |-> c, email |-> email, fresh |-> fresh,
             delivery |-> 0, row |-> 0])
    /\ UNCHANGED <<dbVars, sumsubVars, auto, mails, chainVars, faults, scope>>

\* Mutant: no look for an existing row.
PlaceholderAlways(call) ==
    InsertKYCRequest(call.c, KYCVerified, call.email, call.fresh)

(* The row a call to init leaves behind once there is an applicant. *)
PlaceholderRow(call) ==
    LET existing == KYCByCommitment(call.c)
    IN  IF existing = 0 /\ (call.email \/ call.fresh)
        THEN InsertKYCRequest(call.c, KYCVerified, call.email, call.fresh)
        ELSE IF existing # 0 /\ call.fresh THEN SetFreshnessCommitment(existing)
        ELSE UNCHANGED rows

(* getApplicantByExternalId has answered: with an applicant the row is     *)
(* written and the token requested, without one it is created first.       *)
InitFound(call) ==
    /\ call \in calls /\ call.kind = "init"
    /\ IF applicants[call.c] = "none"
       THEN /\ calls' = (calls \ {call}) \cup {[call EXCEPT !.kind = "initCreate"]}
            /\ UNCHANGED rows
       ELSE PlaceholderRow(call) /\ calls' = calls \ {call}
    /\ UNCHANGED <<digests, sumsubVars, auto, mails, chainVars, faults, scope>>

(* createApplicant: Sumsub refuses a second applicant with the same id and *)
(* the handler answers 500.                                                *)
InitCreated(call) ==
    /\ call \in calls /\ call.kind = "initCreate"
    /\ calls' = calls \ {call}
    /\ IF applicants[call.c] = "none"
       THEN /\ PlaceholderRow(call)
            /\ applicants' = [applicants EXCEPT ![call.c] = "init"]
       ELSE UNCHANGED <<rows, applicants>>
    /\ UNCHANGED <<digests, deliveries, unacked, auto, mails, chainVars, faults, scope>>

(* /api/kyc/voucher/session gives a random session id an applicant; the     *)
(* session itself is VoucherFlow's.                                        *)
StartVoucherSession(c) ==
    /\ c \in BlindSessions /\ applicants[c] = "none"
    /\ applicants' = [applicants EXCEPT ![c] = "init"]
    /\ UNCHANGED <<dbVars, deliveries, unacked, calls, auto, mails, chainVars, faults, scope>>

(* /api/kyc/sumsub/webhook: the digest is recorded, then the applicant is  *)
(* fetched.  A delivery seen before is acknowledged at once.               *)
Webhook(n) ==
    /\ n \in unacked
    /\ IF n \in digests
       THEN unacked' = unacked \ {n} /\ UNCHANGED <<digests, calls>>
       ELSE /\ digests' = digests \cup {n}
            /\ NewCall([kind |-> "webhook", c |-> deliveries[n], email |-> FALSE,
                        fresh |-> FALSE, delivery |-> n, row |-> 0])
            /\ UNCHANGED unacked
    /\ UNCHANGED <<rows, applicants, deliveries, auto, mails, chainVars, faults, scope>>

(* The answer of Sumsub: GREEN makes sure there is a row, also for the      *)
(* session id of a voucher; whoever left an address is mailed.             *)
WebhookVerdict(call) ==
    LET existing == KYCByCommitment(call.c)
        answer == applicants[call.c]
        mailed == existing # 0 /\ rows[existing].email /\ answer \in {"GREEN", "RED"}
    IN  /\ call \in calls /\ call.kind = "webhook"
        /\ IF existing = 0 /\ answer = "GREEN"
           THEN InsertKYCRequest(call.c, KYCVerified, FALSE, FALSE)
           ELSE UNCHANGED rows
        /\ calls' = (calls \ {call}) \cup
             (IF ~mailed THEN {}
              ELSE {[call EXCEPT !.row = existing,
                                 !.kind = IF answer = "GREEN" THEN "approvalMail"
                                                              ELSE "rejectionMail"]})
        /\ unacked' = IF mailed THEN unacked ELSE unacked \ {call.delivery}
        /\ UNCHANGED <<digests, applicants, deliveries, auto, mails, chainVars, faults, scope>>

(* sendViaResend has answered: a mail that was sent clears the address,    *)
(* one that was not is logged; Sumsub gets its reply.                      *)
WebhookMailed(call) ==
    /\ call \in calls /\ call.kind \in {"approvalMail", "rejectionMail"}
    /\ calls' = calls \ {call} /\ unacked' = unacked \ {call.delivery}
    /\ \/ MarkKYCNotified(call.row) /\ UNCHANGED faults
       \/ Faulty /\ faults' = faults + 1 /\ UNCHANGED rows
    /\ UNCHANGED <<digests, applicants, deliveries, auto, mails, chainVars, scope>>

(* A call to Sumsub fails and the handler answers 500; the applicant may   *)
(* have been created all the same.                                         *)
SumsubFails(call) ==
    /\ call \in calls /\ call.kind \in {"init", "initCreate", "webhook"} /\ Faulty
    /\ calls' = calls \ {call} /\ faults' = faults + 1
    /\ \/ UNCHANGED applicants
       \/ /\ call.kind = "initCreate" /\ applicants[call.c] = "none"
          /\ applicants' = [applicants EXCEPT ![call.c] = "init"]
    /\ UNCHANGED <<dbVars, deliveries, unacked, auto, mails, chainVars, scope>>

----------------------------------------------------------------------------
(* auto-issuer.ts *)

(* A poll.  The snapshot leaves out the rows younger than MIN_AGE_MS,      *)
(* which are the first ones of the queue.                                  *)
AutoPoll(young) ==
    LET ripe == SubSeq(KYCQueue, young + 1, Len(KYCQueue))
    IN  /\ auto.pc = "idle" /\ ripe # << >>
        /\ auto' = [pc |-> "next", queue |-> ripe]
        /\ UNCHANGED <<dbVars, sumsubVars, calls, mails, chainVars, faults, scope>>

Req == Head(auto.queue)
Credential == <<rows[Req.id].type, rows[Req.id].c>>
Turned == LET rest == Tail(auto.queue)
          IN  [pc |-> IF rest = << >> THEN "idle" ELSE "next", queue |-> rest]

(* No group for this type. *)
AutoSkip ==
    /\ auto.pc = "next" /\ rows[Req.id].type \notin KnownTypes
    /\ auto' = Turned
    /\ UNCHANGED <<dbVars, sumsubVars, calls, mails, chainVars, faults, scope>>

(* approvedIssuers has answered; then BigInt() throws for a session id. *)
AutoCheck ==
    /\ auto.pc = "next" /\ rows[Req.id].type \in KnownTypes
    /\ auto' = IF "auto" \in approvers /\ Numeric(rows[Req.id].c)
               THEN [auto EXCEPT !.pc = "look"] ELSE Turned
    /\ UNCHANGED <<dbVars, sumsubVars, calls, mails, chainVars, faults, scope>>

\* Mutant: a row whose credential exists is skipped, not approved.
AutoLookSkips ==
    /\ auto.pc = "look"
    /\ auto' = IF Credential \in issued THEN Turned ELSE [auto EXCEPT !.pc = "issue"]
    /\ UNCHANGED <<dbVars, sumsubVars, calls, mails, chainVars, faults, scope>>

(* hasCredential has answered. *)
AutoLook ==
    /\ auto.pc = "look"
    /\ IF Credential \in issued
       THEN UpdateKYCStatus(Req.id, "approved", "auto") /\ auto' = Turned
       ELSE auto' = [auto EXCEPT !.pc = "issue"] /\ UNCHANGED rows
    /\ UNCHANGED <<digests, sumsubVars, calls, mails, chainVars, faults, scope>>

(* issueCredential does not revert for the auto-issuer's wallet. *)
Open(t) == groups[t] \in {"open", "reopened"}
Issuable(t, c) ==
    /\ "auto" \in approvers /\ Open(t) /\ c \notin Unissuable
    /\ <<t, c>> \notin issued

\* Mutant: the receipt's status is not looked at.
AutoIssueUnchecked ==
    /\ auto.pc = "issue"
    /\ auto' = [auto EXCEPT !.pc = "mined"]
    /\ IF Issuable(rows[Req.id].type, rows[Req.id].c)
       THEN issued' = issued \cup {Credential} /\ everIssued' = everIssued \cup {Credential}
       ELSE UNCHANGED <<issued, everIssued>>
    /\ UNCHANGED <<dbVars, sumsubVars, calls, mails, approvers, groups, faults, scope>>

(* issueCredential is mined, or reverts: its ABI names no errors, so the   *)
(* catch recognises none and the row is left to the next pass.             *)
AutoIssue ==
    /\ auto.pc = "issue"
    /\ IF Issuable(rows[Req.id].type, rows[Req.id].c)
       THEN /\ issued' = issued \cup {Credential} /\ everIssued' = everIssued \cup {Credential}
            /\ auto' = [auto EXCEPT !.pc = "mined"]
       ELSE auto' = Turned /\ UNCHANGED <<issued, everIssued>>
    /\ UNCHANGED <<dbVars, sumsubVars, calls, mails, approvers, groups, faults, scope>>

(* The receipt: the row is approved whatever became of it meanwhile, and   *)
(* the mail is decided by the snapshot.                                    *)
AutoRecord ==
    /\ auto.pc = "mined"
    /\ UpdateKYCStatus(Req.id, "approved", "auto")
    /\ mails' = IF Req.mail THEN mails \cup {Req.id} ELSE mails
    /\ auto' = Turned
    /\ UNCHANGED <<digests, sumsubVars, calls, chainVars, faults, scope>>

AutoMailed(i) ==
    /\ i \in mails
    /\ mails' = mails \ {i}
    /\ \/ MarkKYCNotified(i) /\ UNCHANGED faults
       \/ Faulty /\ faults' = faults + 1 /\ UNCHANGED rows
    /\ UNCHANGED <<digests, sumsubVars, calls, auto, chainVars, scope>>

(* A failing RPC call: the row is left to the next pass. *)
AutoFails ==
    /\ auto.pc \in {"next", "look", "issue", "mined"} /\ Faulty
    /\ auto' = Turned /\ faults' = faults + 1
    /\ UNCHANGED <<dbVars, sumsubVars, calls, mails, chainVars, scope>>

----------------------------------------------------------------------------
(* The environment. *)

(* Sumsub reviews the applicant, again after a RED, and reports it. *)
Verdict(c, answer) ==
    /\ applicants[c] \in {"init", "RED"}
    /\ Len(deliveries) < (IF "twice" \in scope THEN MaxDeliveries ELSE 1)
    /\ applicants' = [applicants EXCEPT ![c] = answer]
    /\ deliveries' = Append(deliveries, c)
    /\ unacked' = unacked \cup {Len(deliveries) + 1}
    /\ UNCHANGED <<dbVars, calls, auto, mails, chainVars, faults, scope>>

(* An issuer issues from its page (at most the first issuance: a bound),   *)
(* revokes, or loses its approval.                                         *)
IssueOnChain(t, c) ==
    /\ t \in KnownTypes /\ <<t, c>> \notin everIssued
    /\ groups[t] # "inactive" /\ Numeric(c) /\ c \notin Unissuable
    /\ issued' = issued \cup {<<t, c>>} /\ everIssued' = everIssued \cup {<<t, c>>}
    /\ UNCHANGED <<dbVars, sumsubVars, calls, auto, mails, approvers, groups, faults, scope>>

RevokeOnChain(t, c) ==
    /\ <<t, c>> \in issued
    /\ issued' = issued \ {<<t, c>>}
    /\ UNCHANGED <<dbVars, sumsubVars, calls, auto, mails, approvers, groups, everIssued, faults, scope>>

RemoveApprover(a) ==
    /\ a \in approvers
    /\ approvers' = approvers \ {a}
    /\ UNCHANGED <<dbVars, sumsubVars, calls, auto, mails, groups, issued, everIssued, faults, scope>>

(* A pause or its end, of the contract or of an issuer, a delegation given  *)
(* or withdrawn, a deactivation.                                           *)
GroupChanges(t, to) ==
    /\ <<groups[t], to>> \in ({"open"} \X {"halted"}) \cup ({"halted"} \X {"reopened"})
                            \cup ((GroupStatus \ {"inactive"}) \X {"inactive"})
    /\ groups' = [groups EXCEPT ![t] = to]
    /\ UNCHANGED <<dbVars, sumsubVars, calls, auto, mails, approvers, issued, everIssued, faults, scope>>

(* The process dies and is started again: what was suspended is gone. *)
Restart ==
    /\ Faulty /\ faults' = faults + 1
    /\ calls' = {} /\ mails' = {}
    /\ auto' = NoPass(IF auto.pc = "off" THEN "off" ELSE "idle")
    /\ UNCHANGED <<dbVars, sumsubVars, chainVars, scope>>

AutoStepNext == AutoSkip \/ AutoCheck \/ AutoLook \/ AutoIssue \/ AutoRecord

InScope(email, fresh) == (email => "mail" \in scope) /\ (fresh => "fresh" \in scope)

People == {c \in Commitments : /\ c \in Others => "crowd" \in scope
                               /\ c \in BlindSessions => "voucher" \in scope
                               /\ c \in Unissuable => "refused" \in scope}

KYCNext ==
    \/ \E c \in People, t \in Types, email, fresh \in BOOLEAN :
          /\ InScope(email, fresh) /\ (t \in KnownTypes \/ "misspelt" \in scope)
          /\ Submit(c, t, email, fresh)
    \/ \E c \in People : "fresh" \in scope /\ AttachFreshness(c)
    \/ \E i \in RowIds, status \in {"approved", "rejected"} : Review(i, status)
    \/ \E c \in People, email, fresh \in BOOLEAN :
          InScope(email, fresh) /\ "sumsub" \in scope /\ SumsubInit(c, email, fresh)
    \/ \E c \in People : StartVoucherSession(c)
    \/ \E n \in DOMAIN deliveries : Webhook(n)
    \/ \E call \in calls : \/ InitFound(call) \/ InitCreated(call) \/ WebhookVerdict(call)
                           \/ WebhookMailed(call) \/ SumsubFails(call)
    \/ AutoStepNext
    \/ \E young \in 0..(QueueLimit - 1) : AutoPoll(young)
    \/ \E i \in RowIds : AutoMailed(i)
    \/ AutoFails
    \/ \E c \in People, answer \in {"GREEN", "RED"} : Verdict(c, answer)
    \/ /\ "chain" \in scope
       /\ \/ \E c \in People, t \in Types : IssueOnChain(t, c) \/ RevokeOnChain(t, c)
          \/ \E a \in {"auto", "human"} : RemoveApprover(a)
    \/ \E t \in KnownTypes, to \in GroupStatus : "halt" \in scope /\ GroupChanges(t, to)
    \/ Restart

KYCSpec == KYCInit /\ [][KYCNext]_kycVars

(* The timer polls and the chain answers; time passes; people, Sumsub and  *)
(* issuers need not do anything.                                           *)
KYCFairness == WF_kycVars(AutoStepNext) /\ SF_kycVars(AutoPoll(0))

KYCFairSpec == KYCSpec /\ KYCFairness

----------------------------------------------------------------------------
(* Properties *)

(* At most one request of a commitment is pending, and it is the latest:   *)
(* every handler looks for a pending one and inserts without an await in   *)
(* between, and a closed request is never reopened.                        *)
OnePending ==
    \A i \in RowIds : rows[i].status = "pending" => i = KYCByCommitment(rows[i].c)

(* A request the auto-issuer approved got its credential on-chain: neither *)
(* a reverted nor an unanswered transaction, nor a stale read, approves a  *)
(* request without.                                                        *)
AutoApprovalBacked ==
    \A i \in RowIds : rows[i].by = "auto" => <<rows[i].type, rows[i].c>> \in everIssued

(* A row of the type that submit refuses comes from Sumsub's flow: its     *)
(* commitment has an applicant.                                            *)
KYCVerifiedHasApplicant ==
    \A i \in RowIds : rows[i].type = KYCVerified => applicants[rows[i].c] # "none"

(* Once somebody was told, the address is gone and stays gone, whichever   *)
(* handlers and mails were under way.                                      *)
NotifiedForgotten == \A i \in RowIds : rows[i].notified => ~rows[i].email

(* A closed request changes its verdict only from rejected to approved,    *)
(* by the auto-issuer, with the credential on-chain before.                *)
VerdictStands ==
    [][\A i \in RowIds :
         rows[i].status # "pending" /\ rows'[i].status # rows[i].status =>
             /\ rows[i].status = "rejected" /\ rows'[i].status = "approved"
             /\ rows'[i].by = "auto"
             /\ <<rows[i].type, rows[i].c>> \in everIssued]_kycVars

(* A pending request is decided, unless the auto-issuer is off or lost its *)
(* approval, the request is one it cannot finish, or the queue it reads is *)
(* filled by newer ones of that kind, which it tries again for ever: a     *)
(* failing or skipped request does not hold up the others.                 *)
Hopeless(i) ==
    \/ rows[i].type \notin KnownTypes
    \/ rows[i].c \in BlindSessions \cup Unissuable
    \/ ~Open(rows[i].type)

StuckBefore(i) == {j \in RowIds : j > i /\ rows[j].status = "pending" /\ Hopeless(j)}

PendingDecided ==
    \A i \in 1..MaxRows :
        (i \in RowIds) ~>
            \/ i \in RowIds /\ (rows[i].status # "pending" \/ Hopeless(i))
            \/ auto.pc = "off" \/ "auto" \notin approvers
            \/ Cardinality(StuckBefore(i)) >= QueueLimit

(* An applicant who passed has a request, or a report of it is to be       *)
(* worked on, whatever the order of deliveries and repeats: no webhook is  *)
(* taken for one that was seen, unless a call or the process has failed.   *)
ReportDue(c) ==
    \/ \E n \in unacked \ digests : deliveries[n] = c
    \/ \E call \in calls : call.kind = "webhook" /\ call.c = c

PassedIsRecorded ==
    faults = 0 => \A c \in Commitments : applicants[c] = "GREEN" => RowsOf(c) # {} \/ ReportDue(c)

(* What the tables of the workflow satisfy at any moment.                  *)
KYCInv == /\ KYCTypeOK /\ OnePending /\ KYCVerifiedHasApplicant /\ NotifiedForgotten
          /\ PassedIsRecorded
=============================================================================
