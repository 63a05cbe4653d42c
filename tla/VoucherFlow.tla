---------------------------- MODULE VoucherFlow ----------------------------
(***************************************************************************)
(* Blind issuance: the voucher endpoints of server.ts with the table       *)
(* voucher_sessions, the claim page of the frontend (app/claim/page.tsx,   *)
(* lib/blind.ts, SumsubVerification.tsx) and ClaimCredential.sol.          *)
(*                                                                         *)
(* RSA is abstracted to what its parties can do with it: a request carries *)
(* a commitment blinded for one call, the signature that comes back can be *)
(* unblinded by that call only, and the contract accepts, for a            *)
(* commitment, the signature of that commitment.                           *)
(***************************************************************************)
EXTENDS Naturals, FiniteSets

CONSTANTS Browsers,     \* browser tabs on the claim page
          CommitmentIn, \* CommitmentIn[b]: commitment of the identity the tab's wallet derives
          Sessions,     \* random session ids
          NoSession,
          Malformed,    \* a blinded value outside (1, N), from another client
          MaxRequests,  \* bound: calls of POST /api/kyc/voucher from a tab
          LossyTabs     \* bound: tabs that are used in a lossy behaviour

VoucherCommitments == {CommitmentIn[b] : b \in Browsers}

ASSUME VoucherAssumption ==
    /\ NoSession \notin Sessions
    /\ Malformed \notin VoucherCommitments
    /\ MaxRequests \in Nat
    /\ LossyTabs \subseteq Browsers

VARIABLES created, spent,  \* voucher_sessions: session_id, and those with spent_at
          verdict,         \* Sumsub's answer for a session's applicant
          page,            \* React state of a tab
          requests,        \* voucher calls under way
          sent,            \* sent[b]: number of voucher calls made from a tab
          signed,          \* history: the calls that got a signature
          usedNullifier,   \* ClaimCredential: commitments whose signature was redeemed
          claimed,         \* history: the commitments it issued credentials for
          members,         \* the group of the passport contract
          delegate,        \* ClaimCredential may issue for the group
          lossy            \* bound: in this behaviour connections break, tabs are
                           \* closed and other clients post

voucherVars == <<created, spent, verdict, page, requests, sent, signed,
                 usedNullifier, claimed, members, delegate, lossy>>
serverVars == <<created, spent, signed>>
claimVars == <<usedNullifier, claimed, members, delegate>>

Stages == {"intro", "verifying", "claim", "claiming", "done"}
Page == [stage : Stages, session : Sessions \cup {NoSession}]
Intro == [stage |-> "intro", session |-> NoSession]
Request == [n : 1..MaxRequests, b : Browsers, session : Sessions,
            c : VoucherCommitments \cup {Malformed}]
Stored(pc) == {r \in requests : r.pc = pc}

VoucherTypeOK ==
    /\ created \subseteq Sessions /\ spent \subseteq created
    /\ verdict \in [Sessions -> {"none", "init", "GREEN", "RED"}]
    /\ page \in [Browsers -> Page]
    /\ \A b \in Browsers : page[b].stage = "intro" <=> page[b].session = NoSession
    /\ requests \subseteq [call : Request, pc : {"arriving", "fetching", "signature", "refused"}]
    /\ sent \in [Browsers -> 0..MaxRequests]
    /\ signed \subseteq Request
    /\ usedNullifier \subseteq VoucherCommitments /\ claimed \subseteq VoucherCommitments
    /\ members \subseteq VoucherCommitments
    /\ delegate \in BOOLEAN /\ lossy \in BOOLEAN

VoucherInit ==
    /\ created = {} /\ spent = {} /\ verdict = [s \in Sessions |-> "none"]
    /\ page = [b \in Browsers |-> Intro]
    /\ requests = {} /\ sent = [b \in Browsers |-> 0] /\ signed = {}
    /\ usedNullifier = {} /\ claimed = {} /\ members = {} /\ delegate = FALSE
    /\ lossy \in BOOLEAN

----------------------------------------------------------------------------
(* The tab.  What a control is shown for is the guard of its handler. *)

CanStart(b) == page[b].stage = "intro"
CanVerify(b) == page[b].stage = "verifying"
CanClaim(b) == page[b].stage = "claim"

(* handleConnectAndVerify and POST /api/kyc/voucher/session: the applicant *)
(* exists, then the row; the answer arrives, or is lost or is a 500 for a  *)
(* token that Sumsub refused.                                              *)
ConnectAndVerify(b, s, answered) ==
    /\ CanStart(b)
    /\ s \notin created /\ (~answered => lossy) /\ (lossy => b \in LossyTabs)
    /\ created' = created \cup {s}
    /\ verdict' = [verdict EXCEPT ![s] = "init"]
    /\ page' = IF answered THEN [page EXCEPT ![b] = [stage |-> "verifying", session |-> s]]
                           ELSE page
    /\ UNCHANGED <<spent, requests, sent, signed, claimVars, lossy>>

(* obtainVoucher, called by the SDK's status event and by Refresh Status:  *)
(* busy guards the button only, so calls can overlap.                      *)
ObtainVoucher(b) ==
    /\ CanVerify(b)
    /\ verdict[page[b].session] = "GREEN"
    /\ sent[b] < MaxRequests /\ sent' = [sent EXCEPT ![b] = @ + 1]
    /\ requests' = requests \cup
         {[call |-> [n |-> sent[b] + 1, b |-> b, session |-> page[b].session,
                     c |-> CommitmentIn[b]], pc |-> "arriving"]}
    /\ UNCHANGED <<serverVars, verdict, page, claimVars, lossy>>

(* Some other client posts for a session it knows: its own blinding of a   *)
(* commitment, or a value out of range.                                    *)
ForeignRequest(b, s, c) ==
    /\ lossy /\ b \in LossyTabs /\ (s \in created => page[b].session = s)
    /\ sent[b] < MaxRequests /\ sent' = [sent EXCEPT ![b] = @ + 1]
    /\ requests' = requests \cup
         {[call |-> [n |-> sent[b] + 1, b |-> b, session |-> s, c |-> c], pc |-> "arriving"]}
    /\ UNCHANGED <<serverVars, verdict, page, claimVars, lossy>>

At(r, pc) == (requests \ {r}) \cup {[r EXCEPT !.pc = pc]}

(* The answer of a voucher call: unblind() gives this tab its signature.   *)
VoucherReply(r) ==
    /\ r \in Stored("signature") \cup Stored("refused")
    /\ requests' = requests \ {r}
    /\ page' = IF /\ r.pc = "signature" /\ page[r.call.b].session = r.call.session
                  /\ r.call.c = CommitmentIn[r.call.b]
               THEN [page EXCEPT ![r.call.b].stage = "claim"] ELSE page
    /\ UNCHANGED <<serverVars, verdict, sent, claimVars, lossy>>

(* The connection breaks: r, the blinding factor, was only in the call.    *)
LoseReply(r) ==
    /\ lossy /\ r \in requests /\ r.pc \in {"signature", "refused"}
    /\ requests' = requests \ {r}
    /\ UNCHANGED <<serverVars, verdict, page, sent, claimVars, lossy>>

(* Closing or reloading the tab: identity, session and sig are React state *)
Reload(b) ==
    /\ lossy /\ page[b] # Intro
    /\ page' = [page EXCEPT ![b] = Intro]
    /\ requests' = {r \in requests : r.call.b # b \/ r.pc \in {"arriving", "fetching"}}
    /\ UNCHANGED <<serverVars, verdict, sent, claimVars, lossy>>

----------------------------------------------------------------------------
(* POST /api/kyc/voucher *)

(* Mutant: the session is reserved when it is looked up. *)
LookUpAndSpend(r) ==
    /\ r \in Stored("arriving")
    /\ requests' = At(r, IF r.call.session \notin created \/ r.call.session \in spent
                         THEN "refused" ELSE "fetching")
    /\ spent' = spent \cup ({r.call.session} \cap created)
    /\ UNCHANGED <<created, signed, verdict, page, sent, claimVars, lossy>>

(* The session is looked up, then Sumsub is asked. *)
LookUpSession(r) ==
    /\ r \in Stored("arriving")
    /\ requests' = At(r, IF r.call.session \notin created \/ r.call.session \in spent
                         THEN "refused" ELSE "fetching")
    /\ UNCHANGED <<serverVars, verdict, page, sent, claimVars, lossy>>

(* spendVoucherSession: only from unspent to spent. *)
SpendVoucherSession(s) == s \notin spent /\ spent' = spent \cup {s}

(* Mutant: the session is spent before the value is signed. *)
SpendThenSign(r) ==
    /\ r \in Stored("fetching")
    /\ IF verdict[r.call.session] = "GREEN" /\ r.call.session \notin spent
       THEN /\ SpendVoucherSession(r.call.session)
            /\ IF r.call.c # Malformed
               THEN requests' = At(r, "signature") /\ signed' = signed \cup {r.call}
               ELSE requests' = At(r, "refused") /\ UNCHANGED signed
       ELSE requests' = At(r, "refused") /\ UNCHANGED <<spent, signed>>
    /\ UNCHANGED <<created, verdict, page, sent, claimVars, lossy>>

(* Sumsub has answered: GREEN, blindSign in range, spendVoucherSession. *)
SignAndSpend(r) ==
    /\ r \in Stored("fetching")
    /\ \/ /\ verdict[r.call.session] = "GREEN" /\ r.call.c # Malformed
          /\ SpendVoucherSession(r.call.session)
          /\ requests' = At(r, "signature") /\ signed' = signed \cup {r.call}
       \/ /\ \/ verdict[r.call.session] # "GREEN"
             \/ r.call.c = Malformed
             \/ r.call.session \in spent
          /\ requests' = At(r, "refused") /\ UNCHANGED <<spent, signed>>
    /\ UNCHANGED <<created, verdict, page, sent, claimVars, lossy>>

(* The call to Sumsub fails: 500, and nothing is spent. *)
FetchFails(r) ==
    /\ lossy /\ r \in Stored("fetching")
    /\ requests' = At(r, "refused")
    /\ UNCHANGED <<serverVars, verdict, page, sent, claimVars, lossy>>

----------------------------------------------------------------------------
(* ClaimCredential.sol *)

(* Mutant: any signature of the issuer is good for any commitment. *)
VerifyAnySignature(c, s) == s \in VoucherCommitments

(* verify: the signature s is that of the commitment c. *)
VerifySignature(c, s) == s = c

(* claim, with issueCredential of the passport: all or nothing. *)
ClaimOnChain(c, s) ==
    /\ VerifySignature(c, s) /\ s \notin usedNullifier
    /\ delegate /\ c \notin members
    /\ usedNullifier' = usedNullifier \cup {s}
    /\ members' = members \cup {c} /\ claimed' = claimed \cup {c}

(* handleClaim sends the transaction; a reverting one leaves the page as   *)
(* it was, except after NullifierUsed.                                     *)
HandleClaim(b) ==
    /\ CanClaim(b)
    /\ LET c == CommitmentIn[b]
       IN  \/ /\ ClaimOnChain(c, c)
              /\ page' = [page EXCEPT ![b].stage = "claiming"]
           \/ /\ c \in usedNullifier
              /\ page' = [page EXCEPT ![b].stage = "done"]
              /\ UNCHANGED <<usedNullifier, claimed, members>>
    /\ UNCHANGED <<serverVars, verdict, requests, sent, delegate, lossy>>

(* A holder of a signature calls claim by himself, for any commitment. *)
ClaimDirectly(c, call) ==
    /\ call \in signed
    /\ ClaimOnChain(c, call.c)
    /\ UNCHANGED <<serverVars, verdict, page, requests, sent, delegate, lossy>>

ClaimConfirmed(b) ==  \* tx.wait()
    /\ page[b].stage = "claiming"
    /\ page' = [page EXCEPT ![b].stage = "done"]
    /\ UNCHANGED <<serverVars, verdict, requests, sent, claimVars, lossy>>

----------------------------------------------------------------------------
(* The environment. *)

SessionVerdict(s, answer) ==
    /\ verdict[s] \in {"init", "RED"}
    /\ verdict' = [verdict EXCEPT ![s] = answer]
    /\ UNCHANGED <<serverVars, page, requests, sent, claimVars, lossy>>

(* The group's issuer approves the contract as its delegate, or issues and *)
(* revokes credentials of the group himself.                               *)
ApproveClaimDelegate ==
    /\ ~delegate /\ delegate' = TRUE
    /\ UNCHANGED <<serverVars, verdict, page, requests, sent, usedNullifier, claimed, members, lossy>>

IssueMember(c) ==
    /\ lossy /\ c \notin members
    /\ members' = members \cup {c}
    /\ UNCHANGED <<serverVars, verdict, page, requests, sent, usedNullifier, claimed, delegate, lossy>>

RevokeMember(c) ==
    /\ lossy /\ c \in members
    /\ members' = members \ {c}
    /\ UNCHANGED <<serverVars, verdict, page, requests, sent, usedNullifier, claimed, delegate, lossy>>

VoucherNext ==
    \/ \E b \in Browsers, s \in Sessions, answered \in BOOLEAN : ConnectAndVerify(b, s, answered)
    \/ \E b \in Browsers : \/ ObtainVoucher(b) \/ Reload(b) \/ HandleClaim(b) \/ ClaimConfirmed(b)
    \/ \E b \in Browsers, s \in Sessions, c \in VoucherCommitments \cup {Malformed} :
          ForeignRequest(b, s, c)
    \/ \E r \in requests : \/ VoucherReply(r) \/ LoseReply(r) \/ LookUpSession(r)
                           \/ SignAndSpend(r) \/ FetchFails(r)
    \/ \E c \in VoucherCommitments, call \in signed : ClaimDirectly(c, call)
    \/ \E s \in Sessions, answer \in {"GREEN", "RED"} : SessionVerdict(s, answer)
    \/ ApproveClaimDelegate
    \/ \E c \in VoucherCommitments : IssueMember(c) \/ RevokeMember(c)

VoucherSpec == VoucherInit /\ [][VoucherNext]_voucherVars

(* Handlers and the browser's callbacks run; people need not act.  The SDK *)
(* reports the verdict, so the tab asks for its voucher.                   *)
VoucherFairness ==
    /\ \A b \in Browsers : WF_voucherVars(ObtainVoucher(b)) /\ WF_voucherVars(ClaimConfirmed(b))
    /\ WF_voucherVars(\E r \in requests : VoucherReply(r) \/ LookUpSession(r) \/ SignAndSpend(r))

VoucherFairSpec == VoucherSpec /\ VoucherFairness

----------------------------------------------------------------------------
(* Properties *)

(* Of all calls for a session, however they overlap across the question to *)
(* Sumsub, at most one is answered with a signature.                       *)
OneVoucherPerSession == \A x, y \in signed : x.session = y.session => x = y

(* A session is spent exactly if a signature was made for it, and only for *)
(* a GREEN applicant: a malformed value or a failing call burns nothing.   *)
SpentExactly ==
    /\ spent = {x.session : x \in signed}
    /\ \A s \in spent : verdict[s] = "GREEN"

(* Claims rest on vouchers: no more credentials than verified sessions,    *)
(* each for a commitment the issuer signed.                                *)
ClaimsBacked ==
    /\ claimed \subseteq {x.c : x \in signed}
    /\ Cardinality(claimed) <= Cardinality(spent)

(* A tab that offers the claim holds the signature of its own session.     *)
PageBacked ==
    \A b \in Browsers : page[b].stage \in {"claim", "claiming", "done"} =>
        \E x \in signed : x.session = page[b].session /\ x.c = CommitmentIn[b]

(* A tab whose session is approved gets its voucher, also when overlapping *)
(* calls are refused, as long as nothing is lost.                          *)
ApprovedGetsVoucher ==
    \A b \in Browsers :
        (~lossy /\ CanVerify(b) /\ verdict[page[b].session] = "GREEN") ~> ~CanVerify(b)

(* What holds between sessions, signatures and tabs at any moment.         *)
VoucherInv == VoucherTypeOK /\ OneVoucherPerSession /\ SpentExactly /\ PageBacked
=============================================================================
