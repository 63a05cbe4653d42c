------------------------------ MODULE KYCPage ------------------------------
(***************************************************************************)
(* The verification page of the frontend (app/kyc/page.tsx) with the       *)
(* session of lib/kyc-local.ts, the identities of lib/semaphore.ts, the    *)
(* calls of lib/api.ts it makes and the Sumsub widget.  A user with        *)
(* several wallets changes the account, reloads the page and clicks while  *)
(* answers are under way; every answer is an action of its own.            *)
(*                                                                         *)
(* Whatever the page holds is given by the identity it belongs to: the     *)
(* one whose document, face, token or request it is.                       *)
(***************************************************************************)
EXTENDS IdentityStore, FiniteSets

CONSTANTS SumsubConfigured, \* the server's configuration: a set of BOOLEAN
          MaxMoves \* bound: what the user does with and without Sumsub, account changes
                   \* and reloads included

ASSUME KYCPageAssumption ==
    /\ SumsubConfigured \subseteq BOOLEAN
    /\ MaxMoves \in [BOOLEAN -> Nat]

VARIABLES account,  \* the account selected in the wallet, NoWallet when not connected
          ui,       \* the React state of the page
          job,      \* what is under way: refs and calls not answered yet
          session,  \* SESSION_KEY of localStorage
          request,  \* request[c]: the newest row the server has for a commitment
          sumsub,   \* the server has Sumsub configured
          seen,     \* history: an answer for another identity came or an identity was
                    \* created over the work of another (late), another account
                    \* was used in a prompt
          moves     \* what the user did so far

kycPageVars == <<account, ui, job, session, request, sumsub, seen, moves>>

Ids == {IdentityOf[w] : w \in Wallets}
Owner == Ids \cup {NoIdentity}
Nothing == NoIdentity

BlankPage == [wallet |-> NoWallet, identity |-> Nothing, stage |-> "identity", available |-> FALSE,
              token |-> Nothing, document |-> Nothing, face |-> Nothing, match |-> Nothing,
              live |-> FALSE, status |-> [of |-> Nothing, is |-> "none"], reading |-> FALSE]
NoCreate == [pc |-> "idle", wallet |-> NoWallet, knew |-> NoWallet, available |-> FALSE, identity |-> Nothing]
NoSubmit == [pc |-> "idle", identity |-> Nothing, wallet |-> NoWallet, via |-> "sumsub"]
NoJobs == [config |-> TRUE, accounts |-> TRUE, ref |-> Nothing, inits |-> {}, renewals |-> {},
           checks |-> {}, create |-> NoCreate, uploads |-> {}, capture |-> Nothing, loops |-> 0,
           stop |-> FALSE, submit |-> NoSubmit]
NoSession == [stage |-> "none", document |-> Nothing, face |-> Nothing, match |-> Nothing, live |-> FALSE,
              expired |-> FALSE]
NoRequest == [status |-> "none", type |-> "none", fresh |-> NoWallet]

Stages == {"identity", "method", "document", "selfie", "liveness", "review", "submitted", "sumsub"}
Inits == [for : Ids, fresh : Wallets \cup {NoWallet}, aborted : BOOLEAN, attempt : {1, 2}]

KYCPageTypeOK ==
    /\ account \in Wallets \cup {NoWallet}
    /\ ui.wallet \in Wallets \cup {NoWallet} /\ ui.stage \in Stages
    /\ {ui.identity, ui.token, ui.document, ui.face, ui.match, ui.status.of} \subseteq Owner
    /\ job.inits \subseteq Inits /\ job.ref \in Owner /\ job.loops \in 0..2
    /\ session.stage \in Stages \cup {"none"}
    /\ \A c \in Ids : request[c].status \in {"none", "pending", "decided"}

KYCPageInit ==
    /\ account \in Wallets \cup {NoWallet}
    /\ StoreInit
    /\ ui = BlankPage /\ job = NoJobs /\ session = NoSession
    /\ request = [c \in Ids |-> NoRequest]
    /\ sumsub \in SumsubConfigured
    /\ seen = [late |-> FALSE, prompt |-> FALSE] /\ moves = 0

-----------------------------------------------------------------------------
(* State of the page.                                                      *)

Snapshot(u) == [stage |-> u.stage, document |-> u.document, face |-> u.face, match |-> u.match,
                live |-> u.live, expired |-> FALSE]
Key(u) == <<u.identity, Snapshot(u)>>

Move == moves < MaxMoves[sumsub] /\ moves' = moves + 1
Late(c) == [seen EXCEPT !.late = @ \/ ui.identity # c]
Over(c) == [seen EXCEPT !.late = \/ @
                                 \/ ~({ui.identity, session.document, session.face, session.match}
                                           \subseteq {Nothing, c})]

(* A render with the effect that saves the session: `stored' is what the   *)
(* handler left in localStorage.                                           *)
Render(u, stored) ==
    /\ ui' = u
    /\ session' = IF Key(u) # Key(ui) /\ u.identity # Nothing /\ u.stage \notin {"identity", "submitted"}
                  THEN Snapshot(u) ELSE stored

Progress(s) == s.document # Nothing \/ s.live \/ s.match # Nothing

\* Mutant: keeps the token of the wallet that was left.
ResetButToken(u) ==
    [u EXCEPT !.document = Nothing, !.face = Nothing, !.match = Nothing, !.live = FALSE,
              !.status = [of |-> Nothing, is |-> "none"]]

ResetPerWalletState(u) == [ResetButToken(u) EXCEPT !.token = Nothing]

Widget == ui.stage = "sumsub" /\ ui.identity # Nothing /\ ui.token # Nothing

(* startSumsubFlowFor: nothing for the identity an init is under way for,  *)
(* otherwise the other one is aborted.                                     *)
StartSumsubFlowFor(j, c, w) ==
    IF j.ref = c THEN j
    ELSE [j EXCEPT !.ref = c,
                   !.inits = {[i EXCEPT !.aborted = TRUE] : i \in @} \cup
                             {[for |-> c, fresh |-> w, aborted |-> FALSE, attempt |-> 1]}]

(* loadSession, read after resetPerWalletState may have removed it.        *)
KeptSession(u) ==
    IF u.identity # StoredFor(u.wallet) \/ session.expired THEN NoSession ELSE session

(* Whose freshness identity startSumsubFlowFor sends.                      *)
WalletOfRender(u) == u.wallet

(* The effect on [currentWallet, sumsubAvailable].                         *)
WalletEffect(u, j) ==
    LET stored == StoredFor(u.wallet)
        other == u.identity # stored
        kept == KeptSession(u)
        clean == IF other THEN ResetPerWalletState(u) ELSE u
        shown == [clean EXCEPT !.identity = stored]
    IN IF u.wallet = NoWallet THEN Render(u, session) /\ job' = j /\ UNCHANGED storeVars
       ELSE /\ LoadIdentityForWallet(u.wallet)
            /\ IF stored = Nothing
               THEN /\ Render([clean EXCEPT !.identity = Nothing, !.stage = "identity"],
                              IF other THEN NoSession ELSE session)
                    /\ job' = j
               ELSE LET asked == [j EXCEPT !.checks = @ \cup {stored}] IN
                    IF Progress(kept)
                    THEN /\ Render([shown EXCEPT
                              !.document = IF kept.document # Nothing THEN kept.document ELSE @,
                              !.face = IF kept.face # Nothing THEN kept.face ELSE @,
                              !.match = IF kept.match # Nothing THEN kept.match ELSE @,
                              !.live = kept.live \/ @, !.stage = kept.stage], kept)
                         /\ job' = asked
                    ELSE IF u.available
                    THEN Render(shown, kept) /\ job' = StartSumsubFlowFor(asked, stored, WalletOfRender(u))
                    ELSE Render([shown EXCEPT !.stage = "document"], kept) /\ job' = asked

(* eth_accounts answers, or accountsChanged fires.                         *)
AccountKnown ==
    /\ job.accounts
    /\ WalletEffect([ui EXCEPT !.wallet = account], [job EXCEPT !.accounts = FALSE])
    /\ UNCHANGED <<account, request, sumsub, seen, moves>>

SwitchAccount ==
    /\ Move /\ ~job.accounts
    /\ \E w \in (Wallets \cup {NoWallet}) \ {account} :
         /\ account' = w
         /\ WalletEffect([ui EXCEPT !.wallet = w], job)
         /\ seen' = [seen EXCEPT !.prompt = @ \/ job.create.pc # "idle" \/ job.submit.pc # "idle"]
    /\ UNCHANGED <<request, sumsub>>

ConfigKnown ==
    /\ job.config
    /\ LET j == [job EXCEPT !.config = FALSE] IN
       IF sumsub THEN WalletEffect([ui EXCEPT !.available = TRUE], j)
       ELSE job' = j /\ UNCHANGED <<ui, session, storeVars>>
    /\ UNCHANGED <<account, request, sumsub, seen, moves>>

(* The tab is closed or reloaded, also by "Cancel & Start Over" of a       *)
(* submitted request: what is under way is lost.                           *)
Reload ==
    /\ Move
    /\ ui' = BlankPage /\ job' = NoJobs
    /\ session' \in {session} \cup (IF ui.stage = "submitted" THEN {NoSession} ELSE {})
    /\ UNCHANGED <<account, storeVars, request, sumsub, seen>>

SessionExpires ==
    /\ session # NoSession /\ ~session.expired
    /\ session' = [session EXCEPT !.expired = TRUE]
    /\ UNCHANGED <<account, ui, job, storeVars, request, sumsub, seen, moves>>

-----------------------------------------------------------------------------
(* Identity.                                                               *)

ClickCreate ==
    /\ Move /\ ui.stage = "identity" /\ job.create.pc = "idle"
    /\ job' = [job EXCEPT !.create = [NoCreate EXCEPT !.pc = "connect", !.knew = ui.wallet,
                                                     !.available = ui.available]]
    /\ UNCHANGED <<account, ui, storeVars, session, request, sumsub, seen>>

(* connectWallet: the user picks an account if none is connected.  The     *)
(* effect runs before a signature is asked for; an identity that is there  *)
(* is set in the same batch unless accountsChanged fired first.            *)
CreateConnected ==
    /\ job.create.pc = "connect"
    /\ \E w \in IF account = NoWallet THEN Wallets ELSE {account} :
         /\ account' = w
         /\ LET j == [job EXCEPT !.create = [@ EXCEPT !.pc = "sign", !.wallet = w]] IN
            IF ui.wallet = w
            THEN LoadIdentityForWallet(w) /\ Render(ui, session) /\ job' = j /\ seen' = seen
            ELSE \E id \in {ui.identity} \cup ({StoredFor(w)} \ {Nothing}) :
                   /\ WalletEffect([ui EXCEPT !.wallet = w, !.identity = id], j)
                   /\ seen' = IF id = ui.identity THEN seen ELSE Over(id)
    /\ UNCHANGED <<request, sumsub, moves>>

(* The stored identity, or the one the signature of the account selected   *)
(* by then derives.                                                        *)
CreateIdentityHere ==
    /\ job.create.pc = "sign" /\ account # NoWallet
    /\ LET w == job.create.wallet
           id == IF StoredFor(w) # Nothing THEN StoredFor(w) ELSE IdentityOf[account]
       IN /\ identities' = [Migrated EXCEPT ![w] = id]
          /\ activeWallet' = w /\ legacy' = NoLegacy
          /\ Render([ui EXCEPT !.identity = id], session)
          /\ job' = [job EXCEPT !.create = [@ EXCEPT !.pc = "check", !.identity = id]]
          /\ seen' = Over(id)
    /\ UNCHANGED <<account, request, sumsub, moves>>

CreateDeclined ==
    /\ job.create.pc \in {"connect", "sign"}
    /\ job' = [job EXCEPT !.create = NoCreate]
    /\ UNCHANGED <<account, ui, storeVars, session, request, sumsub, seen, moves>>

ShowStatus(u, c) ==
    IF request[c].status = "none" THEN u
    ELSE [u EXCEPT !.status = [of |-> c, is |-> request[c].status],
                   !.stage = IF request[c].status = "pending" THEN "submitted" ELSE @]

(* The rest of the handler after its checkStatus: the freshness identity   *)
(* is that of the wallet the page knew when it was clicked.                *)
CreateChecked ==
    /\ job.create.pc = "check"
    /\ LET c == job.create.identity
           j == [job EXCEPT !.create = NoCreate]
       IN \E u \in {ui, ShowStatus(ui, c)} :
            /\ IF job.create.available
               THEN Render(u, session) /\ job' = StartSumsubFlowFor(j, c, job.create.knew)
               ELSE Render([u EXCEPT !.stage = "document"], session) /\ job' = j
            /\ seen' = IF u = ui THEN seen ELSE Late(c)
    /\ UNCHANGED <<account, storeVars, request, sumsub, moves>>

-----------------------------------------------------------------------------
(* Sumsub.                                                                 *)

(* The placeholder row of /api/kyc/sumsub/init.                            *)
Placed(i) ==
    IF i.fresh = NoWallet THEN request
    ELSE IF request[i.for].status = "none"
    THEN [request EXCEPT ![i.for] = [status |-> "pending", type |-> "KYCVerified", fresh |-> i.fresh]]
    ELSE [request EXCEPT ![i.for].fresh = i.fresh]

Released(i) == [job EXCEPT !.inits = @ \ {i}, !.ref = IF i.aborted THEN @ ELSE Nothing]

(* The answer to an aborted call is not shown.                             *)
InitAnswered(i) ==
    /\ request' = Placed(i)
    /\ job' = Released(i)
    /\ IF i.aborted THEN UNCHANGED <<ui, session, seen>>
       ELSE Render([ui EXCEPT !.token = i.for, !.stage = "sumsub"], session) /\ seen' = Late(i.for)
    /\ UNCHANGED <<account, storeVars, sumsub, moves>>

(* An error answer, with or without the row written.                       *)
InitFails(i) ==
    /\ request' \in {request, Placed(i)}
    /\ job' = Released(i)
    /\ UNCHANGED <<account, ui, storeVars, session, sumsub, seen, moves>>

(* apiSumsubInit asks once more after a failure of the network.            *)
InitRetried(i) ==
    /\ i.attempt = 1 /\ ~i.aborted
    /\ job' = [job EXCEPT !.inits = (@ \ {i}) \cup {[i EXCEPT !.attempt = 2]}]
    /\ UNCHANGED <<account, ui, storeVars, session, request, sumsub, seen, moves>>

ChooseSumsub ==
    /\ Move /\ ui.stage = "method" /\ ui.identity # Nothing
    /\ job' = StartSumsubFlowFor(job, ui.identity, ui.wallet)
    /\ UNCHANGED <<account, ui, storeVars, session, request, sumsub, seen>>

(* The widget asks for a new token; nothing aborts that call.              *)
TokenExpires ==
    /\ Widget /\ job.renewals = {}
    /\ job' = [job EXCEPT !.renewals = {ui.identity}]
    /\ UNCHANGED <<account, ui, storeVars, session, request, sumsub, seen, moves>>

TokenRenewed ==
    /\ \E c \in job.renewals :
         /\ Render([ui EXCEPT !.token = c], session)
         /\ job' = [job EXCEPT !.renewals = @ \ {c}]
         /\ seen' = Late(c)
    /\ UNCHANGED <<account, storeVars, request, sumsub, moves>>

(* GREEN from the widget or from "Refresh Status"; RED and YELLOW leave    *)
(* the page as it is.                                                      *)
SumsubComplete ==
    /\ Move /\ Widget /\ job.submit.pc = "idle"
    /\ job' = [job EXCEPT !.submit = [NoSubmit EXCEPT !.pc = "connect", !.identity = ui.identity]]
    /\ UNCHANGED <<account, ui, storeVars, session, request, sumsub, seen>>

SwitchMethod ==
    /\ Move /\ ui.available /\ ui.stage \notin {"identity", "submitted", "method"}
    /\ Render([ui EXCEPT !.stage = "method"], session)
    /\ UNCHANGED <<account, job, storeVars, request, sumsub, seen>>

StartOver ==
    /\ Move /\ ui.stage \notin {"identity", "submitted"}
    /\ Render([ResetPerWalletState(ui) EXCEPT !.status = ui.status,
                   !.stage = IF ui.available THEN "method" ELSE "document"], NoSession)
    /\ UNCHANGED <<account, job, storeVars, request, sumsub, seen>>

-----------------------------------------------------------------------------
(* The flow in the browser: document, selfie, liveness.                    *)

StartLocalFlow ==
    /\ Move /\ ui.stage = "method" /\ ui.identity # Nothing
    /\ Render([ui EXCEPT !.stage = "document"], session)
    /\ UNCHANGED <<account, job, storeVars, request, sumsub, seen>>

(* The file input stays enabled while a document is being read.            *)
Upload ==
    /\ Move /\ ui.stage = "document" /\ ui.identity # Nothing
    /\ Render([ui EXCEPT !.document = Nothing, !.face = Nothing, !.reading = TRUE], session)
    /\ job' = [job EXCEPT !.uploads = @ \cup {ui.identity}]
    /\ UNCHANGED <<account, storeVars, request, sumsub, seen>>

(* The text is there, the face is still looked for.                        *)
TextRead ==
    /\ \E c \in job.uploads :
         /\ ui.reading /\ ui.document # c
         /\ Render([ui EXCEPT !.document = c], session)
         /\ seen' = Late(c)
    /\ UNCHANGED <<account, job, storeVars, request, sumsub, moves>>

(* A face or none, or an error at any point.                               *)
FaceRead ==
    /\ \E c \in job.uploads, found \in BOOLEAN :
         /\ (found => ui.document = c)
         /\ Render([ui EXCEPT !.face = IF found THEN c ELSE @, !.reading = FALSE], session)
         /\ job' = [job EXCEPT !.uploads = @ \ {c}]
         /\ seen' = Late(c)
    /\ UNCHANGED <<account, storeVars, request, sumsub, moves>>

ProceedToSelfie ==
    /\ Move /\ ui.stage = "document" /\ ui.identity # Nothing
    /\ ui.face # Nothing /\ ~ui.reading /\ ui.document # Nothing
    /\ Render([ui EXCEPT !.stage = "selfie"], session)
    /\ UNCHANGED <<account, job, storeVars, request, sumsub, seen>>

Capture ==
    /\ Move /\ ui.stage = "selfie" /\ ui.face # Nothing /\ job.capture = Nothing
    /\ job' = [job EXCEPT !.capture = ui.face]
    /\ UNCHANGED <<account, ui, storeVars, session, request, sumsub, seen>>

(* Matched against the face of the render the click happened in; a match   *)
(* starts the blink detection.                                             *)
Captured ==
    /\ job.capture # Nothing
    /\ \/ /\ Render([ui EXCEPT !.match = job.capture, !.stage = "liveness", !.live = FALSE], session)
          /\ job' = [job EXCEPT !.capture = Nothing, !.loops = IF @ = 2 THEN 2 ELSE @ + 1, !.stop = FALSE]
          /\ seen' = Late(job.capture)
       \/ /\ job' = [job EXCEPT !.capture = Nothing]
          /\ UNCHANGED <<ui, session, seen>>
    /\ UNCHANGED <<account, storeVars, request, sumsub, moves>>

(* A loop that was stopped and one that is started share the flag.         *)
StopScanning ==
    /\ Move /\ ui.stage = "liveness" /\ job.loops > 0 /\ ~job.stop
    /\ job' = [job EXCEPT !.stop = TRUE]
    /\ UNCHANGED <<account, ui, storeVars, session, request, sumsub, seen>>

StartLivenessCheck ==
    /\ Move /\ ui.stage = "liveness" /\ ~ui.live /\ (job.loops = 0 \/ job.stop) /\ job.loops < 2
    /\ job' = [job EXCEPT !.loops = @ + 1, !.stop = FALSE]
    /\ UNCHANGED <<account, ui, storeVars, session, request, sumsub, seen>>

ToReview(u) == [u EXCEPT !.live = TRUE, !.stage = "review"]

(* A frame is answered: a blink, or a face for fifteen seconds.  The       *)
(* stage is not looked at again.                                           *)
BlinkSeen ==
    /\ job.loops > 0
    /\ Render(ToReview(ui), session)
    /\ job' = [job EXCEPT !.loops = @ - 1, !.stop = TRUE]
    /\ seen' = Late(ui.match)
    /\ UNCHANGED <<account, storeVars, request, sumsub, moves>>

(* Stopped, timed out, or without a video.                                 *)
LoopEnds ==
    /\ job.loops > 0
    /\ job' = [job EXCEPT !.loops = @ - 1]
    /\ UNCHANGED <<account, ui, storeVars, session, request, sumsub, seen, moves>>

SkipLiveness ==
    /\ Move /\ ui.stage = "liveness"
    /\ Render(ToReview(ui), session)
    /\ job' = [job EXCEPT !.stop = TRUE]
    /\ UNCHANGED <<account, storeVars, request, sumsub, seen>>

-----------------------------------------------------------------------------
(* Submission.                                                             *)

HandleSubmit ==
    /\ Move /\ ui.stage = "review" /\ ui.document # Nothing /\ ui.identity # Nothing /\ job.submit.pc = "idle"
    /\ job' = [job EXCEPT !.submit = [pc |-> "connect", identity |-> ui.identity, wallet |-> NoWallet, via |-> "local"]]
    /\ UNCHANGED <<account, ui, storeVars, session, request, sumsub, seen>>

(* connectWallet again: the account selected by then is sent, and an       *)
(* account the user picks here is announced by accountsChanged.            *)
SubmitConnected ==
    /\ job.submit.pc = "connect"
    /\ \E w \in IF account = NoWallet THEN Wallets ELSE {account} :
         /\ account' = w
         /\ job' = [job EXCEPT !.submit = [@ EXCEPT !.pc = "post", !.wallet = w],
                               !.accounts = @ \/ account = NoWallet]
         /\ seen' = [seen EXCEPT !.prompt = @ \/ IdentityOf[w] # job.submit.identity]
    /\ UNCHANGED <<ui, storeVars, session, request, sumsub, moves>>

(* /api/kyc/submit: a pending row is kept, with the freshness commitment.  *)
Submitted(c, w) ==
    IF request[c].status = "pending" THEN [request EXCEPT ![c].fresh = w]
    ELSE [request EXCEPT ![c] = [status |-> "pending", type |-> "Accredited", fresh |-> w]]

SubmitAnswered ==
    /\ job.submit.pc = "post"
    /\ LET c == job.submit.identity IN
       /\ request' = Submitted(c, job.submit.wallet)
       /\ IF job.submit.via = "local"
          THEN /\ Render([ui EXCEPT !.stage = "submitted", !.status = [of |-> c, is |-> "pending"]], NoSession)
               /\ job' = [job EXCEPT !.submit = NoSubmit]
          ELSE /\ Render([ui EXCEPT !.stage = "submitted"], session)
               /\ job' = [job EXCEPT !.submit = NoSubmit, !.checks = @ \cup {c}]
       /\ seen' = Late(c)
    /\ UNCHANGED <<account, storeVars, sumsub, moves>>

SubmitFails ==
    /\ job.submit.pc # "idle"
    /\ job' = [job EXCEPT !.submit = NoSubmit]
    /\ UNCHANGED <<account, ui, storeVars, session, request, sumsub, seen, moves>>

(* SubmittedView asks every five seconds and on "Refresh Now".             *)
Poll ==
    /\ Move /\ ui.stage = "submitted" /\ ui.status.is = "pending" /\ ui.identity # Nothing
    /\ job' = [job EXCEPT !.checks = @ \cup {ui.identity}]
    /\ UNCHANGED <<account, ui, storeVars, session, request, sumsub, seen>>

StatusAnswered ==
    /\ \E c \in job.checks, answered \in BOOLEAN :
         /\ job' = [job EXCEPT !.checks = @ \ {c}]
         /\ IF answered /\ request[c].status # "none"
            THEN Render(ShowStatus(ui, c), session) /\ seen' = Late(c)
            ELSE UNCHANGED <<ui, session, seen>>
    /\ UNCHANGED <<account, storeVars, request, sumsub, moves>>

ServerDecides ==
    /\ \E c \in Ids : /\ request[c].status = "pending"
                      /\ request' = [request EXCEPT ![c].status = "decided"]
    /\ UNCHANGED <<account, ui, job, storeVars, session, sumsub, seen, moves>>

KYCPageAnswer(i) == InitAnswered(i) \/ InitFails(i)

KYCPageNext ==
    \/ AccountKnown \/ SwitchAccount \/ ConfigKnown \/ Reload \/ SessionExpires
    \/ ClickCreate \/ CreateConnected \/ CreateIdentityHere \/ CreateDeclined \/ CreateChecked
    \/ \E i \in job.inits : KYCPageAnswer(i) \/ InitRetried(i)
    \/ ChooseSumsub \/ TokenExpires \/ TokenRenewed \/ SumsubComplete \/ SwitchMethod \/ StartOver
    \/ StartLocalFlow \/ Upload \/ TextRead \/ FaceRead \/ ProceedToSelfie \/ Capture \/ Captured
    \/ StopScanning \/ StartLivenessCheck \/ BlinkSeen \/ LoopEnds \/ SkipLiveness
    \/ HandleSubmit \/ SubmitConnected \/ SubmitAnswered \/ SubmitFails \/ Poll \/ StatusAnswered
    \/ ServerDecides

KYCPageSpec == KYCPageInit /\ [][KYCPageNext]_<<kycPageVars, storeVars>>

-----------------------------------------------------------------------------
(* When no answer comes after the wallet was changed and the account is    *)
(* not changed during a prompt, all the page shows belongs to the identity *)
(* it shows: document, face, match, token and request.                     *)
PageIsOwn ==
    (~seen.late /\ ~seen.prompt) =>
        {ui.document, ui.face, ui.match, ui.token, ui.status.of} \subseteq {Nothing, ui.identity}

(* A restored session is that of the identity which made it, on the same   *)
(* condition.                                                              *)
SessionIsOwn ==
    (~seen.late /\ ~seen.prompt /\ session # NoSession /\ ui.identity # Nothing) =>
        {session.document, session.face, session.match} \subseteq {Nothing, ui.identity}

(* What the server holds for an identity carries the freshness identity of *)
(* its wallet, unless the account was changed during a prompt.             *)
FreshnessPaired ==
    ~seen.prompt =>
        \A c \in Ids : request[c].fresh # NoWallet => IdentityOf[request[c].fresh] = c

(* At most one init is not aborted, and the page knows for whom it is.     *)
OneLiveInit ==
    LET alive == {i \in job.inits : ~i.aborted}
    IN Cardinality(alive) <= 1 /\ {i.for : i \in alive} \subseteq {job.ref}

(* Whose data the page, the saved session and the server hold.             *)
KYCPageInv == KYCPageTypeOK /\ PageIsOwn /\ SessionIsOwn /\ FreshnessPaired /\ OneLiveInit
=============================================================================
