--------------------------- MODULE IssuerProgram ---------------------------
(***************************************************************************)
(* The onboarding page of the frontend (app/issuer-program/page.tsx), with *)
(* connectWallet of lib/wallet.ts: an applicant fills a form, copies the   *)
(* metadata it generates, and stakes from a wallet whose account may       *)
(* change at any time.      The metadata is what the backend's directory   *)
(* later validates (validateMetadata of issuers.ts).                       *)
(*                                                                         *)
(* A text is one of the classes the code tells apart: for the notes,       *)
(* "padded" is long enough only with its surrounding blanks.  A text of an *)
(* amount stands for its exact value, the one parseEther gives; the checks *)
(* and the labels use what Number() makes of it, the nearest double.       *)
(***************************************************************************)
EXTENDS IssuerRegistry

CONSTANTS Applicants,   \* accounts of the wallet
          NoAccount,
          Funds,        \* Funds[a]: what an account has, above its gas reserve
          NumberOf,     \* NumberOf[v]: the double nearest to an amount
          BadAmount,    \* a text that is not a plain decimal
          TooLarge      \* an amount above the page's limit

ASSUME ProgramAssumption ==
    /\ Applicants \subseteq Issuers /\ NoAccount \notin Applicants
    /\ Funds \in [Applicants -> Nat]
    /\ TooLarge \in Nat \ {0} /\ BadAmount \notin Nat

\* The thresholds are doubles themselves, so that no amount rounds across one downwards.
ASSUME RoundingAssumption ==
    /\ NumberOf \in [Amounts -> Nat]
    /\ DeployedReqs.provider <= DeployedReqs.institutional
    /\ \A v \in Amounts, p \in {DeployedReqs.provider, DeployedReqs.institutional} :
           v >= p => NumberOf[v] >= p

VARIABLES wallet,     \* the account selected in the wallet
          form,       \* the fields of the form the staking depends on
          shown,      \* React state beside the form
          stakeCall,  \* the handleStake under way, with the form it closed over
          lastStake   \* history: the stake sent last, with what had been confirmed

programVars == <<wallet, form, shown, stakeCall, lastStake>>

Methods == {"provider", "in-house"}
NotesTexts == {"", "short", "padded", "long"}
AmountTexts == Amounts \cup {BadAmount, TooLarge}
Form == [amount : AmountTexts, method : Methods, notes : {"", "padded", "long"}, uri : URIs \cup {NoURI}]
NoStake == [signer |-> NoAccount, account |-> NoAccount, amount |-> 0, confirmed |-> 0,
            reqs |-> DeployedReqs, new |-> FALSE, tier |-> "None", got |-> "None"]
NoCall == [pc |-> "idle", amount |-> 0, uri |-> NoURI, account |-> NoAccount, signer |-> NoAccount]

ProgramTypeOK ==
    /\ wallet \in Applicants
    /\ form \in Form
    /\ shown \in [step : {"build", "host", "stake"}, address : Applicants \cup {NoAccount}]
    /\ stakeCall.pc \in {"idle", "connecting", "balance", "sending"}
    /\ stakeCall.amount \in Nat \ {TooLarge}
    /\ lastStake.amount \in Nat /\ {lastStake.tier, lastStake.got} \subseteq Tiers

ProgramInit ==
    /\ wallet \in Applicants
    /\ form = [amount |-> BadAmount, method |-> "provider", notes |-> "", uri |-> NoURI]
    /\ shown = [step |-> "build", address |-> NoAccount]
    /\ stakeCall = NoCall
    /\ lastStake = NoStake

-----------------------------------------------------------------------------
(* The metadata: what the page generates from a form, and what the backend *)
(* accepts.  A form is given here with all its fields.                     *)

Texts == {"", "blank", "ok"}
FullForm == [name : Texts, email : Texts, method : Methods, notes : NotesTexts,
             codes : SUBSET {"HK", "hk", "Hong Kong"}]

\* The page upper-cases the codes; the notes go out only where they are asked for.
BuildMetadataJSON(f) ==
    [name |-> f.name, email |-> f.email, method |-> f.method,
     notes |-> IF f.method = "in-house" THEN f.notes ELSE "",
     codes |-> IF f.codes \cap {"HK", "hk"} # {} THEN {"HK"} ELSE {}]

\* clampString trims before the length is looked at.
ValidateMetadata(m) ==
    /\ m.name = "ok"
    /\ m.email = "ok"
    /\ m.method = "in-house" => m.notes = "long"
    /\ m.codes # {}

NotesGiven(method, notes) == method = "in-house" => notes = "long"

-----------------------------------------------------------------------------
(* The page.                                                               *)

\* The inputs stay enabled while a stake is being sent.
Update ==
    /\ \/ \E v \in AmountTexts : form' = [form EXCEPT !.amount = v]
       \/ \E m \in Methods, n \in {"", "padded", "long"} : form' = [form EXCEPT !.method = m, !.notes = n]
       \/ \E u \in URIs : form' = [form EXCEPT !.uri = u]
    /\ UNCHANGED <<wallet, shown, stakeCall, lastStake, registryVars>>

\* The tabs of Steps lead anywhere; only the button of "host" asks for a URI.
SetStep ==
    /\ \E s \in {"build", "host", "stake"} : shown' = [shown EXCEPT !.step = s]
    /\ UNCHANGED <<wallet, form, stakeCall, lastStake, registryVars>>

\* connectWallet("mainnet") asks for the accounts, has the wallet switch to the
\* chain (or add it) and reads the chain again: it gives the account selected
\* at the end, or throws.
ConnectWallet == wallet

HandleConnect ==
    /\ shown.step = "stake" /\ shown.address = NoAccount
    /\ shown' = [shown EXCEPT !.address = ConnectWallet]
    /\ UNCHANGED <<wallet, form, stakeCall, lastStake, registryVars>>

\* Mutant: exclusive at the thresholds.
TierLabelAbove(v) ==
    IF v > DeployedReqs.institutional THEN "Institutional"
    ELSE IF v > DeployedReqs.provider THEN "KYCProvider" ELSE "Community"

\* tierForStake of the page, of a double: the thresholds of the deployment, as literals.
TierLabel(v) ==
    IF v >= DeployedReqs.institutional THEN "Institutional"
    ELSE IF v >= DeployedReqs.provider THEN "KYCProvider" ELSE "Community"

\* The button and the checks of handleStake, up to its two dialogs, which show the
\* double and which the applicant answers for the amount the click saw.
HandleStake ==
    /\ shown.step = "stake" /\ stakeCall.pc = "idle"
    /\ shown.address # NoAccount
    /\ form.uri # NoURI
    /\ form.amount \in Nat /\ form.amount # TooLarge
    /\ NotesGiven(form.method, form.notes)
    /\ stakeCall' = [pc |-> "connecting", amount |-> form.amount, uri |-> form.uri,
                     account |-> shown.address, signer |-> NoAccount]
    /\ UNCHANGED <<wallet, form, shown, lastStake, registryVars>>

\* Asks the wallet again; a declined switch or another account ends the call.
Reconnected ==
    /\ stakeCall.pc = "connecting"
    /\ \/ /\ ConnectWallet = stakeCall.account
          /\ stakeCall' = [stakeCall EXCEPT !.pc = "balance", !.signer = ConnectWallet]
       \/ stakeCall' = NoCall
    /\ UNCHANGED <<wallet, form, shown, lastStake, registryVars>>

\* The balance of the signer covers the exact amount and a reserve for gas.
BalanceRead ==
    /\ stakeCall.pc = "balance"
    /\ stakeCall' = IF stakeCall.amount <= Funds[stakeCall.signer] - ledger[stakeCall.signer].paid
                    THEN [stakeCall EXCEPT !.pc = "sending"] ELSE NoCall
    /\ UNCHANGED <<wallet, form, shown, lastStake, registryVars>>

SentWith(v, uri) ==
    /\ stakeCall.pc = "sending"
    /\ StakeAndRegister(stakeCall.signer, v, uri)
    /\ lastStake' =
         [signer |-> stakeCall.signer, account |-> stakeCall.account, amount |-> v,
           confirmed |-> NumberOf[stakeCall.amount], reqs |-> stakeReqs,
           new |-> stakeCall.signer \notin registered,
           tier |-> TierLabel(NumberOf[stakeCall.amount]),
           got |-> issuers'[stakeCall.signer].tier]
    /\ stakeCall' = NoCall
    /\ UNCHANGED <<wallet, form, shown>>

\* The values are those of the render the click happened in.
Send == SentWith(stakeCall.amount, stakeCall.uri)

\* Declined in the wallet, or reverted.
SendFails ==
    /\ stakeCall.pc = "sending"
    /\ stakeCall' = NoCall
    /\ UNCHANGED <<wallet, form, shown, lastStake, registryVars>>

\* The user works with the wallet; the page does not listen.
WalletChanges ==
    /\ \E a \in Applicants \ {wallet} : wallet' = a
    /\ UNCHANGED <<form, shown, stakeCall, lastStake, registryVars>>

ProgramNext ==
    \/ Update
    \/ SetStep
    \/ HandleConnect
    \/ HandleStake
    \/ Reconnected
    \/ BalanceRead
    \/ Send
    \/ SendFails
    \/ WalletChanges

\* The registry moves meanwhile, its requirements too.
ProgramSpec ==
    /\ RegistryInit /\ ProgramInit
    /\ [][ProgramNext \/ (RegistryNext /\ UNCHANGED programVars)]_<<registryVars, programVars>>

-----------------------------------------------------------------------------
(* What is staked comes from the account the page showed at the click, and *)
(* is the amount whose double the applicant confirmed then, however the    *)
(* form and the wallet changed while the wallet was asked.                 *)
StakedAsConfirmed ==
    /\ lastStake.signer = lastStake.account
    /\ lastStake.signer # NoAccount => lastStake.confirmed = NumberOf[lastStake.amount]

\* Less is staked than the threshold the double reaches.
RoundedAcross ==
    \E p \in {DeployedReqs.provider, DeployedReqs.institutional} :
        lastStake.amount < p /\ p <= lastStake.confirmed

(* While the requirements are those of the deployment, the page names the  *)
(* tier the contract gives a new issuer, also exactly at a threshold, with *)
(* one exception: the amounts that only their double lifts to a threshold, *)
(* for which it promises a tier the contract never gives.                  *)
TierAsShown ==
    lastStake.new /\ lastStake.reqs = DeployedReqs
        => (lastStake.tier = lastStake.got <=> ~RoundedAcross)

(* A form whose name, email and a country code are there and that passes   *)
(* the page's check of the notes generates metadata the directory accepts. *)
GeneratedAccepted ==
    \A f \in FullForm :
        (f.name = "ok" /\ f.email = "ok" /\ BuildMetadataJSON(f).codes # {}
         /\ NotesGiven(f.method, f.notes))
        => ValidateMetadata(BuildMetadataJSON(f))

(* What an applicant sees is what the contract does.                       *)
ProgramInv == ProgramTypeOK /\ StakedAsConfirmed /\ TierAsShown /\ GeneratedAccepted
=============================================================================
