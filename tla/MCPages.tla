------------------------------- MODULE MCPages -------------------------------
(***************************************************************************)
(* Small instances of what a visitor and an issuer see: the verification   *)
(* page with its local checks, the freshness demo, the issuer's dashboard  *)
(* and the health report.  A behaviour is about one of them (`about'), the *)
(* others stay as they start.                                              *)
(***************************************************************************)
EXTENDS KYCPage, KYCDocument, FreshPage, IssuerDashboard, ServiceHealth, TLC

CONSTANTS w1, w2, i1, i2, SumsubMoves, LocalMoves

VARIABLE about

pagesVars == <<kycPageVars, storeVars, docVars, freshVars, dashVars, healthVars, about>>

MCIdentityOf == w1 :> i1 @@ w2 :> i2

\* The wallets, each with its identity, are interchangeable.
WalletSymmetry == {p \in Permutations({w1, w2, i1, i2}) :
                       /\ {p[w1], p[w2]} = {w1, w2}
                       /\ \A w \in {w1, w2} : MCIdentityOf[p[w]] = p[MCIdentityOf[w]]}
MCMaxMoves == [configured \in BOOLEAN |-> IF configured THEN SumsubMoves ELSE LocalMoves]

\* Two lines that could be a name, one that is a label, one with a date and
\* a document number and one with a date, a country and a capitalised word.
Line(text, words, letters, digits, chars, capital, upper, label, dob, id, country) ==
    [text |-> text, words |-> words, letters |-> letters, digits |-> digits, chars |-> chars,
     length |-> chars + words - 1, capital |-> capital, upper |-> upper, label |-> label,
     dob |-> dob, id |-> id, country |-> country]
Nowhere == <<"", "", "">>
MCLines ==
    {Line("NAME OF HOLDER", 3, 12, 0, 12, TRUE, TRUE, TRUE, Nowhere, Nowhere, <<"">>),
     Line("CHAN TAI MAN", 3, 10, 0, 10, TRUE, TRUE, FALSE, Nowhere, Nowhere, <<"">>),
     Line("LEE SIU MING", 3, 10, 0, 10, TRUE, TRUE, FALSE, Nowhere, Nowhere, <<"">>),
     Line("01-02-1990 A1234567", 2, 1, 15, 18, FALSE, FALSE, FALSE,
          <<"01-02-1990", "", "">>, <<"A1234567", "", "A1234567">>, <<"">>),
     Line("PASSPORT HKG 31/12/2030", 3, 11, 8, 21, FALSE, FALSE, TRUE,
          <<"31/12/2030", "", "">>, <<"", "", "PASSPORT">>, <<"HK", "">>)}

MCGrowths == [indexer |-> {0, 2}, reads |-> {2}, limit |-> {0}]
MCReports == [indexer |-> 1, reads |-> 2, limit |-> 0]
MCPasses == [indexer |-> 2, reads |-> 1, limit |-> 0]
MCRestarts == [indexer |-> 1, reads |-> 0, limit |-> 0]

KYCPageAsleep == /\ account = NoWallet /\ identities = [w \in Wallets |-> NoIdentity]
                 /\ activeWallet = NoWallet /\ legacy = NoLegacy
                 /\ ui = BlankPage /\ job = NoJobs /\ session = NoSession
                 /\ request = [c \in Ids |-> NoRequest]
                 /\ sumsub = FALSE /\ seen = [late |-> FALSE, prompt |-> FALSE] /\ moves = 0

DocumentAsleep == DocumentInit /\ doc.part = "text"

FreshAsleep == FreshInit /\ page.window = 2 /\ page.age = 2

DashAsleep == DashInit /\ kyc = [r \in Rows |-> "none"] /\ approver = FALSE

HealthAsleep == HealthInit /\ part = "limit"

PagesInit ==
    /\ about \in {"kyc", "document", "fresh", "dashboard", "health"}
    /\ IF about = "kyc" THEN KYCPageInit ELSE KYCPageAsleep
    /\ IF about = "document" THEN DocumentInit ELSE DocumentAsleep
    /\ IF about = "fresh" THEN FreshInit ELSE FreshAsleep
    /\ IF about = "dashboard" THEN DashInit /\ kyc = [r \in Rows |-> "pending"] ELSE DashAsleep
    /\ IF about = "health" THEN HealthInit ELSE HealthAsleep

PagesNext ==
    \/ about = "kyc" /\ KYCPageNext /\ UNCHANGED <<docVars, freshVars, dashVars, healthVars, about>>
    \/ about = "document" /\ DocumentNext
       /\ UNCHANGED <<kycPageVars, storeVars, freshVars, dashVars, healthVars, about>>
    \/ about = "fresh" /\ FreshNext
       /\ UNCHANGED <<kycPageVars, storeVars, docVars, dashVars, healthVars, about>>
    \/ about = "dashboard" /\ DashNext
       /\ UNCHANGED <<kycPageVars, storeVars, docVars, freshVars, healthVars, about>>
    \/ about = "health" /\ HealthNext
       /\ UNCHANGED <<kycPageVars, storeVars, docVars, freshVars, dashVars, about>>

PagesSpec == PagesInit /\ [][PagesNext]_pagesVars
=============================================================================
