----------------------------- MODULE DemoClients -----------------------------
(***************************************************************************)
(* Two clients of a credential group: the demo page of the frontend        *)
(* (app/demo/page.tsx), which lists the members through the indexer and    *)
(* mints from GatedRWA, and the SDK's example program (gated-claim), which *)
(* rebuilds the group and claims from KYCGatedAirdrop.  Both issue         *)
(* themselves a credential through DemoIssuer when they have none.         *)
(***************************************************************************)
EXTENDS GroupMembers, IdentityStore

CONSTANTS CliIdentity, \* CliIdentity[w]: identity of the wallet in the example program
          GroupScope,  \* the group id, which the page uses as the scope of its proof
          TokenScope,  \* the address of GatedRWA
          MaxRounds    \* bound: rounds of the airdrop

ASSUME DemoClientsAssumption ==
    /\ Traded \subseteq Commitments
    /\ IdentityOf \in [Wallets -> Commitments] /\ CliIdentity \in [Wallets -> Commitments]
    /\ MaxFaults # 0

VARIABLES page,        \* React state of the demo page
          submitted,   \* transactions of the page sent before it was reloaded
          cli,         \* the run of the example program under way
          demoClaimed, \* DemoIssuer: wallets that issued themselves a credential
          minted,      \* GatedRWA: nullifiers used
          currentRound,
          claims,      \* KYCGatedAirdrop: claims, as [round, nullifier, tree, at]
          about        \* bound: which part a behaviour is about

clientVars == <<identities, activeWallet, legacy, page, submitted, cli,
                demoClaimed, minted, currentRound, claims, about>>
demoVars == <<log, head, rows, lastBlock, syncError, indexer, sdk, faults,
              identities, activeWallet, legacy,
              page, submitted, cli, demoClaimed, minted, currentRound, claims, about>>

(* A nullifier is determined by the scope and the identity's secret.        *)
Nullifier(scope, c) == [scope |-> scope, of |-> c]
NoProof == [tree |-> <<>>, of |-> NoIdentity, message |-> NoWallet, scope |-> GroupScope]
FreshPage == [identity |-> NoIdentity, step |-> 0, pc |-> "idle", wallet |-> NoWallet,
              proof |-> NoProof, seen |-> 0, refused |-> "no"]
CliIdle == [pc |-> "idle", wallet |-> NoWallet, round |-> 0]

UnchangedChain == UNCHANGED <<rows, lastBlock, syncError, indexer, sdk, faults, head, log>>
UnchangedStore == UNCHANGED <<identities, activeWallet, legacy>>
UnchangedContracts == UNCHANGED <<demoClaimed, minted, currentRound, claims, about>>

-----------------------------------------------------------------------------
(* DemoIssuer, GatedRWA, KYCGatedAirdrop.                                   *)

SelfIssueReverts(w, c) == demoClaimed[w] \/ c \in ActiveOnChain

SelfIssue(w, c) ==
    /\ ~SelfIssueReverts(w, c)
    /\ demoClaimed' = [demoClaimed EXCEPT ![w] = TRUE]
    /\ MineBlock(<<[kind |-> Issued, commitment |-> c, block |-> head + 1]>>)

KycMintReason(caller, proof) ==
    IF proof.message # caller THEN "ProofNotBoundToCaller"
    ELSE IF proof.scope # TokenScope THEN "WrongScope"
    ELSE IF Nullifier(proof.scope, proof.of) \in minted THEN "NullifierAlreadyUsed"
    ELSE IF ~RootAccepted(proof.tree) THEN "InvalidProof"
    ELSE "no"

StartNewRound ==
    /\ about = "program" /\ currentRound < MaxRounds
    /\ currentRound' = currentRound + 1
    /\ UNCHANGED <<page, submitted, cli, demoClaimed, minted, claims, about>>
    /\ UnchangedChain /\ UnchangedStore

ClaimedInRound(round, c) ==
    \E k \in claims : k.round = round /\ k.nullifier = Nullifier(round, c)

(* Mutant: claim does not compare the scope with the round. *)
AirdropAcceptsAnyScope(proofScope, c, tree) ==
    ~ClaimedInRound(currentRound, c) /\ RootAccepted(tree)

AirdropAccepts(proofScope, c, tree) ==
    /\ proofScope = currentRound
    /\ ~ClaimedInRound(currentRound, c)
    /\ RootAccepted(tree)

-----------------------------------------------------------------------------
(* The demo page: a button per step, disabled while a handler runs.         *)

(* A transaction the wallet has sent outlives the page.                     *)
Mount ==
    /\ about = "page"
    /\ page' = IF Loaded = NoIdentity THEN FreshPage
               ELSE [FreshPage EXCEPT !.identity = Loaded, !.step = 1]
    /\ submitted' = IF page.pc = "issuing"
                    THEN submitted \cup {[wallet |-> page.wallet, of |-> page.identity]}
                    ELSE submitted
    /\ LoadIdentity
    /\ UNCHANGED cli /\ UnchangedContracts /\ UnchangedChain

SubmittedIsMined(tx) ==
    /\ SelfIssue(tx.wallet, tx.of)
    /\ submitted' = submitted \ {tx}
    /\ UNCHANGED <<page, cli, minted, currentRound, claims, about>> /\ UnchangedStore

HandleConnect(w) ==
    /\ about = "page" /\ page.step = 0
    /\ page' = [page EXCEPT !.identity = IdentityOf[w], !.step = 1]
    /\ CreateIdentity(w)
    /\ UNCHANGED <<cli, submitted>> /\ UnchangedContracts /\ UnchangedChain

(* The wallet asked for is the account MetaMask has selected by then.       *)
HandleIssueCredential(w) ==
    /\ page.step = 1 /\ page.pc = "idle"
    /\ page' = IF demoClaimed[w] \/ page.identity \in ActiveOnChain
               THEN [page EXCEPT !.step = 2]
               ELSE [page EXCEPT !.pc = "issuing", !.wallet = w]
    /\ UNCHANGED <<cli, submitted>> /\ UnchangedContracts /\ UnchangedChain /\ UnchangedStore

PageIssues ==
    /\ page.pc = "issuing"
    /\ SelfIssue(page.wallet, page.identity)
    /\ page' = [page EXCEPT !.pc = "idle", !.wallet = NoWallet, !.step = 2]
    /\ UNCHANGED <<cli, submitted, minted, currentRound, claims, about>> /\ UnchangedStore

(* Gas estimation reports the error, and the page knows only               *)
(* CredentialAlreadyIssued; of a revert in a block it learns no reason.     *)
IssueReverts ==
    /\ page.pc = "issuing" /\ SelfIssueReverts(page.wallet, page.identity)
    /\ \E step \in {1, 2} :
           /\ step = 2 => ~demoClaimed[page.wallet]
           /\ page' = [page EXCEPT !.pc = "idle", !.wallet = NoWallet, !.step = step]
    /\ UNCHANGED <<cli, submitted>> /\ UnchangedContracts /\ UnchangedChain /\ UnchangedStore

(* A list from the API comes ordered by the block of issuance.              *)
FromIndexer == SetToSortSeq(ActiveMembers, LAMBDA a, b : rows[a].at < rows[b].at)
ProveOver(members, w) ==
    IF page.identity \notin ToSet(members) THEN [page EXCEPT !.pc = "idle", !.seen = 0]
    ELSE [page EXCEPT !.pc = "proving", !.wallet = w, !.seen = 0,
                      !.proof = [tree |-> members, of |-> page.identity,
                                 message |-> w, scope |-> GroupScope]]

LoadFromIndexer(w) ==
    /\ page.step = 2 /\ page.pc = "idle"
    /\ page' = ProveOver(FromIndexer, w)
    /\ UNCHANGED <<cli, submitted>> /\ UnchangedContracts /\ UnchangedChain /\ UnchangedStore

ReadIssuedEvents ==
    /\ page.step = 2 /\ page.pc = "idle" /\ faults < MaxFaults
    /\ page' = [page EXCEPT !.pc = "fallback", !.seen = head]
    /\ UNCHANGED <<cli, submitted>> /\ UnchangedContracts /\ UnchangedChain /\ UnchangedStore

ReadRevokedEvents(w) ==
    /\ page.pc = "fallback"
    /\ page' = ProveOver(GroupMembersOf(Query(Issued, 0, page.seen), Query(Revoked, 0, head)), w)
    /\ UNCHANGED <<cli, submitted>> /\ UnchangedContracts /\ UnchangedChain /\ UnchangedStore

(* The proof, or the three-minute timeout.                                  *)
EndProof ==
    /\ page.pc = "proving"
    /\ \/ page' = [page EXCEPT !.pc = "idle", !.wallet = NoWallet, !.step = 3]
       \/ page' = [page EXCEPT !.pc = "idle", !.wallet = NoWallet, !.proof = NoProof]
    /\ UNCHANGED <<cli, submitted>> /\ UnchangedContracts /\ UnchangedChain /\ UnchangedStore

HandleMint(w) ==
    /\ page.step = 3
    /\ LET used == Nullifier(page.proof.scope, page.proof.of) \in minted
           reason == KycMintReason(w, page.proof)
       IN  /\ page' = IF used \/ reason = "no" THEN [page EXCEPT !.step = 4, !.refused = "no"]
                      ELSE [page EXCEPT !.refused = reason]
           /\ minted' = IF ~used /\ reason = "no"
                        THEN minted \cup {Nullifier(TokenScope, page.proof.of)} ELSE minted
    /\ UNCHANGED <<cli, submitted, demoClaimed, currentRound, claims, about>> /\ UnchangedChain /\ UnchangedStore

PageNext ==
    \/ Mount \/ PageIssues \/ IssueReverts \/ EndProof \/ ReadIssuedEvents
    \/ \E tx \in submitted : SubmittedIsMined(tx)
    \/ \E w \in Wallets : \/ HandleConnect(w) \/ HandleIssueCredential(w)
                          \/ LoadFromIndexer(w) \/ ReadRevokedEvents(w) \/ HandleMint(w)

-----------------------------------------------------------------------------
(* The example program, one run at a time. *)

Prove(w) == [NoCall EXCEPT !.call = "prove", !.as = CliIdentity[w], !.pc = "scan"]

CliStart(w) ==
    /\ about = "program" /\ cli.pc = "idle"
    /\ LET c == CliIdentity[w]
       IN  IF c \in ActiveOnChain
           THEN cli' = [pc |-> "proving", wallet |-> w, round |-> currentRound] /\ sdk' = Prove(w)
           ELSE /\ ~demoClaimed[w]
                /\ cli' = [pc |-> "issuing", wallet |-> w, round |-> 0]
                /\ UNCHANGED sdk
    /\ UNCHANGED <<page, submitted, log, head, rows, lastBlock, syncError, indexer, faults>>
    /\ UnchangedContracts /\ UnchangedStore

CliIssues ==
    /\ cli.pc = "issuing"
    /\ SelfIssue(cli.wallet, CliIdentity[cli.wallet])
    /\ cli' = [cli EXCEPT !.pc = "issued"]
    /\ UNCHANGED <<page, submitted, minted, currentRound, claims, about>> /\ UnchangedStore

CliReadsRound ==
    /\ cli.pc = "issued"
    /\ cli' = [cli EXCEPT !.pc = "proving", !.round = currentRound]
    /\ sdk' = Prove(cli.wallet)
    /\ UNCHANGED <<page, submitted, log, head, rows, lastBlock, syncError, indexer, faults>>
    /\ UnchangedContracts /\ UnchangedStore

CliClaims ==
    /\ cli.pc = "proving" /\ sdk.pc = "proved"
    /\ AirdropAccepts(cli.round, sdk.as, sdk.result)
    /\ claims' = claims \cup {[round |-> currentRound, nullifier |-> Nullifier(cli.round, sdk.as),
                               tree |-> sdk.result, at |-> head]}
    /\ cli' = CliIdle /\ sdk' = NoCall
    /\ UNCHANGED <<page, submitted, demoClaimed, minted, currentRound, about,
                   log, head, rows, lastBlock, syncError, indexer, faults>> /\ UnchangedStore

(* "already claimed", a revert, an error of the SDK: the program ends.      *)
CliEnds ==
    /\ \/ cli.pc = "issuing" /\ SelfIssueReverts(cli.wallet, CliIdentity[cli.wallet])
       \/ /\ cli.pc = "proving"
          /\ \/ sdk.pc = "failed"
             \/ sdk.pc = "proved" /\ ~AirdropAccepts(cli.round, sdk.as, sdk.result)
    /\ cli' = CliIdle /\ sdk' = NoCall
    /\ UNCHANGED <<page, submitted, log, head, rows, lastBlock, syncError, indexer, faults>>
    /\ UnchangedContracts /\ UnchangedStore

CliNext == CliIssues \/ CliReadsRound \/ CliClaims \/ CliEnds \/ \E w \in Wallets : CliStart(w)
-----------------------------------------------------------------------------
DemoInit ==
    /\ log = <<>> /\ head = 0
    /\ rows = [c \in Commitments |-> NoRow]
    /\ lastBlock = 0 /\ syncError = FALSE
    /\ indexer = Idle /\ sdk = NoCall
    /\ about \in {"indexer", "sdk", "page", "program"}
    /\ faults = IF about \in {"page", "program"} THEN MaxFaults - 1 ELSE 0
    /\ StoreInit /\ (about # "page" => legacy = NoLegacy)
    /\ page = FreshPage /\ submitted = {} /\ cli = CliIdle
    /\ demoClaimed = [w \in Wallets |-> FALSE]
    /\ minted = {} /\ currentRound = 1 /\ claims = {}

DemoNext ==
    \/ OneTransaction /\ UNCHANGED clientVars
    \/ about \in {"indexer", "sdk"} /\ TwoTransactions /\ UNCHANGED clientVars
    \/ about \in {"indexer", "page"} /\ StartPass /\ UNCHANGED clientVars
    \/ SyncRange /\ UNCHANGED clientVars
    \/ StoreNext /\ UNCHANGED clientVars
    \/ NextChunk /\ UNCHANGED clientVars
    \/ EndPass /\ UNCHANGED clientVars
    \/ FailPass /\ UNCHANGED clientVars
    \/ Crash /\ UNCHANGED clientVars
    \/ \E c \in Commitments : about = "sdk" /\ StartCall("prove", c) /\ UNCHANGED clientVars
    \/ about = "sdk" /\ StartCall("members", None) /\ UNCHANGED clientVars
    \/ \E kind \in {Issued, Revoked} : ReadLatest(kind) /\ UNCHANGED clientVars
    \/ ListMembers /\ UNCHANGED clientVars
    \/ GenerateProof /\ UNCHANGED clientVars
    \/ CallFails /\ UNCHANGED clientVars
    \/ about = "sdk" /\ GateVerifies /\ UNCHANGED clientVars
    \/ PageNext \/ CliNext \/ StartNewRound

DemoSpec ==
    /\ DemoInit /\ [][DemoNext]_demoVars
    /\ WF_demoVars(IndexerStep /\ UNCHANGED clientVars)

-----------------------------------------------------------------------------
DemoTypeOK ==
    /\ log \in Seq(Event) /\ head \in 0..MaxBlocks
    /\ rows \in [Commitments -> [at : 0..MaxBlocks, active : BOOLEAN]]
    /\ lastBlock \in 0..head /\ syncError \in BOOLEAN
    /\ indexer.pc \in {"idle", "query", "store"} /\ indexer.todo \in Seq(Event)
    /\ sdk.pc \in {"ready", "scan", "listed", "proved", "failed", "verified"}
    /\ sdk.result \in Seq(Commitments \cup {None})
    /\ faults \in 0..MaxFaults
    /\ identities \in [Wallets -> Commitments \cup {NoIdentity}]
    /\ activeWallet \in Wallets \cup {NoWallet}
    /\ page.step \in 0..4 /\ page.pc \in {"idle", "issuing", "fallback", "proving"}
    /\ submitted \subseteq [wallet : Wallets, of : Commitments]
    /\ cli.pc \in {"idle", "issuing", "issued", "proving"}
    /\ \A k \in claims : k.round \in 1..currentRound

IssuedBy(c, b) == \E i \in DOMAIN log : log[i].kind = Issued /\ log[i].commitment = c /\ log[i].block <= b
RevokedBy(c, b) == \E i \in DOMAIN log : log[i].kind = Revoked /\ log[i].commitment = c /\ log[i].block <= b
(* Whatever pass failed or crashed, the database holds the effect of every  *)
(* event up to the cursor: who was issued has a row with the block of the   *)
(* first issuance, who was revoked is not listed.  Ranges are replayed, and *)
(* within a range issuances are stored before revocations.                  *)
IndexedUpToCursor ==
    \A c \in Commitments :
        /\ IssuedBy(c, lastBlock) => IssuedBy(c, rows[c].at) /\ ~IssuedBy(c, rows[c].at - 1)
        /\ RevokedBy(c, lastBlock) => ~rows[c].active

(* A revoked credential leaves the list of the API: passes are retried      *)
(* until one reaches the head, however the earlier ones ended.              *)
RevokedDelisted ==
    \A c \in Commitments : RevokedBy(c, head) ~> ~rows[c].active

(* A tree rebuilt from scans that saw the same latest block is the tree of  *)
(* the contract at that block, although all issuances are replayed before   *)
(* all revocations.                                                         *)
RebuildMatches ==
    sdk.pc = "proved" /\ sdk.latest[Issued] = sdk.latest[Revoked] =>
        sdk.result = Tree(EventsUpTo(sdk.latest[Issued]))

(* The gate opens only for a tree the contract had, with the identity in    *)
(* it: a block between the two scans can produce a tree that never existed. *)
GateOpensForMembers ==
    sdk.pc = "verified" =>
        \E n \in 1..Len(log) :
            /\ sdk.result = Tree(SubSeq(log, 1, n))
            /\ sdk.as \in ToSet(sdk.result)

(* A member getGroupMembers lists was still active after the earlier of the *)
(* two latest blocks, and is listed once if they are the same.              *)
ListedWereActive ==
    sdk.pc = "listed" =>
        /\ sdk.latest[Issued] = sdk.latest[Revoked] => IsInjective(sdk.result)
        /\ \A c \in ToSet(sdk.result) : \E k \in {Issued, Revoked} :
               \E n \in Len(EventsUpTo(sdk.latest[k]))..Len(log) : c \in ToSet(Tree(SubSeq(log, 1, n)))

(* The airdrop pays an identity once per round, and only one whose          *)
(* credential was in the group at most a root window before.                *)
AirdropBacked ==
    /\ \A j, k \in claims : j.round = k.round /\ j.nullifier = k.nullifier => j = k
    /\ \A k \in claims :
           /\ k.nullifier.scope = k.round
           /\ \E n \in 1..Len(log) :
                  /\ k.nullifier.of \in ToSet(Tree(SubSeq(log, 1, n)))
                  /\ n < Len(log) => log[n + 1].block + RootWindow >= k.at

(* GatedRWA.sol: "pinning the scope"; the page's last step: "verifies       *)
(* on-chain that you hold a valid KYC credential, then mints".  The page    *)
(* makes its proof for the scope the token accepts.                         *)
DemoProofScoped == page.refused # "WrongScope"

(* What the readers of the events know of the group at any moment.         *)
MembersInv == DemoTypeOK /\ IndexedUpToCursor /\ RebuildMatches /\ ListedWereActive
=============================================================================
