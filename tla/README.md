# HSK Passport: verification project

HSK Passport issues KYC credentials that are proved in zero knowledge. A contract puts
identity commitments into Semaphore groups; a second pair of contracts and a circuit prove
that a credential is recent; a registry holds the stakes of issuers; a backend indexes
events, runs the KYC queue, signs blind vouchers and posts freshness leaves; an SDK and a
frontend build the proofs. This directory holds TLA+ models of the parts, the TLC
configurations that check them and proofs checked by TLAPS.

`PROJECT.json` lists the components with the files they stand for, the runs, a mutant of the
code for every checked property, the lines every definition translates, the hazards and the
theorems.

## 1. Inventory

| Component | State | Operations | What makes it correct | Module |
|---|---|---|---|---|
| `HSKPassport.sol` | owner, pauser, issuers and epochs, groups, delegates, flags, issuance times | 18 external functions, six views | flag, leaf and count agree; authority ends with the issuer; revocation takes effect and is never blocked | `HSKPassport`, `CredentialAuthority` |
| Semaphore v4 (external) | leaves, root dates, nullifiers | create, add, remove, verify, validate | a proof passes for members of a root that is current or young enough | `Semaphore` |
| `FreshnessRegistry.sol` | issuers per group, root, ring of 100 roots | authorise, revoke, addLeaf, ownership | the ring is exactly the window of the last posts | `FreshnessRegistry` |
| `HSKPassportFreshness.sol`, circuit | used nullifiers | verifyFresh, previewVerifyFresh | one acceptance per secret and scope, backed by the group's own roots | `HSKPassportFreshness` |
| `auto-freshness.ts` | in-memory trees, `running`, `freshness_leaves` | bootstrap, reconcile, tick, postLeaf | chain, database and memory agree through crashes and failures; approved rows are served | `AutoFreshness` |
| `server.ts` (KYC), `auto-issuer.ts`, `sumsub.ts`, `notify.ts` | KYC rows, webhook digests, the pass's snapshot | submit, attach, review, init, webhook, auto-approve, mail | one pending request a person, verdicts stand, approvals are backed by a credential, who passed has a request, every request that can be is decided | `KYCWorkflow` |
| `ClaimCredential.sol`, `blind-issuer.ts`, `blind.ts`, claim page | voucher sessions, nullifiers, a tab's stage | session, sign, unblind, claim | one voucher a session, no claim without one, an approved visitor gets his | `VoucherFlow` |
| `indexer.ts`, `db.ts`, SDK | cursor, credential rows, members rebuilt from events | passes in chunks, retries; scans, buildGroup | database and rebuilt trees are the chain's | `GroupMembers` |
| demo page, example program, `DemoIssuer`, airdrop, `GatedRWA` | page steps, claims, nullifiers | issue, prove, mint, claim | once per round and identity, for members only | `DemoClients`, `IdentityStore` |
| `IssuerRegistry.sol` | stakes, exits, treasury, requirements | stake, unstake, withdraw, slash, set | balance covers what is owed; a slash restarts an exit | `IssuerRegistry` |
| timelock and its scripts | roles, operations, record files | deploy, hand off, schedule, execute, grant | no interruption leaves the registry without an owner that can act | `GovernanceHandoff` |
| `issuers.ts` | list cache, LRU of metadata, workers | load, fetch, serve | complete, recent, of one chain; every load ends | `IssuerDirectory` |
| onboarding page | form, account, stake under way | build, copy, stake | the stake is the one confirmed, from the account shown | `IssuerProgram` |
| verification page, `kyc-local.ts` | React state, refs, saved session | connect, scan, match, submit, Sumsub | nobody's data lands on another's page | `KYCPage`, `KYCDocument` |
| freshness demo, `freshness.ts` | leaves read, proofs, previews | load, prove, verify in three modes | the tree is a Merkle tree and its proofs are accepted | `FreshPage`, `FreshnessTree` |
| issuer dashboard, `/api/kyc/queue` | auth, filter, queue; used nonces | connect, refresh, approve, reject | nonces are not replayed, decisions are final | `IssuerDashboard` |
| `health.ts`, indicator, rate limiter | caches, sync state, buckets | report, metrics | "ok" means current; clients stay below the limit | `ServiceHealth` |

How they interact. Issuers (people, the auto-issuer, DemoIssuer, the claim contract) call
`HSKPassport.issueCredential`, which calls Semaphore. The indexer copies its events into
SQLite. Approval of a KYC row is the shared state between the server, the auto-issuer and the
freshness loop, which posts to `FreshnessRegistry` and records what it posted. The frontend
asks the backend for the tree and the registry for its root; dApps call the verifiers.

Hard behaviour: issue, revoke and re-issue over a tree that zeroes leaves in place; authority
that outlives the issuer who granted it; proofs against roots that age; a ring buffer at its
wrap; JavaScript handlers suspended at awaits that read, wait and write; crashes between a
transaction and its record; answers lost after a transaction was sent; a wallet that is
switched while an answer is under way; caches of different age. The list, with lines, is
`hazards` in PROJECT.json; the few without a property say why.

## 2. Plan

Done, in this order: `Semaphore` and `HSKPassport` with the abstract `CredentialAuthority`;
`FreshnessRegistry`, `HSKPassportFreshness`, `AutoFreshness`; `KYCWorkflow` and `VoucherFlow`;
`GroupMembers`, `IdentityStore`, `DemoClients`; `IssuerRegistry`, `GovernanceHandoff`,
`IssuerDirectory`, `IssuerProgram`; the pages `KYCPage`, `KYCDocument`, `FreshnessTree`,
`FreshPage`, `IssuerDashboard`; `ServiceHealth`; and eight modules of proofs.

Next, if the project is continued: `CredentialRegistry`, the identity bridges and the lending
pool once something in the repository depends on them.

## 3. Modules and their correspondence with the code

Conventions. One action per external function of a contract; a require that fails is a
disabled action, since a revert undoes everything. One action per stretch of JavaScript from
one await to the next; a handler that is suspended is a record in a variable (`calls`,
`requests`, `task`, `review`, ...), and what it read before the await stays in that record.
History variables are marked as such and never guard an action. Every module carries its
mutants beside the definition they deform (a "Mutant:" comment); nothing in the
specification refers to them.

**Semaphore**: hashing is collision free, so the sequence of leaves *is* the Merkle root;
removal overwrites the leaf with `ZeroLeaf`; `rootDates` is `merkleRootCreationDates`. A proof
is a record of root, identity and scope.

**HSKPassport** extends it; `sender` is `msg.sender`, `Tick` advances block time.
**CredentialAuthority** is the abstract promise about authority: issuers, the pairs
authorised now, open groups, holders; no epochs, flags or trees. `HSKPassport` maps to it by
`GroupIssuers`, `Authorised`, `OpenGroups`, `Holders` (property `AuthoritySpec`).

**FreshnessRegistry**: roots are opaque, `posted` keeps the LeafAdded events as the history
the ring must reproduce. **HSKPassportFreshness** adds the nullifier map; the circuit is the
relation `Satisfies` over the leaves under a root.

**AutoFreshness** extends `FreshnessRegistry`. A *task* is one call of `tick()`; `mem[t]` are
the objects its bootstrap built and `state` says which of them the closure points to. `Mine`
executes the oldest transaction; `Fault` spends the budget for failing calls; `Crash` loses
memory and not transactions.

**KYCWorkflow**: a row is known by its position, which is the order of `submitted_at`. The
handlers that await (init, webhook) are records in `calls`; the auto-issuer's pass is `auto`,
with the snapshot of the queue it took. `AutoPoll(young)` drops the rows younger than
`MIN_AGE_MS`, which are the newest of the queue, so that ages need no clock. `everIssued` is
the history of the chain that backs approvals. The text of a commitment is a number the
contract takes, a number it refuses (`Unissuable`: zero, beyond the field) or a session id of
the voucher flow (`BlindSessions`): the webhook of such a session inserts a row for it like
for anyone (server.ts:744), and `BigInt` throws on it at every pass (auto-issuer.ts:61).
`groups` is whether the group of a type takes issuances: open; halted by a pause, a
delegation withdrawn or an issuer removed; open again; inactive for good. `Scopes` says
which inputs one behaviour combines.

**VoucherFlow**: RSA is what its parties can do with it: a request carries a commitment
blinded for one call and only that call can unblind the signature. Tabs are reloaded and answers
lost in the behaviours marked `lossy`; foreign clients call the endpoints with ids they know.

**GroupMembers**: `log` is the chain's list of events; `Tree` folds it to leaves the way the
contract does. `indexer` is the pass under way (chunk, query, writes), `sdk` one call of the
SDK. **IdentityStore** is the localStorage of `semaphore.ts` with its migration of the old
format. **DemoClients** composes both with the demo page, DemoIssuer, the airdrop over rounds
and GatedRWA.

**IssuerRegistry** follows the contract function by function; `ledger` is the history of what
an account paid, got back, and when it was slashed. **GovernanceHandoff** adds the timelock
and the scripts: each reads chain and records ("checked"), sends ("sent"), writes its record,
and may stop at either point while the chain moves. **IssuerDirectory** adds the backend's
list: a call is a load with its workers, cursor and results; a URI has a class, a host an
answer or none. **IssuerProgram** adds the onboarding page and the wallet. The text of an
amount stands for its exact value, which `parseEther` gives and the transaction carries;
`NumberOf` is the double `Number()` makes of it, which the limit, the dialogs and the tier
label use. The thresholds of the label are the deployed ones, as literals of the page.

**KYCPage**: what the page holds is named by the identity whose it is, so "my data on
your page" is an inequality. Every answer (identity, status, token, widget) is an action of its own, with what
it closed over in `job`. **KYCDocument**: the browser's computations on small inputs:
preparing an image, choosing among three readings, finding the fields, matching faces, the
blink loop; ratios count thousandths.

**FreshnessTree** is `freshness.ts` with a collision-free hash; the reference it is checked
against is `FullTreeRoot`, the tree padded with zeros to 2^Depth leaves. **FreshPage** builds its proofs
with it while the backend goes on posting.

**IssuerDashboard**: `reads` are the reads of the queue under way, each with the nonce it
was signed for; `used` is `usedIssuerNonces` with `gcNonces`; `review` is the approval or
rejection under way, over wallet, chain, signature and endpoint. Another issuer acts on the same rows.

**ServiceHealth**: `chain[t]` is head and balance at time t, so that "current" can be said of
cached values; `pass` is the indexer's pass with the writes it makes, `reports` the requests being answered,
`buckets` the limiter in insertion order.

**MC modules** give constants their values. Several parts are checked in one run where they
share code but not a question: a variable `about` is chosen in the initial state and never
changes, and each part moves only in its own behaviours, so that state spaces add up instead
of multiplying. `MCHSKPassport` splits one specification into three sets of inputs this way;
`MCBackend`, `MCIssuers` and `MCPages` put modules side by side. Modules that interact closely
are composed by EXTENDS (`DemoClients`, `GovernanceHandoff`, `IssuerDirectory`, `IssuerProgram`,
`FreshPage`, `AutoFreshness`, `KYCPage`), and in `MCIssuers` the registry goes on changing under
the programs that read it (for the page: its requirements). Two modules of one run meet in one
place, Sumsub's webhook for the sessions of the voucher flow: `KYCWorkflow` has those sessions
itself (`StartVoucherSession`), `VoucherFlow` what is signed for them.

## 4. Runs

| Run | Bounds and why they are enough |
|---|---|
| `passport` | two commitments (symmetric), three leaves: issue, batch, revoke, re-issue; time to 4 with a root lifetime of 1, so roots expire and revocations age; two groups, two issuers, a delegate, two epochs: revoke, re-approve, revoke with old delegations in place; two accounts exchanging ownership and pauser |
| `freshness_verify` | two groups share provers; ring of 2 and three posts, so it wraps and evicts |
| `loop_crash` | two rows in a group, two crashes and two failing calls at any await |
| `loop_lost` | two overlapping tasks, a lost answer or failed insert, a crash, a role given and taken |
| `loop_progress` | three rows in two groups and a failing send, under fairness |
| `backend` | two people, a session of the voucher flow and a refused number, two requests, a queue of one (so a newer row can hide an older), two suspended handlers, two verdicts, one fault or crash, each group halted once; two tabs with two voucher calls each and two sessions |
| `members` | two traded commitments, three blocks, chunks of 2 (so a pass has two), pages of 2, one failed query or crash, a root window of one block, two wallets, two rounds |
| `issuers` | two issuers and stakes up to 2 (of the page: up to 3, with the thresholds at 2 and 3 and an amount of 1 that rounds to 2), a cooldown and delay of one day in three; two operations; two list calls, or one call with two workers and two issuers, a cache of one entry; one applicant's form with one URI against two accounts, requirements changed once |
| `pages` | two wallets (symmetric) and four moves with Sumsub or seven local ones; texts of two lines, images of four pixels, six looks at a face; two groups, a window of one root, tree of depth 2 and three leaves, three clicks; a row and a window of one unit in a clock of three; four units of time, a failing call, two limiter keys for three clients |
| `expiry`, `loop_restart`, `demo_mint` | violations, section 6 |

What they check:

- `passport`: the inductive invariant `IndInv`, `MemberCountAccurate` (the anonymity-set size),
  `HolderCanProve`, `RevocationWindow` (no proof of a revoked commitment passes later than the
  root lifetime after its revocation), `RevocationNeverBlocked` (the owner can revoke every
  standing credential in every state), `DeactivationFinal`, `IssuanceHalts`, and the
  refinement `AuthoritySpec`.
- `freshness_verify`: `WindowExact`, `OneProofPerScope`, `BackedByItsGroup`, `IndInv`.
- `loop_crash`: `LoopInv` (what a crash or failed call can do is limited to repeating the
  first leaf of a group; roots extend each other) and `ServedRootKnown`. `loop_lost`:
  `LeavesWerePosted`. `loop_progress`: `ApprovedServed`.
- `backend`: `KYCInv` (one pending request per commitment, the latest; rows of Sumsub's
  type have an applicant; who was told is forgotten; unless a call failed, who passed has a
  request or a report of it is due), `AutoApprovalBacked`, `VerdictStands`,
  `PendingDecided`; `VoucherInv`, `ClaimsBacked`, `ApprovedGetsVoucher`.
- `members`: `MembersInv` (rows agree with the events up to the cursor, rebuilt trees are
  the contract's when both scans saw one block, listed members were active),
  `GateOpensForMembers`, `AirdropBacked`, `RevokedDelisted`.
- `issuers`: `RegistryInv` (solvency, exits frozen, listed once), `SlashRestartsExit`,
  `HandoffInv`, `DirectoryInv`, `LoadsEnd`, `ProgramInv` (the stake comes from the account shown
  and its double is the one confirmed; under the deployed requirements the tier shown is the one
  given exactly when rounding lifts the amount across no threshold).
- `pages`: `KYCPageInv`, `DocumentInv`, `FreshInv`, `DashInv`, `DecidedOnce`, `HealthInv`,
  `OkIsCurrent`.

Bounded counters (`MaxTime`, `MaxLeaves`, `MaxFaults`, `MaxClicks`, ...) are guards and are
declared as bounds where they are constants of a module. `CHECK_DEADLOCK FALSE` is said where everything may be
served and the bounds spent.

Limits of the claims. `LoopInv` and `ServedRootKnown` are claimed, and proved, for one tick at
a time, a restart that takes longer than a transaction (no `QuickRestart`), sends whose answer
is not lost, and at most one row per commitment in a group (`OneTickAtATime`);
`ServedRootKnown` needs a ring of two slots, one for the post not recorded yet. What happens
otherwise is the subject of `loop_lost`, which does not forbid the leaf posted twice: after a
lost answer, or beside another tick, the code does that. `PendingDecided` excepts an
auto-issuer that is off or lost its role, a request it can never finish (`Hopeless`: an unknown
type, a session id, a number the contract refuses, a group that is closed) and a row that as
many newer ones of that kind hide as the queue is long. Each of these really stops the code,
and without any one of them the property is violated. `PassedIsRecorded` (in `KYCInv`)
excepts failing calls and restarts: a webhook is marked as seen before the call that may fail,
and its verdict is lost then (server.ts:706). `DashInv` excepts reads that overlap with one
nonce, `KYCPageInv` answers that came late for another wallet. `HandoffInv` says that records
name scheduled operations and not that every operation has a record, and one timelock is
deployed in a behaviour. `HealthInv` excepts a first
pass that crashed between its writes, and a client the limiter forgot (section 6).

**Fairness.** `FairSpec` (loop): each task's steps (the interval keeps firing, promises
settle), mining, the start of the process and the deployment's grants. `KYCFairness`: weak
fairness of a step of the auto-issuer's pass and strong fairness of a poll at which every row is old enough,
since the timer polls again and again and rows age; no reviewer, webhook or visitor has to
act. `VoucherFairness`: handlers and browser callbacks run; visitors need not click, and tabs
of a lossy behaviour are not claimed for. `DemoSpec`: the indexer's steps, because
`startIndexer` retries for ever. `IssuersSpec`: for a load, an answer of the RPC or the abort
of a fetch comes, which is what the 5-second AbortController is there for.

## 5. Proofs

For all values of the constants, under the named ASSUMEs in the modules.

- `HSKPassportProofs`: `IndInv` is inductive (`Invariance`). It adds to the types that a flag
  is set exactly for the non-zero leaves, that these are distinct, that counts are
  cardinalities, that every past root holding a commitment since revoked was created no later
  than its revocation, and that no delegate epoch is ahead of its issuer's and all are behind
  it while the issuer is removed: without them neither count nor window survives a revocation
  followed by a re-issue. From it `TypeCorrect`, `MemberCountCorrect`,
  `HolderCanAlwaysProve`, `RevocationEffective`, `ClockRestartsAlways`, `IssuanceHaltsAlways`,
  `DeactivationFinalAlways`, and `AuthorityRefined`, the refinement step by step.
- `HSKPassportFreshnessProofs`: of the registry, `RegistryInvariance` (slot by slot) and
  `RegistryWindow` for every ring size; the heart is `SlotsShift`: writing a slot and advancing
  moves every other entry one post back. Of the verifier, `FreshnessInvariance`,
  `ReplayProtected`, `ProofsBacked`.
- `AutoFreshnessProofs`: `LoopInvariance`, `RecordedWasPosted`, with every failure, crash and
  restart allowed. The invariant ties the mempool to the tasks: a transaction that is waited for
  is the only one of its sender, of the group and tree the sender remembers, and once its
  receipt is in that tree is among the posted ones. `LoopPostsOnce`, `ServedIsKnown` take one
  tick at a time (`OneTickAtATime`). Their invariant `TickIInv` says where the table stands
  against the chain: it is empty, the last posted tree, or the last but one, and a new leaf is
  posted only on a settled one (`Settled`) or as a first leaf; an approved row that was served
  is open (`Open`) no more, and a pass holds the open ones in the order of approval, so that a
  first leaf is the oldest open row of its group; the last two posts are in the ring. What `getPendingFreshnessIssuances` returns
  (`PendingIs`) is proved over its recursive function.
- `IssuerRegistryProofs`: `BooksBalance`, `RegistryCorrect`, `SlashAlwaysRestartsExit`. The sum
  of the stakes is a recursive function over the list of issuers; that it changes by one
  summand is proved by the least index at which two sums would differ. The invariant adds
  that a pending exit was requested no earlier than the last slash.
- `IssuersProofs`: of the programs around the registry. `HandoffAlwaysRecoverable`: what is
  scheduled at the timelock is one of the operations its scripts know, and each script that
  waits between its checks and its transaction has seen what makes the transaction right or is
  refused. `StakesAsConfirmed`: between the dialog and the transaction the amount and the
  account are the ones of the dialog, over any requirements set meanwhile. That rounding is the
  one reason for another tier than the one shown (`LabelOfDouble`) needs that no amount rounds
  downwards across a threshold, which holds because the thresholds are doubles themselves. `DirectoryServesTheRegistry`: cache entries are
  distinct, bounded and of the past; what a load read is a prefix of the contract's list, and
  an index of it is finished, at a worker or still ahead of the cursor.
- `BackendProofs`: `VoucherInvariance`, `VouchersCorrect`, `ClaimsAlwaysBacked`. The
  invariant ties the stages of a call to the sessions table (who passed the check and is
  about to sign) and the stages of a tab to the signatures; cardinalities are compared
  through the injection from commitments to sessions. `KYCInvariance`, `WorkflowCorrect`,
  `AutoApprovalsBacked`, `VerdictsStand`, and `PassedRecorded` for who passed (a row is never
  deleted, and a report stays due until it left one): the invariant says of each suspended handler and of
  the pass what is still true of what it read; that the queue read by the pass has only row
  numbers, newest first and within the limit, is proved over the recursive function
  `NewestPending`.
- `DemoClientsProofs`: `DemoInvariance`, `GateForMembersOnly`, `AirdropForMembersOnly`,
  `ReadersKnowTheGroup`. Roots
  are trees of the log's prefixes; the block that follows a prefix bounds how long its root is
  accepted. Membership is not computed: that a proof can be built at all is the guard of the
  prover, and the chain accepts a root of its own only.
  `ReadersKnowTheGroup` is `MembersInv`, with `MembersIInv` as the invariant. Of the chain it
  says that the log is lawful (`Lawful`): who is issued is not in the group, who is revoked is,
  so that between two issuances of a commitment lies a revocation. Of the indexer
  (`IndexSound`) it says what a range still has to store: events of the log, issuances first
  and in the order of their blocks, and every event up to the end of the range that the table
  does not hold yet; a row names the block of its first issuance because earlier ones are
  stored earlier. Of the SDK (`SdkReads`) it says what a call made of the blocks it read. The
  pages of a scan fit together (`ScanIs`); all issuances before all revocations build the
  same tree as the log does, since a revocation clears the first occurrence and each earlier
  one was cleared before (`RebuildIs`); whom the list keeps was issued before the one cut of the log
  and not revoked before the other (`ListingIs`). Trees, queries, pages and lists are recursive functions.
- `PagesProofs`: `DashInvariance`, `DashCorrect`, `DecisionsFinal`. A nonce that
  was accepted is remembered or has left the window, because what `gcNonces` drops was
  recorded no earlier than the time the nonce stands for; an approval is signed only for an issued row.
  `StallsShowAndRatesHold`, `OkReportsAreCurrent`: a cached value is given the moment before
  which the chain did not have it yet, and a report that is being built the one its cached or
  served reads come from; of the limiter, the stamps of a bucket are the last of the requests
  allowed to its client and the ones shifted away are out of the window, so an allowed request
  has fewer than the limit beside it. `PageBelongsToItsIdentity`: the page knows no account but
  the one selected, a call under way pairs a wallet with its own identity, and a stored
  identity is its wallet's own, unless the account changed while a wallet prompt was open.
  `DemoShowsWhatHolds`, for any depth, leaves and clicks: every node the layers hold is the one
  of the full tree (`FullRoot`), the path of a leaf climbs through them (`PathClimbs`), trees
  of different lengths have different roots (`RootsTellLengths`), so a root once evicted
  from the window is not posted again; a witness asked for under the warning is too old for the circuit.
  `LocalChecks`, for documents, images and faces of any size: the invariant says which reading is
  kept after each round and that the loop has blinked exactly when its frames say so. The sums
  and the parsed fields are recursive functions, whose values are shown to exist step by step
  (`StepsExist`); the contrast is monotone because Euclidean division is (`DivMonotone`), and the
  baseline lies above any ratio that three of five frames reach (`OpenEyesSetTheBaseline`).

Inductions are done without the library's induction theorems: the least counterexample in a
set of numbers (`LeastElement`, from well-foundedness) is contradicted by its predecessor.

Only model-checked: `RevocationNeverBlocked` (ENABLED; that a standing credential has its leaf in
the tree, its guard, is `TreeAgrees` in the proved `IndInv`); liveness under fairness (`ApprovedServed`,
`PendingDecided`, `ApprovedGetsVoucher`, `RevokedDelisted`, `LoadsEnd`).

## 6. Disagreements between code and documents

Shown by a run:

- *expiry*: the comment of `verifyCredentialWithExpiry` says it reverts if any credential
  could have expired; it compares the caller's own threshold.
- *loop_restart*: a crash between the mining and the recording of a group's first leaf makes
  the loop post it again, since groups without rows are not reconciled.
- *demo_mint*: the demo page proves for the group id, `GatedRWA` accepts its own address
  as scope only; the mint of the last step is always refused.

Seen while modelling, with no run of their own.

Contracts and scripts: PROTOCOL.md:168 calls revocation immediate, `verifyCredential` takes
old roots until they expire; the freshness nullifier is per secret and scope and not per
credential (HSKPassportFreshness.sol:19); `HashKeyKYCImporter.sol:101` keeps a binding whose
KYC is gone, against lines 37-38; the retail cap of the lending pool is per call; a fully
slashed issuer can register again; `deploy-mainnet-issuer-registry.ts:83` records an address
while the handoff script has one written into it (line 29); the timelock test slashes 0 and
thereby cancels a pending exit; `grant-timelock-proposer.ts:13` says anyone executes, the
executor is the deployer; the handoff's comment names a `setUnstakeCooldown` that does not
exist.

Freshness loop: `tick` looks at `running` before it awaits `bootstrap` and not after, so an
interval tick during a slow bootstrap runs beside the first (auto-freshness.ts:211) and the
served tree may have a root the chain never saw; rows are matched by commitment over all
groups, so the second credential of a wallet never gets a leaf (db.ts:392); the role is read
only at startup, against the comment at auto-freshness.ts:224.

Backend: the webhook inserts a KYCVerified row for every voucher session that passes
(server.ts:744), which no pass can finish, and a hundred of them hide every older request from
the auto-issuer; a row whose group is paused or inactive, or whose commitment the contract
refuses, is tried again for ever as well; "each delivery is processed at most once"
(server.ts:704) can be never, when Sumsub's answer fails after the digest was stored; the
comparison with "CredentialAlreadyIssued" in auto-issuer.ts and issuer/page.tsx:132 never fires, as
neither ABI declares the error; the auto-issuer approves from a snapshot and can overwrite a reviewer's rejection;
the queue is the newest 100 rows, so older ones starve under load; rows of type KYCVerified
are issued without a GREEN verdict (server.ts:679); the placeholder of `sumsub/init` makes a
later submission "already pending"; "make sure the auto-issuer has a record" (server.ts:742)
inserts one only where there never was a row, so a person rejected before is verified by
Sumsub without one; attach writes whatever the row's status is
(server.ts:253); two reads with one nonce that overlap are both accepted, against "at most once" (server.ts:331);
a re-issued credential stays inactive in the index; the limiter forgets the first-inserted client, not the
oldest; a crash between the first pass's writes leaves `last_synced_at` null, which is
reported as ok; a low balance of the issuer is shown as "Indexer slightly behind"
(HealthIndicator.tsx:17).

SDK and pages: `getGroupMembers` is called revocation-aware (index.ts:201) and two parallel
scans can build a tree that never existed; the demo page proves over active members only;
"the voucher stays valid" (claim/page.tsx:289), but the tab keeps it in memory only and a reload loses it; the verification
page says progress is saved (kyc/page.tsx:563) and the wallet effect clears it before it is
loaded; answers for one wallet may land on the page of another; the button that loads an
identity leaves another's saved session to be restored with it; the review says a blink was
seen after Skip; the thresholds of `detectBlink` are not those of its comment; "PASSPORT" is
taken for a document number; the fresh page warns by whole days and shows a stale
result of another mode; the dashboard's interval keeps an old signature, its older refresh
overwrites a newer filter, and a redacted row crashes it (issuer/page.tsx:46 calls the queue
unlocked); an amount such as 999.999999999999999999 HSK is shown, confirmed and labelled as 1000
and "KYC Provider" (issuer-program/page.tsx:128,150) and staked one wei below, which is
Community, and the thresholds written into that page stay as they are when the owner sets
others; the review panel offers KYCVerified, which the server rejects; the onboarding
page lets an issuer stake with metadata the directory refuses.

## 7. Not modelled

Poseidon, Groth16 and RSA arithmetic, the generated `FreshnessVerifier.sol`, gas, reorgs of
the chain, logging, HTTP framing, rendering and wording of pages and mails; one-shot
deployment, seed and circuit scripts other than the mainnet handoff. `CredentialRegistry`,
`CredentialReputation` and `CredentialExpiry` are read by nothing else in the repository;
the identity bridges stand on external tokens that exist as mocks only; the anonymity gate
and the jurisdiction verifier are stateless checks in front of the nullifiers of `Semaphore`;
the lending pool, the other pages and components, the ABI tables and the second example are
listed in PROJECT.json with their reasons.

Coarser than the code: two awaits of `RebuildGroups` (auto-freshness.ts:98, 102) and the
host check before a fetch (issuers.ts:453) are part of the step beside them; a signature has
one encoding, where ClaimCredential.sol:67-69 takes the one a modulus higher as well; a
`SelfIssue` is not refused for a pause or a closed group; in `IssuerDashboard` the branch on
"CredentialAlreadyIssued" may be taken, which the ABI of the frontend never lets happen, a
failing `approvedIssuers` for an approved issuer is left out, and a row has one review at a time;
a new identity object with the same key does not save the session of the verification page
again; and a node without an issuer key (health.ts:85) is not considered. Times are in units of the smallest relevant period, amounts in
units of the smallest stake, so that 256-bit overflow, which Solidity 0.8 reverts on, does not occur.
