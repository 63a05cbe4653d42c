---------------------------- MODULE ServiceHealth ----------------------------
(***************************************************************************)
(* What the backend says of itself: the report of health.ts behind         *)
(* /api/healthz and /api/metrics, built from cached reads of the chain and *)
(* from what the indexer records of its passes, the indicator of the       *)
(* frontend (HealthIndicator.tsx), and the rate limiter of /api/issuers.   *)
(* The chain's head and the issuer's balance are those of the testnet; the *)
(* mainnet's head is only displayed.                                       *)
(***************************************************************************)
EXTENDS Integers, SequencesExt

CONSTANTS DeployBlock,
          LagOk, LagWarn, SyncOk, SyncWarn,  \* LAG_OK_BLOCKS ... SYNC_WARN_SEC
          HeadTTL, BalanceTTL,               \* HEAD_CACHE_TTL_MS, ISSUER_BALANCE_TTL_MS
          RpcMax,                            \* the longest a call of the RPC takes
          Growths,                           \* blocks of a unit of time, in each part
          Clients, RateWindow, RateLimit, MaxKeys, \* ISSUERS_RATE_WINDOW_MS, _LIMIT, _MAX_KEYS
          MaxNow, MaxFailures,   \* bounds
          MaxReports, MaxPasses, MaxRestarts \* bounds of each part

Parts == {"indexer", "reads", "limit"}

ASSUME HealthAssumption ==
    /\ {DeployBlock, LagOk, LagWarn, SyncOk, SyncWarn, RpcMax, RateWindow, RateLimit,
        MaxFailures} \subseteq Nat
    /\ {HeadTTL, BalanceTTL, MaxKeys, MaxNow} \subseteq Nat \ {0}
    /\ {MaxReports, MaxPasses, MaxRestarts} \subseteq [Parts -> Nat]
    /\ LagOk <= LagWarn /\ SyncOk <= SyncWarn /\ Growths \in [Parts -> SUBSET Nat]
    /\ DeployBlock > LagOk

VARIABLES part,     \* what the behaviour is about
          chain,    \* chain[t]: head and balance at time t; now is its length
          sync,     \* sync_state
          pass,     \* the indexer's pass
          cache,    \* headCache and issuerBalanceCache
          reports,  \* reports[r]: the report being built for a route
          shown,    \* the indicator: "loading", "unreachable" or the report's status, and
                    \* what the report says of the indexer
          buckets,  \* issuersRateBuckets in insertion order
          record    \* history: the last sync that succeeded and whether the last one failed,
                    \* requests allowed since the client's bucket exists, what has happened so far

healthVars == <<part, chain, sync, pass, cache, reports, shown, buckets, record>>

Routes == {"healthz", "metrics"}
Now == Len(chain)
HeadBlock == chain[Now].head
Levels == 0..2  \* of the balance: below the error limit, below the warning limit, fine

NoEntry == [block |-> 0, ok |-> FALSE, at |-> 0]
NoBalance == [level |-> 0, ok |-> FALSE, at |-> 0]
NoCaches == [head |-> NoEntry, balance |-> NoBalance]
NoPass == [pc |-> "idle", latest |-> 0]
NotBuilding == [pc |-> "idle", since |-> 0, head |-> NoEntry, headPc |-> "have",
                balance |-> NoBalance, balancePc |-> "have"]

HealthInit ==
    /\ part \in Parts
    /\ chain = <<[head |-> DeployBlock + 1, balance |-> 2]>>
    /\ sync = [block |-> 0, at |-> 0, error |-> FALSE]
    /\ pass = NoPass /\ cache = NoCaches
    /\ reports = [r \in Routes |-> NotBuilding]
    /\ shown = [status |-> "loading", indexer |-> "none"] /\ buckets = << >>
    /\ record = [success |-> 0, failed |-> FALSE, allowed |-> [c \in Clients |-> << >>],
                 reports |-> 0, passes |-> 0, restarts |-> 0, failures |-> 0]

Fails == record.failures < MaxFailures
FailedOnce == [record EXCEPT !.failures = @ + 1]

(* A call of the RPC is answered or fails within RpcMax.                   *)
TimeGoesOn ==
    /\ Now < MaxNow
    /\ \A r \in Routes : reports[r].pc = "reading" => Now < reports[r].since + RpcMax
    /\ \E growth \in Growths[part], spent \in BOOLEAN :
         chain' = Append(chain, [head |-> HeadBlock + growth,
                                 balance |-> IF spent /\ part = "reads" THEN 0 ELSE chain[Now].balance])
    /\ UNCHANGED <<part, sync, pass, cache, reports, shown, buckets, record>>

-----------------------------------------------------------------------------
(* The indexer's record of its passes (indexer.ts, sync_state).            *)

PassStarts ==
    /\ pass.pc = "idle" /\ record.passes < MaxPasses[part]
    /\ pass' = [pc |-> "syncing", latest |-> HeadBlock]
    /\ record' = [record EXCEPT !.passes = @ + 1]
    /\ UNCHANGED <<part, chain, sync, cache, reports, shown, buckets>>

Cursor == IF sync.block = 0 THEN DeployBlock ELSE sync.block

RecordedError == [sync EXCEPT !.error = TRUE]

(* The writes at the end of runIndexerOnce, of which a crash leaves the    *)
(* first ones.                                                             *)
Recorded(writes) ==
    LET block == IF Cursor >= pass.latest THEN sync.block ELSE pass.latest
    IN [block |-> IF writes >= 1 THEN block ELSE sync.block,
        at |-> IF writes >= 2 THEN Now ELSE sync.at,
        error |-> IF writes >= 3 THEN FALSE ELSE sync.error]

PassSucceeds ==
    /\ pass.pc = "syncing"
    /\ sync' = Recorded(3) /\ pass' = NoPass
    /\ record' = [record EXCEPT !.success = Now, !.failed = FALSE]
    /\ UNCHANGED <<part, chain, cache, reports, shown, buckets>>

PassFails ==
    /\ pass.pc = "syncing" /\ Fails
    /\ sync' = RecordedError /\ pass' = NoPass
    /\ record' = [FailedOnce EXCEPT !.failed = TRUE]
    /\ UNCHANGED <<part, chain, cache, reports, shown, buckets>>

(* A crash, also between those writes; sync_state is what remains.         *)
Restart ==
    /\ record.restarts < MaxRestarts[part]
    /\ \E writes \in IF pass.pc = "syncing" THEN 0..2 ELSE {0} :
         /\ sync' = Recorded(writes)
         /\ record' = [record EXCEPT !.restarts = @ + 1, !.success = IF writes > 0 THEN Now ELSE @]
    /\ pass' = NoPass /\ cache' = NoCaches
    /\ reports' = [r \in Routes |-> NotBuilding]
    /\ UNCHANGED <<part, chain, shown, buckets>>

-----------------------------------------------------------------------------
(* The report.                                                             *)

FreshHead(entry) == entry.at # 0 /\ Now - entry.at < HeadTTL
FreshBalance(entry) == entry.at # 0 /\ Now - entry.at < BalanceTTL

\* An entry without its time.
Value(entry) == [entry EXCEPT !.at = 0]

(* getHead and getIssuerBalance, as far as their cache.                    *)
StartReport(r) ==
    /\ reports[r].pc = "idle" /\ record.reports < MaxReports[part]
    /\ reports' = [reports EXCEPT ![r] =
         [pc |-> "reading", since |-> Now,
          head |-> Value(cache.head), headPc |-> IF FreshHead(cache.head) THEN "have" ELSE "asked",
          balance |-> Value(cache.balance), balancePc |-> IF FreshBalance(cache.balance) THEN "have" ELSE "asked"]]
    /\ record' = [record EXCEPT !.reports = @ + 1]
    /\ UNCHANGED <<part, chain, sync, pass, cache, shown, buckets>>

\* Mutant: the failure is not noted.
HeadFailedQuietly(r) == [reports[r].head EXCEPT !.at = Now]

(* A read that failed keeps the block that was cached when it started.     *)
HeadFailed(r) == [reports[r].head EXCEPT !.ok = FALSE, !.at = Now]

(* The node answers.                                                       *)
HeadServed(r) ==
    /\ reports[r].headPc = "asked"
    /\ reports' = [reports EXCEPT ![r].head = [block |-> HeadBlock, ok |-> TRUE, at |-> 0], ![r].headPc = "served"]
    /\ UNCHANGED <<part, chain, sync, pass, cache, shown, buckets, record>>

HeadArrives(r) ==
    /\ reports[r].headPc = "served"
    /\ reports' = [reports EXCEPT ![r].headPc = "have"]
    /\ cache' = [cache EXCEPT !.head = [reports[r].head EXCEPT !.at = Now]]
    /\ UNCHANGED <<part, chain, sync, pass, shown, buckets, record>>

HeadFails(r) ==
    /\ reports[r].headPc = "asked" /\ Fails
    /\ reports' = [reports EXCEPT ![r].head = Value(HeadFailed(r)), ![r].headPc = "have"]
    /\ cache' = [cache EXCEPT !.head = HeadFailed(r)]
    /\ record' = FailedOnce
    /\ UNCHANGED <<part, chain, sync, pass, shown, buckets>>

(* A failure keeps the last known balance.                                 *)
BalanceArrives(r) ==
    /\ reports[r].balancePc = "asked"
    /\ \E ok \in BOOLEAN :
         LET entry == [level |-> IF ok THEN chain[Now].balance ELSE cache.balance.level, ok |-> ok, at |-> Now] IN
         /\ (~ok => Fails)
         /\ reports' = [reports EXCEPT ![r].balance = Value(entry), ![r].balancePc = "have"]
         /\ cache' = [cache EXCEPT !.balance = entry]
         /\ record' = IF ok THEN record ELSE FailedOnce
    /\ UNCHANGED <<part, chain, sync, pass, shown, buckets>>

ClassifyIssuer(balance) ==
    IF ~balance.ok THEN "warn"
    ELSE CASE balance.level = 0 -> "error" [] balance.level = 1 -> "warn" [] balance.level = 2 -> "ok"

\* Mutant: does not look at the time of the last sync.
ClassifyLag(lag, sinceSync, error) ==
    IF error \/ lag > LagWarn THEN "error" ELSE IF lag > LagOk THEN "warn" ELSE "ok"

Classify(lag, sinceSync, error) ==
    IF error \/ sinceSync > SyncWarn \/ lag > LagWarn THEN "error"
    ELSE IF sinceSync > SyncOk \/ lag > LagOk THEN "warn" ELSE "ok"

Worst(a, b) == IF "error" \in {a, b} THEN "error" ELSE IF "warn" \in {a, b} THEN "warn" ELSE "ok"

Report(b, dbOk) ==
    LET lag == IF b.head.ok /\ b.head.block > sync.block THEN b.head.block - sync.block ELSE 0
        sinceSync == IF sync.at = 0 THEN -1 ELSE Now - sync.at
        indexer == IF ~b.head.ok THEN "error" ELSE Classify(lag, sinceSync, sync.error)
        base == IF ~dbOk THEN "error" ELSE indexer
        issuer == ClassifyIssuer(b.balance)
    IN [status |-> Worst(base, issuer), indexer |-> indexer, issuer |-> issuer, lag |-> lag,
        block |-> sync.block, sinceSync |-> sinceSync, error |-> sync.error, rpc |-> b.head.ok]

(* buildPrometheusMetrics.                                                 *)
Gauge(status) == CASE status = "ok" -> 0 [] status = "warn" -> 1 [] status = "error" -> 2

Metrics(report) ==
    [health |-> Gauge(report.status), lag |-> report.lag, last_block |-> report.block,
     seconds_since_sync |-> report.sinceSync, last_error |-> IF report.error THEN 1 ELSE 0,
     testnet_up |-> IF report.rpc THEN 1 ELSE 0, issuer |-> Gauge(report.issuer)]

HasBoth(r) == reports[r].pc = "reading" /\ reports[r].headPc = "have" /\ reports[r].balancePc = "have"

(* The indicator shows what its poll is answered.                          *)
BuildReport(r) ==
    /\ HasBoth(r)
    /\ \E dbOk \in BOOLEAN :
         LET report == Report(reports[r], dbOk) IN
         /\ (~dbOk => Fails)
         /\ shown' = IF r = "healthz" THEN [status |-> report.status, indexer |-> report.indexer] ELSE shown
         /\ record' = IF dbOk THEN record ELSE FailedOnce
    /\ reports' = [reports EXCEPT ![r] = NotBuilding]
    /\ UNCHANGED <<part, chain, sync, pass, cache, buckets>>

(* 503: sync_state cannot be read; or the answer is lost.                  *)
ReportFails(r) ==
    /\ HasBoth(r) /\ Fails
    /\ shown' = IF r = "healthz" THEN [status |-> "unreachable", indexer |-> "none"] ELSE shown
    /\ record' = FailedOnce
    /\ reports' = [reports EXCEPT ![r] = NotBuilding]
    /\ UNCHANGED <<part, chain, sync, pass, cache, buckets>>

-----------------------------------------------------------------------------
(* rateAllow of server.ts, called by GET /api/issuers.                     *)

Expired(stamp) == stamp < Now - RateWindow

BucketOf(c) == {k \in DOMAIN buckets : buckets[k].client = c}

(* A new client takes the place of the one that has been here longest.     *)
WithBucket(c) ==
    IF BucketOf(c) # {} THEN buckets
    ELSE Append(IF Len(buckets) >= MaxKeys THEN Tail(buckets) ELSE buckets, [client |-> c, stamps |-> << >>])

(* The stamps at the front that are out of the window are shifted away.     *)
Shifted(stamps) ==
    CHOOSE n \in 0..Len(stamps) :
        /\ \A i \in 1..n : Expired(stamps[i])
        /\ n < Len(stamps) => ~Expired(stamps[n + 1])
Kept(stamps) == SubSeq(stamps, Shifted(stamps) + 1, Len(stamps))

RateAllow(c) ==
    /\ part = "limit"
    /\ LET old == WithBucket(c)
           pruned == [k \in DOMAIN old |-> IF old[k].client = c THEN [old[k] EXCEPT !.stamps = Kept(@)] ELSE old[k]]
           mine == CHOOSE k \in DOMAIN old : old[k].client = c
           allowed == Len(pruned[mine].stamps) < RateLimit
       IN /\ buckets' = IF allowed THEN [pruned EXCEPT ![mine].stamps = Append(@, Now)] ELSE pruned
          /\ record' = [record EXCEPT !.allowed =
                 [d \in Clients |-> IF \A k \in DOMAIN old : old[k].client # d THEN << >>
                                    ELSE IF d = c /\ allowed THEN Append(@[d], Now) ELSE @[d]]]
    /\ UNCHANGED <<part, chain, sync, pass, cache, reports, shown>>

HealthNext ==
    \/ TimeGoesOn \/ PassStarts \/ PassSucceeds \/ PassFails \/ Restart
    \/ \E r \in Routes : StartReport(r) \/ HeadServed(r) \/ HeadArrives(r) \/ HeadFails(r)
                         \/ BalanceArrives(r) \/ BuildReport(r) \/ ReportFails(r)
    \/ \E c \in Clients : RateAllow(c)

HealthSpec == HealthInit /\ [][HealthNext]_healthVars

-----------------------------------------------------------------------------
HealthTypeOK ==
    /\ Now \in 1..MaxNow /\ sync.at \in 0..Now /\ sync.block \in 0..HeadBlock
    /\ cache.head.at \in 0..Now /\ cache.head.block \in 0..HeadBlock /\ cache.balance.level \in Levels
    /\ \A r \in Routes : reports[r].headPc \in {"asked", "served", "have"} /\ reports[r].since \in 0..Now
    /\ Len(buckets) <= MaxKeys

Before(t, ago) == IF t > ago THEN t - ago ELSE 1

(* Whatever the caches held and however the reads overlapped: a report of  *)
(* "ok" is at most LagOk blocks behind the head of a few seconds ago, came *)
(* after a pass that did not fail and with a balance that was fine a       *)
(* little ago.  The gauges of a scrape say the same.                       *)
OkIsCurrent ==
    \A r \in Routes : HasBoth(r) =>
        LET gauges == Metrics(Report(reports[r], TRUE))
        IN gauges.health = 0 =>
             /\ chain[Before(Now, HeadTTL - 1 + 2 * RpcMax)].head - gauges.last_block <= LagOk
             /\ chain[Before(Now, BalanceTTL - 1 + RpcMax)].balance = 2
             /\ gauges.last_error = 0 /\ gauges.testnet_up = 1 /\ gauges.issuer = 0

(* indexer.ts:84: "last_synced_at is intentionally NOT updated -           *)
(* secondsSinceSync should keep growing".  The report that can be built is *)
(* an error when the last pass that ended failed and, once a pass was      *)
(* recorded, when none succeeded for SyncWarn, over restarts between the   *)
(* writes of a pass.                                                       *)
StallShows ==
    \A r \in Routes :
        (HasBoth(r) /\ (record.failed \/ (sync.at # 0 /\ Now - record.success > SyncWarn))) =>
            Report(reports[r], TRUE).status = "error"

(* No client is allowed more than the limit in any window while it has its *)
(* bucket.                                                                 *)
RateBounded ==
    \A c \in Clients : \A i \in DOMAIN record.allowed[c] :
        Cardinality({j \in 1..i : record.allowed[c][j] >= record.allowed[c][i] - RateWindow}) <= RateLimit

(* The parts that say what a client may rely on at any moment.             *)
HealthInv == HealthTypeOK /\ StallShows /\ RateBounded
=============================================================================
