-------------------------- MODULE IssuerDirectory --------------------------
(***************************************************************************)
(* The backend's issuer directory (issuers.ts): GET /api/issuers and       *)
(* GET /api/registry/governance over the mainnet IssuerRegistry, with a    *)
(* cache of the list, a bounded cache of metadata and a bounded number of  *)
(* parallel reads.  Handlers interleave at every await.                    *)
(***************************************************************************)
EXTENDS IssuerRegistry, SequencesExt

CONSTANTS ListCalls,        \* requests for the list that may be open together
          RegistryTimelock, \* the governor that answers getMinDelay
          UriKind,          \* UriKind[u]: what the text of a URI is
          Concurrency,      \* FETCH_CONCURRENCY
          CacheMax,         \* METADATA_CACHE_MAX
          ListTTL, GovernanceTTL, MetadataTTL,
          LoadBound,        \* bound: how long an RPC or DNS answer takes, at most
          MaxTime           \* bound: time

ASSUME DirectoryAssumption ==
    /\ Concurrency \in Nat \ {0} /\ CacheMax \in Nat \ {0}
    /\ {ListTTL, GovernanceTTL, MetadataTTL, LoadBound} \subseteq Nat /\ MaxTime \in Nat \ {0}
    /\ UriKind \in [URIs -> {"https", "ipfs", "bad ipfs", "http", "private host"}]
    /\ RegistryTimelock \in Governors

VARIABLES rpcChain,        \* the chain behind MAINNET_RPC_URL
          chainIdChecked,
          site,            \* what the host of a URI answers
          listCache,       \* the rows served, and fetchedAt
          metadataCache,   \* entries, least recently used first
          call,            \* a request for the list
          governance,      \* the request for the governance state under way
          governanceCache,
          time

directoryVars == <<rpcChain, chainIdChecked, site, listCache, metadataCache, call,
                   governance, governanceCache, time>>

\* "refused" stands for a redirect, a status that is not ok, HTML, more than
\* 32 KB, text that is not JSON and a document validateMetadata refuses.
Answers == {"document", "refused", "hangs"}
Metadata == {"document"}
NoMetadata == [doc |-> "none", at |-> 0]
Found == [doc : Metadata \cup {"none"}, at : Nat]
Row == [addr : Issuers, active : BOOLEAN, readAt : Nat, meta : Found]
Item == [i : Nat, step : {"record", "metadata"}, row : Row, uri : URIs \cup {NoURI}]
Idle == [pc |-> "idle", list |-> <<>>, cursor |-> 0, work |-> {}, rows |-> <<>>, since |-> 0]
NoList == [rows |-> <<>>, size |-> 0, at |-> 0]
NoRoles == [owner |-> Deployer, slashing |-> Deployer, ownerIsTimelock |-> FALSE,
            slashingIsTimelock |-> FALSE, at |-> 0]
GovernanceSteps == {"idle", "chain", "owner", "slashing", "probe owner", "probe slashing"}

\* isHostSafe, resolveIPFS and the scheme check come before any request.
UriRejected(uri) == UriKind[uri] \in {"bad ipfs", "http", "private host"}

DirectoryTypeOK ==
    /\ rpcChain \in {"mainnet", "another"} /\ chainIdChecked \in BOOLEAN
    /\ site \in [URIs -> Answers]
    /\ listCache.at \in 0..MaxTime
    /\ \A i \in DOMAIN listCache.rows : listCache.rows[i] \in Row
    /\ Len(metadataCache) <= CacheMax
    /\ \A i, j \in DOMAIN metadataCache :
           metadataCache[i].uri = metadataCache[j].uri => i = j
    /\ \A r \in ListCalls :
           /\ call[r].pc \in {"idle", "chain", "list", "rows", "failed"}
           /\ call[r].work \subseteq Item /\ Cardinality(call[r].work) <= Concurrency
    /\ governance.pc \in GovernanceSteps
    /\ governanceCache \in [owner : Governors, slashing : Governors, ownerIsTimelock : BOOLEAN,
                            slashingIsTimelock : BOOLEAN, at : 0..MaxTime]
    /\ time \in 1..MaxTime

DirectoryInit ==
    /\ rpcChain \in {"mainnet", "another"} /\ chainIdChecked = FALSE
    /\ site \in {s \in [URIs -> Answers] : \A u \in URIs : UriRejected(u) => s[u] = "refused"}
    /\ listCache = NoList /\ metadataCache = <<>>
    /\ call = [r \in ListCalls |-> Idle]
    /\ governance = [pc |-> "idle", since |-> 0, payload |-> NoRoles]
    /\ governanceCache = NoRoles
    /\ time = 1

-----------------------------------------------------------------------------
(* The bounded cache of metadata (class LRUCache).                         *)

Entry(uri) == {i \in DOMAIN metadataCache : metadataCache[i].uri = uri}
At(uri) == CHOOSE i \in Entry(uri) : TRUE

\* Map.delete: a URI has one entry at most.
Without(uri) == IF Entry(uri) = {} THEN metadataCache ELSE RemoveAt(metadataCache, At(uri))
CacheGet(uri) == IF Entry(uri) = {} THEN metadataCache
                 ELSE Append(Without(uri), metadataCache[At(uri)])

CacheSetOnly(uri, doc) == Append(Without(uri), [uri |-> uri, doc |-> doc, at |-> time])

CacheSet(uri, doc) ==
    LET full == CacheSetOnly(uri, doc)
    IN IF Len(full) > CacheMax THEN Tail(full) ELSE full

\* fetchMetadata returns the entry, also of a failed fetch, while it is young.
Young(uri) == {i \in Entry(uri) : time - metadataCache[i].at < MetadataTTL}
Cached(uri) == LET e == metadataCache[CHOOSE i \in Young(uri) : TRUE] IN [doc |-> e.doc, at |-> e.at]

\* The answer read in at most 5 s and 32 KB, parsed and validated.
Accepted(answer) == IF answer \in Metadata THEN answer ELSE "none"

-----------------------------------------------------------------------------
(* GET /api/issuers.                                                       *)

ListFresh == listCache.at # 0 /\ time - listCache.at < ListTTL

\* A hit is answered at once and changes nothing.
ServeCached(r) ==
    /\ call[r].pc = "idle" /\ ListFresh
    /\ UNCHANGED directoryVars

ServeList(r) == ServeCached(r)

\* Nothing stops two requests from loading at the same time.
BeginLoad(r) ==
    /\ call[r].pc = "idle" /\ ~ListFresh
    /\ call' = [call EXCEPT ![r] = [Idle EXCEPT !.pc = IF chainIdChecked THEN "list" ELSE "chain",
                                                !.since = time]]
    /\ UNCHANGED <<rpcChain, chainIdChecked, site, listCache, metadataCache, governance,
                   governanceCache, time>>

ChainAnswers(r) ==
    /\ call[r].pc = "chain"
    /\ IF rpcChain = "mainnet"
       THEN chainIdChecked' = TRUE /\ call' = [call EXCEPT ![r].pc = "list"]
       ELSE UNCHANGED chainIdChecked /\ call' = [call EXCEPT ![r] = Idle]
    /\ UNCHANGED <<rpcChain, site, listCache, metadataCache, governance, governanceCache, time>>

NewItem(list, i) ==
    [i |-> i, step |-> "record", uri |-> NoURI,
     row |-> [addr |-> list[i], active |-> FALSE, readAt |-> 0, meta |-> NoMetadata]]

\* The stake requirements and the list; as many workers as there may be start.
ReadList(r) ==
    /\ call[r].pc = "list"
    /\ LET n == IF Len(issuerList) < Concurrency THEN Len(issuerList) ELSE Concurrency
       IN call' = [call EXCEPT ![r].pc = "rows", ![r].list = issuerList, ![r].cursor = n,
                               ![r].work = {NewItem(issuerList, i) : i \in 1..n},
                               ![r].rows = [i \in 1..Len(issuerList) |-> {}]]
    /\ UNCHANGED <<rpcChain, chainIdChecked, site, listCache, metadataCache, governance,
                   governanceCache, time>>

\* Mutant: a worker with the result of its item; without taking the next one.
FinishedLast(c, w, row) == [c EXCEPT !.work = @ \ {w}, !.rows[w.i] = {row}]

\* A worker stores the result of its item and takes the next one.
Finished(c, w, row) ==
    IF c.cursor < Len(c.list)
    THEN [c EXCEPT !.work = (@ \ {w}) \cup {NewItem(c.list, c.cursor + 1)},
                   !.cursor = @ + 1, !.rows[w.i] = {row}]
    ELSE [c EXCEPT !.work = @ \ {w}, !.rows[w.i] = {row}]

\* The record and the reputation of an issuer, and then its metadata if the
\* cache has it or it has none.
ReadRecord(r, w) ==
    /\ w.step = "record"
    /\ LET a == w.row.addr
           row == [w.row EXCEPT !.active = issuers[a].active, !.readAt = time]
           uri == issuers[a].metadataURI
       IN \/ /\ uri = NoURI
             /\ call' = [call EXCEPT ![r] = Finished(@, w, row)]
             /\ UNCHANGED metadataCache
          \/ /\ uri # NoURI /\ Young(uri) # {}
             /\ call' = [call EXCEPT ![r] = Finished(@, w, [row EXCEPT !.meta = Cached(uri)])]
             /\ metadataCache' = CacheGet(uri)
          \/ /\ uri # NoURI /\ Young(uri) = {} /\ UriRejected(uri)
             /\ call' = [call EXCEPT ![r] =
                    Finished(@, w, [row EXCEPT !.meta = [doc |-> "none", at |-> time]])]
             /\ metadataCache' = CacheSet(uri, "none")
          \/ /\ uri # NoURI /\ Young(uri) = {} /\ ~UriRejected(uri)
             /\ call' = [call EXCEPT ![r].work =
                    (@ \ {w}) \cup {[w EXCEPT !.step = "metadata", !.row = row, !.uri = uri]}]
             /\ metadataCache' = CacheGet(uri)
    /\ UNCHANGED <<rpcChain, chainIdChecked, site, listCache, governance, governanceCache, time>>

\* Mutant: a fetch without its AbortController.
FetchNeverAborts(r, w) ==
    /\ w.step = "metadata" /\ site[w.uri] # "hangs"
    /\ call' = [call EXCEPT ![r] =
           Finished(@, w, [w.row EXCEPT !.meta = [doc |-> Accepted(site[w.uri]), at |-> time]])]
    /\ metadataCache' = CacheSet(w.uri, Accepted(site[w.uri]))
    /\ UNCHANGED <<rpcChain, chainIdChecked, site, listCache, governance, governanceCache, time>>

\* The host answers, or the fetch is aborted; either is cached.
FetchMetadata(r, w) ==
    /\ w.step = "metadata"
    /\ call' = [call EXCEPT ![r] =
           Finished(@, w, [w.row EXCEPT !.meta = [doc |-> Accepted(site[w.uri]), at |-> time]])]
    /\ metadataCache' = CacheSet(w.uri, Accepted(site[w.uri]))
    /\ UNCHANGED <<rpcChain, chainIdChecked, site, listCache, governance, governanceCache, time>>

\* A call of the RPC fails: the request is answered 502; the other workers go
\* on with the rest of the list for nobody.
RpcFails(r) ==
    /\ \/ /\ call[r].pc \in {"chain", "list"}
          /\ call' = [call EXCEPT ![r] = Idle]
       \/ /\ call[r].pc \in {"rows", "failed"}
          /\ \E w \in call[r].work :
                 /\ w.step = "record"
                 /\ call' = [call EXCEPT ![r].pc = "failed", ![r].work = @ \ {w}]
    /\ UNCHANGED <<rpcChain, chainIdChecked, site, listCache, metadataCache, governance,
                   governanceCache, time>>

\* The list is stored and served, whatever the cache holds by now.
EndLoad(r) ==
    /\ call[r].work = {}
    /\ call[r].pc \in {"rows", "failed"}
    /\ listCache' = IF call[r].pc = "rows"
                    THEN [rows |-> [i \in DOMAIN call[r].rows |-> CHOOSE row \in call[r].rows[i] : TRUE],
                          size |-> Len(call[r].list), at |-> time]
                    ELSE listCache
    /\ call' = [call EXCEPT ![r] = Idle]
    /\ UNCHANGED <<rpcChain, chainIdChecked, site, metadataCache, governance, governanceCache, time>>

LoadStep(r) ==
    \/ ChainAnswers(r)
    \/ ReadList(r)
    \/ \E w \in call[r].work : ReadRecord(r, w)
    \/ \E w \in call[r].work : FetchMetadata(r, w)
    \/ EndLoad(r)

-----------------------------------------------------------------------------
(* GET /api/registry/governance.                                           *)

GovernanceFresh == governanceCache.at # 0 /\ time - governanceCache.at < GovernanceTTL

GoTo(pc) == governance' = [governance EXCEPT !.pc = pc]

BeginGovernance ==
    /\ governance.pc = "idle" /\ ~GovernanceFresh
    /\ governance' = [pc |-> IF chainIdChecked THEN "owner" ELSE "chain", since |-> time,
                      payload |-> NoRoles]
    /\ UNCHANGED <<rpcChain, chainIdChecked, site, listCache, metadataCache, call,
                   governanceCache, time>>

GovernanceChain ==
    /\ governance.pc = "chain"
    /\ IF rpcChain = "mainnet" THEN chainIdChecked' = TRUE /\ GoTo("owner")
                               ELSE UNCHANGED chainIdChecked /\ GoTo("idle")
    /\ UNCHANGED <<rpcChain, site, listCache, metadataCache, call, governanceCache, time>>

\* Two reads, which may see different blocks.
ReadRoles ==
    /\ \/ /\ governance.pc = "owner"
          /\ governance' = [governance EXCEPT !.pc = "slashing", !.payload.owner = owner]
       \/ /\ governance.pc = "slashing"
          /\ governance' = [governance EXCEPT !.pc = "probe owner",
                                              !.payload.slashing = slashingAuthority]
    /\ UNCHANGED <<rpcChain, chainIdChecked, site, listCache, metadataCache, call,
                   governanceCache, time>>

\* probeIsTimelock: a failed call counts as no timelock.
Probe(x) == IF x = RegistryTimelock THEN {TRUE, FALSE} ELSE {FALSE}

ProbeOwner ==
    /\ governance.pc = "probe owner"
    /\ \E is \in Probe(governance.payload.owner) :
           governance' = [governance EXCEPT !.pc = "probe slashing", !.payload.ownerIsTimelock = is]
    /\ UNCHANGED <<rpcChain, chainIdChecked, site, listCache, metadataCache, call,
                   governanceCache, time>>

EndGovernance ==
    /\ governance.pc = "probe slashing"
    /\ \E is \in Probe(governance.payload.slashing) :
           governanceCache' = [governance.payload EXCEPT !.slashingIsTimelock = is, !.at = time]
    /\ GoTo("idle")
    /\ UNCHANGED <<rpcChain, chainIdChecked, site, listCache, metadataCache, call, time>>

GovernanceFails ==
    /\ governance.pc \in {"chain", "owner", "slashing"}
    /\ GoTo("idle")
    /\ UNCHANGED <<rpcChain, chainIdChecked, site, listCache, metadataCache, call,
                   governanceCache, time>>

-----------------------------------------------------------------------------
(* Time.                                                                   *)

Since == {call[r].since : r \in {q \in ListCalls : call[q].pc # "idle"}}
         \cup (IF governance.pc = "idle" THEN {} ELSE {governance.since})

TimePasses ==
    /\ time < MaxTime
    /\ \A s \in Since : time - s < LoadBound
    /\ time' = time + 1
    /\ UNCHANGED <<rpcChain, chainIdChecked, site, listCache, metadataCache, call,
                   governance, governanceCache>>

DirectoryNext ==
    \/ \E r \in ListCalls : ServeList(r) \/ BeginLoad(r) \/ RpcFails(r) \/ LoadStep(r)
    \/ BeginGovernance \/ GovernanceChain \/ ReadRoles \/ ProbeOwner
    \/ EndGovernance \/ GovernanceFails
    \/ TimePasses

DirectorySpec ==
    /\ RegistryInit /\ DirectoryInit
    /\ [][\/ DirectoryNext /\ UNCHANGED registryVars
          \/ RegistryNext /\ UNCHANGED directoryVars]_<<registryVars, directoryVars>>

-----------------------------------------------------------------------------
(* Every list served has one row per account registered when it was read,  *)
(* in the order of the registry, whichever worker finished first and       *)
(* however many requests were loading.                                     *)
ListComplete ==
    /\ Len(listCache.rows) = listCache.size
    /\ \A i \in DOMAIN listCache.rows : i <= Len(issuerList)
           /\ listCache.rows[i].addr = issuerList[i]
    /\ \A r \in ListCalls : call[r].pc = "rows" /\ call[r].work = {}
           => \A i \in DOMAIN call[r].rows : call[r].rows[i] # {}

(* What a request gets was read from the chain at most a TTL and one load  *)
(* ago, and its metadata fetched at most a second TTL before that, also    *)
(* when a slow load overwrote the list of a faster one.                    *)
ServedRecent ==
    \A i \in DOMAIN listCache.rows :
        LET row == listCache.rows[i]
            got == row.meta
        IN ListFresh => /\ time - row.readAt < ListTTL + LoadBound
                        /\ got.doc # "none" => time - got.at < MetadataTTL + ListTTL + LoadBound

(* Nothing is ever served from an RPC of another chain: the check is made  *)
(* once, and requests that arrive while it is under way wait for it.       *)
NoOtherChain == rpcChain # "mainnet" => listCache.at = 0 /\ governanceCache.at = 0

(* A role is shown as behind the timelock only if the address shown with   *)
(* it is the timelock, also when the roles change between the reads and a  *)
(* probe fails.                                                            *)
GovernanceHonest ==
    /\ governanceCache.ownerIsTimelock => governanceCache.owner = RegistryTimelock
    /\ governanceCache.slashingIsTimelock => governanceCache.slashing = RegistryTimelock

(* Every load ends, whatever the hosts of the issuers answer or do not.    *)
LoadsEnd == \A r \in ListCalls : call[r].pc # "idle" ~> call[r].pc = "idle"

(* What the directory's caches satisfy at any moment.                      *)
DirectoryInv == DirectoryTypeOK /\ ListComplete /\ ServedRecent /\ NoOtherChain /\ GovernanceHonest
=============================================================================
