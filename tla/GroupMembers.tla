---------------------------- MODULE GroupMembers ----------------------------
(***************************************************************************)
(* The members of one credential group as the passport contract keeps      *)
(* them, and the two programs that rebuild them from its events: the       *)
(* backend's indexer (indexer.ts with the tables credentials and           *)
(* sync_state of db.ts) and the SDK (index.ts, react.tsx).                 *)
(*                                                                         *)
(* A Merkle root stands for the sequence of leaves it commits to.  A block *)
(* is visible as a whole once it is mined and never replaced.              *)
(***************************************************************************)
EXTENDS Integers, Sequences, FiniteSets, SequencesExt

CONSTANTS Commitments,
          None,
          ChunkSize,     \* CONFIG.blockChunkSize
          PageSize,      \* queryFilterPaged: PAGE_SIZE
          RootWindow,    \* Semaphore's merkleTreeDuration, in blocks
          Traded,        \* bound: commitments the issuers act on
          MaxBlocks,     \* bound: blocks mined
          MaxFaults      \* bound: crashes of the backend and failed queries

ASSUME GroupMembersAssumption ==
    /\ None \notin Commitments
    /\ ChunkSize \in Nat \ {0} /\ PageSize \in Nat \ {0}
    /\ RootWindow \in Nat /\ MaxBlocks \in Nat /\ MaxFaults \in Nat

VARIABLES log,         \* the events of the group, oldest first
          head,        \* number of the last mined block
          rows,        \* credentials: the row of a commitment
          lastBlock,   \* sync_state last_block
          syncError,   \* sync_state last_sync_error is not empty
          indexer,     \* the pass of the indexer under way
          sdk,         \* the SDK call under way
          faults       \* bound: faults so far

chainVars == <<log, head>>
indexVars == <<rows, lastBlock, syncError, indexer>>
groupVars == <<log, head, rows, lastBlock, syncError, indexer, sdk, faults>>

-----------------------------------------------------------------------------
(* The contract's group. *)

Issued == "CredentialIssued"
Revoked == "CredentialRevoked"
Event == [kind : {Issued, Revoked}, commitment : Commitments, block : 1..MaxBlocks]

PositionOf(leaves, c) == SelectInSeq(leaves, LAMBDA leaf : leaf = c)
RemoveMember(leaves, c) ==
    IF PositionOf(leaves, c) = 0 THEN leaves
    ELSE [leaves EXCEPT ![PositionOf(leaves, c)] = None]
ApplyToTree(leaves, e) ==
    IF e.kind = Issued THEN Append(leaves, e.commitment)
    ELSE RemoveMember(leaves, e.commitment)
Tree(events) ==
    LET leaves[n \in 0..Len(events)] ==
            IF n = 0 THEN <<>> ELSE ApplyToTree(leaves[n - 1], events[n])
    IN  leaves[Len(events)]

(* The log is in the order of its blocks.                                   *)
EventsUpTo(b) == SubSeq(log, 1, Cardinality({i \in DOMAIN log : log[i].block <= b}))
OnChain == Tree(log)
ActiveOnChain == ToSet(OnChain) \ {None}
Roots == {Tree(SubSeq(log, 1, n)) : n \in 1..Len(log)}

(* verifyProof accepts the current root and those created at most a window  *)
(* ago.                                                                     *)
RootAccepted(tree) ==
    \/ tree = OnChain /\ tree # <<>>
    \/ \E n \in 1..Len(log) : /\ tree = Tree(SubSeq(log, 1, n))
                              /\ log[n].block + RootWindow >= head

(* Transactions of the issuers, one or two to a block.                      *)
Transaction(c, b, leaves) ==
    [kind |-> IF PositionOf(leaves, c) = 0 THEN Issued ELSE Revoked,
     commitment |-> c, block |-> b]

MineBlock(events) ==
    /\ head < MaxBlocks
    /\ head' = head + 1
    /\ log' = log \o events
    /\ UNCHANGED <<rows, lastBlock, syncError, indexer, sdk, faults>>

OneTransaction ==
    \E c \in Traded : MineBlock(<<Transaction(c, head + 1, OnChain)>>)

TwoTransactions ==
    \E c, d \in Traded :
        LET e == Transaction(c, head + 1, OnChain)
        IN  MineBlock(<<e, Transaction(d, head + 1, ApplyToTree(OnChain, e))>>)

Matches(e, kind, from, to) == e.kind = kind /\ e.block >= from /\ e.block <= to
Query(kind, from, to) ==
    LET found[n \in 0..Len(log)] ==
            IF n = 0 THEN <<>>
            ELSE IF Matches(log[n], kind, from, to) THEN Append(found[n - 1], log[n]) ELSE found[n - 1]
    IN  found[Len(log)]

-----------------------------------------------------------------------------
(* The indexer. *)

NoRow == [at |-> 0, active |-> FALSE]
Idle == [pc |-> "idle", from |-> 0, latest |-> 0, todo |-> <<>>]

InsertCredential(table, e) ==
    IF table[e.commitment] # NoRow THEN table
    ELSE [table EXCEPT ![e.commitment] = [at |-> e.block, active |-> TRUE]]

DeactivateCredential(table, e) ==
    IF table[e.commitment] = NoRow THEN table
    ELSE [table EXCEPT ![e.commitment].active = FALSE]

StoreEvent(table, e) ==
    IF e.kind = Issued THEN InsertCredential(table, e) ELSE DeactivateCredential(table, e)

ActiveMembers == {c \in Commitments : rows[c].active}

(* Mutant: the cursor is written before the ranges are stored. *)
StartPassMovingCursor ==
    /\ indexer.pc = "idle" /\ lastBlock < head
    /\ indexer' = [pc |-> "query", from |-> lastBlock, latest |-> head, todo |-> <<>>]
    /\ lastBlock' = head
    /\ UNCHANGED <<log, head, rows, syncError, sdk, faults>>

StartPass ==
    /\ indexer.pc = "idle"
    /\ IF lastBlock >= head
       THEN syncError' = FALSE /\ UNCHANGED indexer
       ELSE /\ indexer' = [pc |-> "query", from |-> lastBlock, latest |-> head, todo |-> <<>>]
            /\ UNCHANGED syncError
    /\ UNCHANGED <<log, head, rows, lastBlock, sdk, faults>>

ChunkEnd(from, latest) ==
    IF from + ChunkSize - 1 < latest THEN from + ChunkSize - 1 ELSE latest

(* Mutant: revocations of a range are stored before its issuances. *)
RangeEventsRevokedFirst(from, to) == Query(Revoked, from, to) \o Query(Issued, from, to)

RangeEvents(from, to) == Query(Issued, from, to) \o Query(Revoked, from, to)

SyncRange ==
    /\ indexer.pc = "query"
    /\ LET to == ChunkEnd(indexer.from, indexer.latest)
       IN  indexer' = [indexer EXCEPT !.pc = "store", !.from = to + 1,
                                      !.todo = RangeEvents(indexer.from, to)]
    /\ UNCHANGED <<log, head, rows, lastBlock, syncError, sdk, faults>>

StoreNext ==
    /\ indexer.pc = "store" /\ indexer.todo # <<>>
    /\ rows' = StoreEvent(rows, Head(indexer.todo))
    /\ indexer' = [indexer EXCEPT !.todo = Tail(@)]
    /\ UNCHANGED <<log, head, lastBlock, syncError, sdk, faults>>

NextChunk ==
    /\ indexer.pc = "store" /\ indexer.todo = <<>> /\ indexer.from <= indexer.latest
    /\ indexer' = [indexer EXCEPT !.pc = "query"]
    /\ UNCHANGED <<log, head, rows, lastBlock, syncError, sdk, faults>>

EndPass ==
    /\ indexer.pc = "store" /\ indexer.todo = <<>> /\ indexer.from > indexer.latest
    /\ lastBlock' = indexer.latest
    /\ syncError' = FALSE
    /\ indexer' = Idle
    /\ UNCHANGED <<log, head, rows, sdk, faults>>

FailPass ==
    /\ indexer.pc = "query" /\ faults < MaxFaults
    /\ faults' = faults + 1
    /\ syncError' = TRUE
    /\ indexer' = Idle
    /\ UNCHANGED <<log, head, rows, lastBlock, sdk>>

Crash ==
    /\ indexer # Idle /\ faults < MaxFaults
    /\ faults' = faults + 1
    /\ indexer' = Idle
    /\ UNCHANGED <<log, head, rows, lastBlock, syncError, sdk>>

IndexerStep == StartPass \/ SyncRange \/ StoreNext \/ NextChunk \/ EndPass
IndexerNext == IndexerStep \/ FailPass \/ Crash

-----------------------------------------------------------------------------
(* The SDK.  The scans for the two kinds of events run side by side, each   *)
(* with a latest block of its own.                                          *)

NoCall == [call |-> "none", as |-> None, latest |-> [k \in {Issued, Revoked} |-> -1],
           pc |-> "ready", result |-> <<>>]

(* Page k ends at block k * PageSize, the last one at the latest block.     *)
PageEnd(k, latest) == IF k * PageSize < latest THEN k * PageSize ELSE latest
QueryFilterPaged(kind, latest) ==
    LET pages == (latest + PageSize - 1) \div PageSize
        read[k \in 0..pages] ==
            IF k = 0 THEN <<>>
            ELSE read[k - 1] \o Query(kind, (k - 1) * PageSize + 1, PageEnd(k, latest))
    IN  read[pages]

StartCall(call, c) ==
    /\ sdk.pc \in {"ready", "failed", "verified", "listed"}
    /\ sdk' = [NoCall EXCEPT !.call = call, !.as = c, !.pc = "scan"]
    /\ UNCHANGED <<log, head, rows, lastBlock, syncError, indexer, faults>>

ReadLatest(kind) ==
    /\ sdk.pc = "scan" /\ sdk.latest[kind] = -1
    /\ sdk' = [sdk EXCEPT !.latest[kind] = head]
    /\ UNCHANGED <<log, head, rows, lastBlock, syncError, indexer, faults>>

Scanned == sdk.pc = "scan" /\ \A k \in {Issued, Revoked} : sdk.latest[k] >= 0
ScannedEvents(kind) == QueryFilterPaged(kind, sdk.latest[kind])

GroupMembersOf(issued, revoked) ==
    LET gone == {revoked[i].commitment : i \in DOMAIN revoked}
        listed[n \in 0..Len(issued)] ==
            IF n = 0 THEN <<>>
            ELSE IF issued[n].commitment \in gone THEN listed[n - 1]
            ELSE Append(listed[n - 1], issued[n].commitment)
    IN  listed[Len(issued)]

BuildGroup(issued, revoked) == Tree(issued \o revoked)

ListMembers ==
    /\ Scanned /\ sdk.call = "members"
    /\ sdk' = [sdk EXCEPT !.pc = "listed",
                          !.result = GroupMembersOf(ScannedEvents(Issued), ScannedEvents(Revoked))]
    /\ UNCHANGED <<log, head, rows, lastBlock, syncError, indexer, faults>>

(* generateProof: "no members" and "not a member" are errors of the call.   *)
GenerateProof ==
    /\ Scanned /\ sdk.call = "prove"
    /\ LET tree == BuildGroup(ScannedEvents(Issued), ScannedEvents(Revoked))
       IN  sdk' = [sdk EXCEPT !.pc = IF sdk.as \notin ToSet(tree) THEN "failed" ELSE "proved",
                              !.result = tree]
    /\ UNCHANGED <<log, head, rows, lastBlock, syncError, indexer, faults>>

CallFails ==
    /\ sdk.pc \in {"scan", "proved"} /\ faults < MaxFaults
    /\ faults' = faults + 1
    /\ sdk' = [sdk EXCEPT !.pc = "failed"]
    /\ UNCHANGED <<log, head, rows, lastBlock, syncError, indexer>>

(* Mutant: the gate opens for every proof the library returns. *)
GateTrusts ==
    /\ sdk.pc = "proved"
    /\ sdk' = [sdk EXCEPT !.pc = "verified"]
    /\ UNCHANGED <<log, head, rows, lastBlock, syncError, indexer, faults>>

(* HSKPassportGate: onVerified or onError.                                  *)
GateVerifies ==
    /\ sdk.pc = "proved"
    /\ sdk' = [sdk EXCEPT !.pc = IF RootAccepted(sdk.result) THEN "verified" ELSE "failed"]
    /\ UNCHANGED <<log, head, rows, lastBlock, syncError, indexer, faults>>

SDKNext ==
    \/ \E c \in Commitments : StartCall("prove", c)
    \/ StartCall("members", None)
    \/ \E kind \in {Issued, Revoked} : ReadLatest(kind)
    \/ ListMembers \/ GenerateProof \/ CallFails \/ GateVerifies
=============================================================================
