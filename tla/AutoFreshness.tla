--------------------------- MODULE AutoFreshness ---------------------------
(***************************************************************************)
(* backend/src/auto-freshness.ts: the loop that posts a freshness leaf for *)
(* every approved KYC row, with its table freshness_leaves (db.ts), the    *)
(* registry it posts to and the crashes, lost answers and write failures   *)
(* between them.                                                           *)
(*                                                                         *)
(* JavaScript runs to completion between awaits: an action is the code     *)
(* from one await to the next.  A task is one call of tick() (the startup  *)
(* task calls bootstrap() first); several can be suspended at an await at  *)
(* the same time.  The leaf of a row is Poseidon(commitment, reviewed_at), *)
(* which identifies the row: rows stand for leaves, and a sequence of rows *)
(* for the Merkle root of the tree with these leaves (computeRoot).        *)
(***************************************************************************)
EXTENDS FreshnessRegistry, FiniteSets

CONSTANTS Requests,        \* kyc_requests rows that carry a freshness commitment
          GroupOf,         \* GroupOf[r]: CREDENTIAL_TYPE_TO_GROUP of the row
          CommitmentOf,    \* CommitmentOf[r]: its freshness_commitment
          GroupOrder,      \* Object.values(CONFIG.groups)
          Wallet,          \* the backend's issuer wallet
          Tasks, Startup,  \* calls of tick() at a time; Startup is the one made at startup
          NoTask,
          AuthorisedFirst, \* groups the owner authorises the wallet for before the first start
          GrantedLater,    \* groups the owner may authorise it for at any time
          Revocable,       \* of these, the ones he may take from it again
          QuickRestart,    \* a restart can be over before a sent transaction is mined
          FaultPoints,     \* calls that may fail: "boot", "send", "reply", "db"
          MaxFaults,       \* bound: failing calls
          MaxCrashes       \* bound: crashes of the process

ASSUME AutoFreshnessAssumption ==
    /\ GroupOf \in [Requests -> Groups]
    /\ GroupOrder \in Seq(Groups)
    /\ \A n \in 1..MaxLeafCount : [1..n -> Requests] \subseteq Roots
    /\ Wallet \in Accounts
    /\ Startup \in Tasks
    /\ NoTask \notin Tasks
    /\ Revocable \subseteq GrantedLater
    /\ QuickRestart \in BOOLEAN
    /\ FaultPoints \subseteq {"boot", "send", "reply", "db"}
    /\ MaxFaults \in Nat
    /\ MaxCrashes \in Nat

VARIABLES reviewed,  \* approved rows, by reviewed_at
          leafRows,  \* leafRows[g]: the freshness_leaves of group g, by leaf_index
          up,        \* the process is running
          state,     \* the task whose bootstrap built the current `state' map, or NoTask
          mem,       \* mem[t][g]: the GroupState objects that bootstrap of t built
          running,
          pc, todo,  \* where a task stands; the groups or rows it still has to go through
          job,       \* what it is posting or comparing
          mempool,   \* transactions sent and not yet mined, in nonce order
          faults, crashes

dbVars == <<reviewed, leafRows>>
taskVars == <<state, mem, running, pc, todo, job>>
budgetVars == <<faults, crashes>>
vars == <<registryVars, dbVars, up, taskVars, mempool, budgetVars>>

GroupState == [authorised : BOOLEAN, leaves : Seq(Requests)]
NoJob == [gen |-> NoTask, root |-> << >>, outcome |-> "none"]

TypeOK ==
    /\ RegistryTypeOK
    /\ reviewed \in Seq(Requests)
    /\ leafRows \in [Groups -> Seq(Requests)]
    /\ up \in BOOLEAN /\ running \in BOOLEAN
    /\ state \in Tasks \cup {NoTask}
    /\ mem \in [Tasks -> [Groups -> GroupState]]
    /\ pc \in [Tasks -> {"idle", "rebuild", "reconcile", "reading", "booted", "loop", "waiting"}]
    /\ faults \in 0..MaxFaults
    /\ crashes \in 0..MaxCrashes

NoMemory ==
    /\ state' = NoTask
    /\ mem' = [t \in Tasks |-> [g \in Groups |-> [authorised |-> FALSE, leaves |-> << >>]]]
    /\ running' = FALSE
    /\ job' = [t \in Tasks |-> NoJob]

Init ==
    /\ RegistryInit
    /\ reviewed = << >>
    /\ leafRows = [g \in Groups |-> << >>]
    /\ up = FALSE
    /\ state = NoTask
    /\ mem = [t \in Tasks |-> [g \in Groups |-> [authorised |-> FALSE, leaves |-> << >>]]]
    /\ running = FALSE
    /\ pc = [t \in Tasks |-> "idle"]
    /\ todo = [t \in Tasks |-> << >>]
    /\ job = [t \in Tasks |-> NoJob]
    /\ mempool = << >>
    /\ faults = 0
    /\ crashes = 0

-----------------------------------------------------------------------------
(* The environment: owner, reviewers, the chain, the process *)

Grant(g) ==
    /\ g \in GrantedLater \/ (g \in AuthorisedFirst /\ ~up)
    /\ ~groupIssuer[g][Wallet]
    /\ AuthorizeIssuer(registryOwner, g, Wallet)
    /\ UNCHANGED <<dbVars, up, taskVars, mempool, budgetVars>>

Withdraw(g) ==
    /\ g \in Revocable
    /\ groupIssuer[g][Wallet]
    /\ RevokeIssuer(registryOwner, g, Wallet)
    /\ UNCHANGED <<dbVars, up, taskVars, mempool, budgetVars>>

(* updateKYCStatus(id, 'approved', ...), by the reviewer or the auto-issuer. *)
Approve(r) ==
    /\ \A i \in DOMAIN reviewed : reviewed[i] # r
    /\ reviewed' = Append(reviewed, r)
    /\ UNCHANGED <<registryVars, leafRows, up, taskVars, mempool, budgetVars>>

(* The oldest transaction is mined; it reverts if the wallet lost its role.  *)
(* Its sender, if it still waits for it, gets the receipt.                   *)
Mine ==
    LET tx == Head(mempool)
        Receipt(o) == job' = IF tx.awaited THEN [job EXCEPT ![tx.by].outcome = o] ELSE job
    IN  /\ mempool # << >>
        /\ mempool' = Tail(mempool)
        /\ IF groupIssuer[tx.group][Wallet]
             THEN AddLeaf(Wallet, tx.group, tx.root) /\ Receipt("mined")
             ELSE Receipt("reverted") /\ UNCHANGED registryVars
        /\ UNCHANGED <<dbVars, up, state, mem, running, pc, todo, budgetVars>>

(* startAutoFreshness: bootstrap().then(tick).  A transaction takes a few    *)
(* seconds to be mined, so most restarts find none on its way.               *)
Start ==
    /\ ~up
    /\ QuickRestart \/ mempool = << >>
    /\ \A g \in AuthorisedFirst : groupIssuer[g][Wallet]
    /\ up' = TRUE
    /\ pc' = [pc EXCEPT ![Startup] = "rebuild"]
    /\ todo' = [todo EXCEPT ![Startup] = GroupOrder]
    /\ UNCHANGED <<registryVars, dbVars, state, mem, running, job, mempool, budgetVars>>

(* Everything in memory is lost; a transaction that was sent is not. *)
Crash ==
    /\ up
    /\ crashes < MaxCrashes
    /\ crashes' = crashes + 1
    /\ up' = FALSE
    /\ NoMemory
    /\ pc' = [t \in Tasks |-> "idle"]
    /\ todo' = [t \in Tasks |-> << >>]
    /\ mempool' = [i \in DOMAIN mempool |-> [mempool[i] EXCEPT !.awaited = FALSE]]
    /\ UNCHANGED <<registryVars, dbVars, faults>>

(* A call fails, within the budget. *)
Fault(point) ==
    /\ point \in FaultPoints
    /\ faults < MaxFaults
    /\ faults' = faults + 1
    /\ UNCHANGED crashes

-----------------------------------------------------------------------------
(* bootstrap() *)

(* rebuildState, one group: read its rows, then ask groupIssuer. *)
RebuildGroup(t) ==
    /\ pc[t] = "rebuild"
    /\ todo[t] # << >>
    /\ LET g == Head(todo[t])
           Read(ok) == mem' = [mem EXCEPT ![t][g] = [authorised |-> ok, leaves |-> leafRows[g]]]
       IN  \/ Read(groupIssuer[g][Wallet]) /\ UNCHANGED budgetVars
           \/ Read(FALSE) /\ Fault("boot")
    /\ todo' = [todo EXCEPT ![t] = Tail(@)]
    /\ UNCHANGED <<registryVars, dbVars, up, state, running, pc, job, mempool>>

(* `state = await rebuildState(...)': other tasks see the new map before     *)
(* reconcileRoots has looked at it.                                          *)
PublishState(t) ==
    /\ pc[t] = "rebuild"
    /\ todo[t] = << >>
    /\ state' = t
    /\ pc' = [pc EXCEPT ![t] = "reconcile"]
    /\ todo' = [todo EXCEPT ![t] = GroupOrder]
    /\ UNCHANGED <<registryVars, dbVars, up, mem, running, job, mempool, budgetVars>>

(* Mutant: a divergence is logged and posting goes on. *)
CompareAndIgnore(t) ==
    /\ pc[t] = "reading"
    /\ pc' = [pc EXCEPT ![t] = "reconcile"]
    /\ todo' = [todo EXCEPT ![t] = Tail(@)]
    /\ UNCHANGED <<registryVars, dbVars, up, state, mem, running, job, mempool, budgetVars>>

(* reconcileRoots, one group: one without leaves is skipped; for the others  *)
(* the local root is computed and currentRoot is asked for ...               *)
AskRoot(t) ==
    /\ pc[t] = "reconcile"
    /\ todo[t] # << >>
    /\ LET leaves == mem[t][Head(todo[t])].leaves
       IN  IF leaves = << >>
             THEN todo' = [todo EXCEPT ![t] = Tail(@)] /\ UNCHANGED <<pc, job>>
             ELSE /\ job' = [job EXCEPT ![t].root = leaves]
                  /\ pc' = [pc EXCEPT ![t] = "reading"]
                  /\ UNCHANGED todo
    /\ UNCHANGED <<registryVars, dbVars, up, state, mem, running, mempool, budgetVars>>

(* ... and compared: on a difference, or no answer, the group is disabled.   *)
CompareRoot(t) ==
    /\ pc[t] = "reading"
    /\ LET g == Head(todo[t])
       IN  \/ /\ mem' = [mem EXCEPT ![t][g].authorised = @ /\ currentRoot[g] = job[t].root]
              /\ UNCHANGED budgetVars
           \/ /\ mem' = [mem EXCEPT ![t][g].authorised = FALSE]
              /\ Fault("boot")
    /\ pc' = [pc EXCEPT ![t] = "reconcile"]
    /\ todo' = [todo EXCEPT ![t] = Tail(@)]
    /\ UNCHANGED <<registryVars, dbVars, up, state, running, job, mempool>>

Booted(t) ==
    /\ pc[t] = "reconcile"
    /\ todo[t] = << >>
    /\ pc' = [pc EXCEPT ![t] = "booted"]
    /\ UNCHANGED <<registryVars, dbVars, up, state, mem, running, todo, job, mempool, budgetVars>>

-----------------------------------------------------------------------------
(* tick() *)

(* The commitment of the row has a leaf in some group.                       *)
Recorded(r) ==
    \E g \in Groups : \E i \in DOMAIN leafRows[g] : CommitmentOf[leafRows[g][i]] = CommitmentOf[r]

(* getPendingFreshnessIssuances: the approved rows without one, in order.    *)
Pending ==
    LET among[n \in 0..Len(reviewed)] ==
            IF n = 0 THEN << >>
            ELSE IF Recorded(reviewed[n]) THEN among[n - 1]
            ELSE Append(among[n - 1], reviewed[n])
    IN  among[Len(reviewed)]

EnterLoop(t) ==
    /\ running' = TRUE
    /\ pc' = [pc EXCEPT ![t] = "loop"]
    /\ todo' = [todo EXCEPT ![t] = Pending]

(* The interval fires: nothing while another tick runs, a bootstrap when     *)
(* there is no state yet (one may be under way), a pass over the rows        *)
(* otherwise.                                                                *)
Tick(t) ==
    /\ up
    /\ pc[t] = "idle"
    /\ ~running
    /\ \/ /\ state = NoTask
          /\ t # Startup
          /\ pc' = [pc EXCEPT ![t] = "rebuild"]
          /\ todo' = [todo EXCEPT ![t] = GroupOrder]
          /\ UNCHANGED running
       \/ /\ state # NoTask
          /\ Pending # << >>
          /\ EnterLoop(t)
    /\ UNCHANGED <<registryVars, dbVars, up, state, mem, job, mempool, budgetVars>>

(* After its bootstrap the startup task calls tick(), which looks at         *)
(* `running'; a tick that had to bootstrap goes on without looking again.    *)
TickAfterBoot(t) ==
    /\ pc[t] = "booted"
    /\ IF t = Startup /\ running
         THEN pc' = [pc EXCEPT ![t] = "idle"] /\ UNCHANGED <<running, todo>>
         ELSE EnterLoop(t)
    /\ UNCHANGED <<registryVars, dbVars, up, state, mem, job, mempool, budgetVars>>

(* Mutant: the guard against overlapping ticks is not released. *)
LeaveStillRunning(t) ==
    /\ pc' = [pc EXCEPT ![t] = "idle"]
    /\ todo' = [todo EXCEPT ![t] = << >>]
    /\ UNCHANGED running

Leave(t) ==
    /\ running' = FALSE
    /\ pc' = [pc EXCEPT ![t] = "idle"]
    /\ todo' = [todo EXCEPT ![t] = << >>]

EndTick(t) ==
    /\ pc[t] = "loop"
    /\ todo[t] = << >>
    /\ Leave(t)
    /\ UNCHANGED <<registryVars, dbVars, up, state, mem, job, mempool, budgetVars>>

(* A row of a group that is not authorised is left for a later tick. *)
SkipRow(t) ==
    /\ pc[t] = "loop"
    /\ todo[t] # << >>
    /\ ~mem[state][GroupOf[Head(todo[t])]].authorised
    /\ todo' = [todo EXCEPT ![t] = Tail(@)]
    /\ UNCHANGED <<registryVars, dbVars, up, state, mem, running, pc, job, mempool, budgetVars>>

(* postLeaf up to tx.wait(): gas estimation, sending, the hash coming back;  *)
(* an error in any of them ends the tick.                                    *)
SendLeaf(t) ==
    /\ pc[t] = "loop"
    /\ todo[t] # << >>
    /\ LET r == Head(todo[t])
           g == GroupOf[r]
           root == Append(mem[state][g].leaves, r)
           Sent(awaited) == mempool' = Append(mempool,
               [group |-> g, root |-> root, by |-> t, awaited |-> awaited])
       IN  /\ mem[state][g].authorised
           /\ \/ /\ groupIssuer[g][Wallet]
                 /\ Sent(TRUE)
                 /\ job' = [job EXCEPT ![t] = [gen |-> state, root |-> root, outcome |-> "sent"]]
                 /\ pc' = [pc EXCEPT ![t] = "waiting"]
                 /\ UNCHANGED <<running, todo, budgetVars>>
              \/ /\ groupIssuer[g][Wallet]
                 /\ Fault("reply")
                 /\ Sent(FALSE)
                 /\ Leave(t)
                 /\ UNCHANGED job
              \/ /\ \/ ~groupIssuer[g][Wallet] /\ UNCHANGED budgetVars
                    \/ Fault("send")
                 /\ Leave(t)
                 /\ UNCHANGED <<mempool, job>>
    /\ UNCHANGED <<registryVars, dbVars, up, state, mem>>

(* Mutant: the row is inserted as soon as the transaction is sent. *)
RecordLeafOnceSent(t) ==
    LET r == Head(todo[t])
        g == GroupOf[r]
    IN  /\ pc[t] = "waiting"
        /\ leafRows' = [leafRows EXCEPT ![g] = Append(@, r)]
        /\ mem' = [mem EXCEPT ![job[t].gen][g].leaves = Append(@, r)]
        /\ pc' = [pc EXCEPT ![t] = "loop"]
        /\ todo' = [todo EXCEPT ![t] = Tail(@)]
        /\ job' = [job EXCEPT ![t] = NoJob]
        /\ UNCHANGED <<registryVars, reviewed, up, state, running, mempool, budgetVars>>

(* The receipt is in: insert the row, under the index the leaf had in memory *)
(* (the primary key), then extend the in-memory mirror; if the row cannot be *)
(* written, disable the group.                                               *)
RecordLeaf(t) ==
    LET r == Head(todo[t])
        g == GroupOf[r]
        gen == job[t].gen
        index == Len(mem[gen][g].leaves) + 1
    IN  /\ pc[t] = "waiting"
        /\ job[t].outcome = "mined"
        /\ \/ /\ index = Len(leafRows[g]) + 1
              /\ leafRows' = [leafRows EXCEPT ![g] = Append(@, r)]
              /\ mem' = [mem EXCEPT ![gen][g].leaves = Append(@, r)]
              /\ pc' = [pc EXCEPT ![t] = "loop"]
              /\ todo' = [todo EXCEPT ![t] = Tail(@)]
              /\ UNCHANGED <<running, budgetVars>>
           \/ /\ \/ index # Len(leafRows[g]) + 1 /\ UNCHANGED budgetVars
                 \/ Fault("db")
              /\ mem' = [mem EXCEPT ![gen][g].authorised = FALSE]
              /\ Leave(t)
              /\ UNCHANGED leafRows
        /\ job' = [job EXCEPT ![t] = NoJob]
        /\ UNCHANGED <<registryVars, reviewed, up, state, mempool>>

(* The transaction reverted: the tick ends. *)
PostReverted(t) ==
    /\ pc[t] = "waiting"
    /\ job[t].outcome = "reverted"
    /\ job' = [job EXCEPT ![t] = NoJob]
    /\ Leave(t)
    /\ UNCHANGED <<registryVars, dbVars, up, state, mem, mempool, budgetVars>>

TaskStep(t) ==
    \/ RebuildGroup(t) \/ PublishState(t) \/ AskRoot(t) \/ CompareRoot(t) \/ Booted(t)
    \/ Tick(t) \/ TickAfterBoot(t) \/ EndTick(t)
    \/ SkipRow(t) \/ SendLeaf(t) \/ RecordLeaf(t) \/ PostReverted(t)

Next ==
    \/ \E g \in Groups : Grant(g) \/ Withdraw(g)
    \/ \E r \in Requests : Approve(r)
    \/ Mine
    \/ Start
    \/ Crash
    \/ \E t \in Tasks : TaskStep(t)

Spec == Init /\ [][Next]_vars

(* The interval keeps firing, promises settle, transactions are mined, the   *)
(* process manager starts the process and the deployment's owner authorises  *)
(* the wallet for the groups it is deployed with.                            *)
FairSpec ==
    /\ Spec
    /\ \A g \in AuthorisedFirst : WF_vars(Grant(g))
    /\ WF_vars(Start)
    /\ WF_vars(Mine)
    /\ \A t \in Tasks : WF_vars(TaskStep(t))

-----------------------------------------------------------------------------
(* Properties *)

LeafOf(root) == root[Len(root)]

(* Once a group has a recorded leaf, no crash, failed write or failed call   *)
(* makes the backend post a commitment to it twice: a second copy of a leaf  *)
(* is always a new first leaf.                                               *)
DuplicatesOnlyFirst ==
    \A g \in Groups : \A i, j \in DOMAIN posted[g] :
        i < j /\ CommitmentOf[LeafOf(posted[g][i])] = CommitmentOf[LeafOf(posted[g][j])]
            => Len(posted[g][j]) = 1

(* "posting a new root that doesn't extend the on-chain tree silently breaks *)
(* everyone's proofs": every posted root is the previous one with one leaf   *)
(* added, unless it is a first leaf again.                                   *)
RootsExtend ==
    \A g \in Groups : \A i \in DOMAIN posted[g] :
        \/ Len(posted[g][i]) = 1
        \/ i > 1 /\ SubSeq(posted[g][i], 1, Len(posted[g][i]) - 1) = posted[g][i - 1]

(* What the loop has posted at any moment, over crashes and failures.        *)
LoopInv == TypeOK /\ DuplicatesOnlyFirst /\ RootsExtend

(* The tree GET /api/freshness/state serves (rebuilt from freshness_leaves)  *)
(* has a root the registry accepts: a user's Merkle path is never built      *)
(* against a root the chain has not seen or has already evicted.  It holds   *)
(* as long as one tick runs at a time.                                       *)
ServedRootKnown ==
    \A g \in Groups : leafRows[g] # << >> => IsKnownRoot(g, leafRows[g])

(* A leaf that is served was mined in the tree of its group: "ordered        *)
(* append-only log of leaves the auto-freshness module has posted"           *)
(* (db.ts:83), whatever answers are lost and whatever ticks overlap.         *)
LeavesWerePosted ==
    \A g \in Groups : \A i \in DOMAIN leafRows[g] :
        \E k \in DOMAIN posted[g] :
            leafRows[g][i] \in {posted[g][k][j] : j \in DOMAIN posted[g][k]}

(* Every row that is approved gets its leaf recorded in its group.           *)
ApprovedServed ==
    \A r \in Requests :
        (\E i \in DOMAIN reviewed : reviewed[i] = r)
            ~> \E i \in DOMAIN leafRows[GroupOf[r]] :
                   CommitmentOf[leafRows[GroupOf[r]][i]] = CommitmentOf[r]

-----------------------------------------------------------------------------
(* What the comments say and the code does not do *)

(* auto-freshness.ts:10-12 "so we never double-post".                        *)
NeverDoublePost ==
    \A g \in Groups : \A i, j \in DOMAIN posted[g] :
        CommitmentOf[LeafOf(posted[g][i])] = CommitmentOf[LeafOf(posted[g][j])] => i = j
=============================================================================
