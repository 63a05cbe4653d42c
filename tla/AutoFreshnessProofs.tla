------------------------ MODULE AutoFreshnessProofs ------------------------
(***************************************************************************)
(* What the freshness loop records was mined: for any rows, groups and     *)
(* tasks, any number of failing calls and crashes, and restarts as quick   *)
(* as they may be. With one tick at a time, the trees it posts extend each *)
(* other, repeat no leaf but a first one, and the tree it serves is one    *)
(* the registry knows.                                                     *)
(***************************************************************************)
EXTENDS AutoFreshness, SequenceTheorems, NaturalsInduction, WellFoundedInduction, TLAPS

Pcs == {"idle", "rebuild", "reconcile", "reading", "booted", "loop", "waiting"}
PublishedPcs == {"reconcile", "reading", "booted", "loop", "waiting"}
JobFields == {"gen", "root", "outcome"}
TransactionFields == {"group", "root", "by", "awaited"}

(* A sequence, whatever its elements are: which rows a pass holds matters   *)
(* only to the theorems of one tick at a time.                             *)
ElementsOf(s) == {s[j] : j \in DOMAIN s}
IsList(s) == s \in Seq(ElementsOf(s))

IsMemory(m) ==
    /\ DOMAIN m = Tasks
    /\ \A t \in Tasks :
        /\ DOMAIN m[t] = Groups
        /\ \A g \in Groups : DOMAIN m[t][g] = {"authorised", "leaves"} /\ IsList(m[t][g].leaves)

JobGroup(t) == GroupOf[Head(todo[t])]

LoopTyped ==
    /\ DOMAIN posted = Groups /\ \A g \in Groups : IsList(posted[g])
    /\ DOMAIN leafRows = Groups /\ \A g \in Groups : IsList(leafRows[g])
    /\ state \in Tasks \cup {NoTask} /\ IsMemory(mem)
    /\ pc \in [Tasks -> Pcs] /\ DOMAIN todo = Tasks
    /\ DOMAIN job = Tasks /\ \A t \in Tasks : DOMAIN job[t] = JobFields
    /\ IsList(mempool)
    /\ \A i \in DOMAIN mempool : DOMAIN mempool[i] = TransactionFields /\ mempool[i].by \in Tasks

OnlyWhileUp == up \/ \A t \in Tasks : pc[t] = "idle"

(* A task past its bootstrap works with a map that was published.          *)
HasState == \A t \in Tasks : pc[t] \in PublishedPcs => state \in Tasks

(* What a task waits for is a tree with the leaf of its row in it, and once *)
(* the receipt is in, that tree was posted to the group of the row.        *)
WaitsForItsRow ==
    \A t \in Tasks : pc[t] = "waiting" /\ JobGroup(t) \in Groups =>
        /\ Head(todo[t]) \in ElementsOf(job[t].root)
        /\ job[t].outcome = "mined" => job[t].root \in ElementsOf(posted[JobGroup(t)])

(* A transaction whose sender waits is the one the sender waits for, and   *)
(* there is one of them.                                                   *)
AwaitedBySender ==
    \A i \in DOMAIN mempool : mempool[i].awaited =>
        /\ pc[mempool[i].by] = "waiting"
        /\ job[mempool[i].by].outcome = "sent"
        /\ mempool[i].group = JobGroup(mempool[i].by)
        /\ mempool[i].root = job[mempool[i].by].root
        /\ \A j \in DOMAIN mempool : mempool[j].awaited /\ mempool[j].by = mempool[i].by => j = i

LoopIInv ==
    /\ LoopTyped
    /\ OnlyWhileUp
    /\ HasState
    /\ WaitsForItsRow
    /\ AwaitedBySender
    /\ LeavesWerePosted

LEMMA Assumptions == NoTask \notin Tasks /\ Startup \in Tasks
BY AutoFreshnessAssumption DEF AutoFreshnessAssumption

-----------------------------------------------------------------------------
(* Lists *)

LEMMA EmptyIsList == IsList(<< >>)
<1>1. ElementsOf(<< >>) = {} /\ << >> \in Seq({})
  BY DEF ElementsOf
<1> QED BY <1>1 DEF IsList

(* What Append leaves where it was, and adds. *)
LEMMA AppendKeeps ==
    ASSUME NEW s, IsList(s), NEW e
    PROVE  /\ IsList(Append(s, e))
           /\ ElementsOf(Append(s, e)) = ElementsOf(s) \cup {e}
           /\ \A i \in DOMAIN Append(s, e) :
                  (i \in DOMAIN s /\ Append(s, e)[i] = s[i]) \/ Append(s, e)[i] = e
           /\ \A i \in DOMAIN s : i \in DOMAIN Append(s, e) /\ Append(s, e)[i] = s[i]
           /\ Len(s) + 1 \in DOMAIN Append(s, e) /\ Append(s, e)[Len(s) + 1] = e
           /\ \A i \in DOMAIN Append(s, e) : i \in DOMAIN s \/ i = Len(s) + 1
           /\ Len(s) + 1 \notin DOMAIN s
<1> DEFINE S == ElementsOf(s) \cup {e}
           a == Append(s, e)
<1>1. s \in Seq(S)
  <2>1. s \in Seq(ElementsOf(s))
    BY DEF IsList
  <2> HIDE DEF S
  <2>2. ElementsOf(s) \subseteq S
    BY DEF S
  <2> QED BY <2>1, <2>2
<1>2. e \in S
  OBVIOUS
<1> HIDE DEF S
<1>3. /\ a \in Seq(S) /\ Len(s) \in Nat
      /\ DOMAIN a = 1..(Len(s) + 1) /\ DOMAIN s = 1..Len(s)
      /\ \A i \in 1..Len(s) : a[i] = s[i]
      /\ a[Len(s) + 1] = e
  BY <1>1, <1>2
<1> HIDE DEF a
<1>4. \A i \in DOMAIN a : (i \in DOMAIN s /\ a[i] = s[i]) \/ (i = Len(s) + 1 /\ a[i] = e)
  BY <1>3
<1>5. \A i \in DOMAIN s : i \in DOMAIN a /\ a[i] = s[i]
  BY <1>3
<1>6. Len(s) + 1 \in DOMAIN a /\ Len(s) + 1 \notin DOMAIN s
  BY <1>3
<1>7. ElementsOf(a) = ElementsOf(s) \cup {e}
  BY <1>3, <1>4, <1>5, <1>6 DEF ElementsOf
<1>8. IsList(a)
  BY <1>3, <1>7 DEF IsList, S
<1> QED BY <1>3, <1>4, <1>5, <1>6, <1>7, <1>8 DEF a

LEMMA AppendIsList ==
    ASSUME NEW s, IsList(s), NEW e PROVE IsList(Append(s, e))
BY AppendKeeps

LEMMA AppendElements ==
    ASSUME NEW s, IsList(s), NEW e PROVE ElementsOf(Append(s, e)) = ElementsOf(s) \cup {e}
BY AppendKeeps

LEMMA TailKeeps ==
    ASSUME NEW s, IsList(s), s # << >>
    PROVE  /\ IsList(Tail(s))
           /\ \A i \in DOMAIN Tail(s) : i + 1 \in DOMAIN s /\ i + 1 # 1 /\ Tail(s)[i] = s[i + 1]
           /\ \A i, j \in DOMAIN Tail(s) : i + 1 = j + 1 => i = j
           /\ 1 \in DOMAIN s /\ Head(s) = s[1]
<1> DEFINE S == ElementsOf(s)
           w == Tail(s)
<1>1. s \in Seq(S)
  BY DEF IsList
<1> HIDE DEF S
<1>2. Len(s) \in Nat /\ Len(s) # 0 /\ DOMAIN s = 1..Len(s)
  BY <1>1
<1>3. w \in Seq(S) /\ Len(w) = Len(s) - 1 /\ Head(s) = s[1]
      /\ \A i \in 1..Len(w) : w[i] = s[i + 1]
  BY <1>1, HeadTailProperties
<1> HIDE DEF w
<1>4. DOMAIN w = 1..(Len(s) - 1)
  BY <1>2, <1>3
<1>5. IsList(w)
  <2> DEFINE n == Len(w)
  <2>1. n \in Nat /\ DOMAIN w = 1..n /\ w = [i \in 1..n |-> w[i]]
    BY <1>3
  <2> HIDE DEF n
  <2>2. \A i \in 1..n : w[i] \in ElementsOf(w)
    BY <2>1 DEF ElementsOf
  <2>3. w \in [1..n -> ElementsOf(w)]
    BY <2>1, <2>2
  <2> QED BY <2>1, <2>3, SeqDef DEF IsList
<1>6. \A i \in DOMAIN w : i + 1 \in DOMAIN s /\ i + 1 # 1 /\ w[i] = s[i + 1]
  BY <1>2, <1>3, <1>4
<1>7. \A i, j \in DOMAIN w : i + 1 = j + 1 => i = j
  BY <1>2, <1>4
<1>8. 1 \in DOMAIN s /\ Head(s) = s[1]
  BY <1>2, <1>3
<1> QED BY <1>5, <1>6, <1>7, <1>8 DEF w

-----------------------------------------------------------------------------
(* Memory *)

(* A GroupState object is replaced ... *)
LEMMA MemoryRebuilt ==
    ASSUME IsMemory(mem), NEW t \in Tasks, NEW g, NEW a, NEW l, g \in Groups => IsList(l)
    PROVE  IsMemory([mem EXCEPT ![t][g] = [authorised |-> a, leaves |-> l]])
<1> DEFINE o == [authorised |-> a, leaves |-> l]
           m == [mem EXCEPT ![t][g] = o]
<1>1. DOMAIN o = {"authorised", "leaves"} /\ o.leaves = l
  OBVIOUS
<1> HIDE DEF o
<1>2. /\ DOMAIN m = Tasks
      /\ \A u \in Tasks : DOMAIN m[u] = Groups
      /\ \A u \in Tasks : \A h \in Groups : m[u][h] = IF u = t /\ h = g THEN o ELSE mem[u][h]
  BY DEF IsMemory
<1> HIDE DEF m
<1> QED BY <1>1, <1>2 DEF IsMemory, m

(* ... or a field of it set, ... *)
LEMMA MemoryAuthorised ==
    ASSUME IsMemory(mem), NEW t, NEW g, NEW a
    PROVE  IsMemory([mem EXCEPT ![t][g].authorised = a])
<1> DEFINE m == [mem EXCEPT ![t][g].authorised = a]
<1>1. /\ DOMAIN m = Tasks
      /\ \A u \in Tasks : DOMAIN m[u] = Groups
      /\ \A u \in Tasks : \A h \in Groups :
             m[u][h] = IF u = t /\ h = g THEN [mem[u][h] EXCEPT !.authorised = a] ELSE mem[u][h]
  BY DEF IsMemory
<1>2. \A u \in Tasks : \A h \in Groups :
          DOMAIN m[u][h] = {"authorised", "leaves"} /\ m[u][h].leaves = mem[u][h].leaves
  <2> HIDE DEF m
  <2> TAKE u \in Tasks
  <2> TAKE h \in Groups
  <2> DEFINE f == mem[u][h]
             e == [f EXCEPT !.authorised = a]
  <2>1. DOMAIN f = {"authorised", "leaves"}
    BY DEF IsMemory
  <2>2. DOMAIN e = {"authorised", "leaves"} /\ e.leaves = f.leaves
    <3> HIDE DEF f
    <3> QED BY <2>1
  <2>3. m[u][h] = e \/ m[u][h] = f
    BY <1>1
  <2> HIDE DEF e
  <2> QED BY <2>1, <2>2, <2>3
<1> HIDE DEF m
<1> QED BY <1>1, <1>2 DEF IsMemory, m

(* ... or a leaf appended to it. *)
LEMMA MemoryExtended ==
    ASSUME IsMemory(mem), NEW t, NEW g, NEW r
    PROVE  IsMemory([mem EXCEPT ![t][g].leaves = Append(@, r)])
<1> DEFINE m == [mem EXCEPT ![t][g].leaves = Append(@, r)]
<1>1. /\ DOMAIN m = Tasks
      /\ \A u \in Tasks : DOMAIN m[u] = Groups
      /\ \A u \in Tasks : \A h \in Groups :
             m[u][h] = IF u = t /\ h = g THEN [mem[u][h] EXCEPT !.leaves = Append(@, r)] ELSE mem[u][h]
  BY DEF IsMemory
<1>2. \A u \in Tasks : \A h \in Groups : DOMAIN m[u][h] = {"authorised", "leaves"}
          /\ IsList(m[u][h].leaves)
  <2> HIDE DEF m
  <2> TAKE u \in Tasks
  <2> TAKE h \in Groups
  <2> DEFINE f == mem[u][h]
             e == [f EXCEPT !.leaves = Append(@, r)]
  <2>1. DOMAIN f = {"authorised", "leaves"} /\ IsList(f.leaves)
    BY DEF IsMemory
  <2>2. DOMAIN e = {"authorised", "leaves"} /\ e.leaves = Append(f.leaves, r)
    <3> HIDE DEF f
    <3> QED BY <2>1
  <2>3. IsList(e.leaves)
    <3> HIDE DEF e, f
    <3> QED BY <2>1, <2>2, AppendKeeps
  <2>4. m[u][h] = e \/ m[u][h] = f
    BY <1>1
  <2> HIDE DEF e
  <2> QED BY <2>1, <2>2, <2>3, <2>4
<1> HIDE DEF m
<1> QED BY <1>1, <1>2 DEF IsMemory, m

LEMMA NothingInMemory ==
    ASSUME mem' = [t \in Tasks |-> [g \in Groups |-> [authorised |-> FALSE, leaves |-> << >>]]]
    PROVE  IsMemory(mem')
BY EmptyIsList DEF IsMemory

-----------------------------------------------------------------------------
LEMMA LoopStarts == ASSUME Init PROVE LoopIInv
<1> USE Assumptions DEF Init
<1>1. IsMemory(mem)
  BY EmptyIsList DEF IsMemory
<1>2. mempool = << >> /\ DOMAIN mempool = {}
  OBVIOUS
<1>3. \A g \in Groups : posted[g] = << >> /\ leafRows[g] = << >>
  BY DEF RegistryInit
<1>4. LoopTyped
  <2>1. \A t \in Tasks : DOMAIN job[t] = JobFields
    BY DEF NoJob, JobFields
  <2>2. pc \in [Tasks -> Pcs]
    BY DEF Pcs
  <2> QED BY <1>1, <1>2, <1>3, <2>1, <2>2, EmptyIsList DEF LoopTyped, RegistryInit
<1>5. OnlyWhileUp /\ HasState /\ WaitsForItsRow
  BY DEF OnlyWhileUp, HasState, PublishedPcs, WaitsForItsRow
<1>6. AwaitedBySender
  BY <1>2 DEF AwaitedBySender
<1>7. LeavesWerePosted
  BY <1>3 DEF LeavesWerePosted
<1> QED BY <1>4, <1>5, <1>6, <1>7 DEF LoopIInv

LEMMA NothingRecorded ==
    ASSUME LeavesWerePosted, posted' = posted, leafRows' = leafRows PROVE LeavesWerePosted'
BY DEF LeavesWerePosted

(* A step of one task t that waits for no transaction, neither before it    *)
(* (its receipt may be in) nor after it: the other tasks see it in the map  *)
(* and the table only.                                                     *)
LEMMA StepOfOneTask ==
    ASSUME LoopIInv, NEW t \in Tasks, posted' = posted, up',
           state' \in Tasks \cup {NoTask}, state # NoTask => state' # NoTask,
           IsMemory(mem'),
           DOMAIN leafRows' = Groups, \A g \in Groups : IsList(leafRows'[g]), LeavesWerePosted',
           pc[t] = "waiting" => job[t].outcome # "sent",
           NEW p \in Pcs, p # "waiting", pc' = [pc EXCEPT ![t] = p],
           p \in PublishedPcs => state' # NoTask,
           DOMAIN todo' = Tasks, DOMAIN job' = Tasks, DOMAIN job'[t] = JobFields,
           \A u \in Tasks \ {t} : todo'[u] = todo[u] /\ job'[u] = job[u],
           IsList(mempool'),
           \A i \in DOMAIN mempool' : DOMAIN mempool'[i] = TransactionFields /\ mempool'[i].by \in Tasks,
           \A i \in DOMAIN mempool' : mempool'[i].awaited => i \in DOMAIN mempool /\ mempool'[i] = mempool[i]
    PROVE  LoopIInv'
<1>1. /\ pc' \in [Tasks -> Pcs] /\ pc'[t] = p
      /\ \A u \in Tasks \ {t} : pc'[u] = pc[u]
  BY DEF LoopIInv, LoopTyped
<1>2. LoopTyped'
  BY <1>1 DEF LoopIInv, LoopTyped
<1>3. OnlyWhileUp'
  BY DEF OnlyWhileUp
<1>4. HasState'
  BY <1>1, Assumptions DEF LoopIInv, HasState
<1>5. WaitsForItsRow'
  BY <1>1 DEF LoopIInv, WaitsForItsRow, JobGroup
<1>6. AwaitedBySender'
  <2> SUFFICES ASSUME NEW i \in DOMAIN mempool', mempool'[i].awaited
               PROVE  /\ pc'[mempool'[i].by] = "waiting"
                      /\ job'[mempool'[i].by].outcome = "sent"
                      /\ mempool'[i].group = JobGroup(mempool[i].by)'
                      /\ mempool'[i].root = job'[mempool'[i].by].root
                      /\ \A j \in DOMAIN mempool' :
                             mempool'[j].awaited /\ mempool'[j].by = mempool'[i].by => j = i
    BY DEF AwaitedBySender
  <2>1. i \in DOMAIN mempool /\ mempool'[i] = mempool[i] /\ mempool[i].by \in Tasks
    BY DEF LoopIInv, LoopTyped
  <2>2. mempool[i].by \in Tasks \ {t}
    BY <2>1 DEF LoopIInv, AwaitedBySender
  <2>3. JobGroup(mempool[i].by)' = JobGroup(mempool[i].by)
    BY <2>2 DEF JobGroup
  <2> QED BY <1>1, <2>1, <2>2, <2>3 DEF LoopIInv, AwaitedBySender
<1> QED BY <1>2, <1>3, <1>4, <1>5, <1>6 DEF LoopIInv

(* The same of a step that sends and records nothing.                      *)
LEMMA QuietStep ==
    ASSUME LoopIInv, NEW t \in Tasks, UNCHANGED <<posted, leafRows, mempool>>,
           up' = up, up \/ pc[t] # "idle",
           state' \in Tasks \cup {NoTask}, state # NoTask => state' # NoTask,
           IsMemory(mem'),
           pc[t] = "waiting" => job[t].outcome # "sent",
           NEW p \in Pcs, p # "waiting", pc' = [pc EXCEPT ![t] = p],
           p \in PublishedPcs => state' # NoTask,
           DOMAIN todo' = Tasks, DOMAIN job' = Tasks, DOMAIN job'[t] = JobFields,
           \A u \in Tasks \ {t} : todo'[u] = todo[u] /\ job'[u] = job[u]
    PROVE  LoopIInv'
<1>1. up'
  BY DEF LoopIInv, OnlyWhileUp
<1>2. LeavesWerePosted'
  BY DEF LoopIInv, LeavesWerePosted
<1>3. /\ IsList(mempool')
      /\ \A i \in DOMAIN mempool' : DOMAIN mempool'[i] = TransactionFields /\ mempool'[i].by \in Tasks
  BY DEF LoopIInv, LoopTyped
<1>4. DOMAIN leafRows' = Groups /\ \A g \in Groups : IsList(leafRows'[g])
  BY DEF LoopIInv, LoopTyped
<1> QED BY <1>1, <1>2, <1>3, <1>4, StepOfOneTask

-----------------------------------------------------------------------------
(* bootstrap() *)

LEMMA RebuildGroupKeeps ==
    ASSUME LoopIInv, NEW t \in Tasks, RebuildGroup(t) PROVE LoopIInv'
<1> DEFINE g == Head(todo[t])
<1>1. PICK a : mem' = [mem EXCEPT ![t][g] = [authorised |-> a, leaves |-> leafRows[g]]]
  BY DEF RebuildGroup
<1>2. IsMemory(mem')
  <2>1. IsMemory(mem) /\ (g \in Groups => IsList(leafRows[g]))
    BY DEF LoopIInv, LoopTyped
  <2> HIDE DEF g
  <2> QED BY <1>1, <2>1, MemoryRebuilt
<1>3. pc' = [pc EXCEPT ![t] = "rebuild"] /\ "rebuild" \in Pcs /\ "rebuild" \notin PublishedPcs
  BY DEF RebuildGroup, LoopIInv, LoopTyped, Pcs, PublishedPcs
<1>4. DOMAIN todo' = Tasks /\ \A u \in Tasks \ {t} : todo'[u] = todo[u]
  BY DEF RebuildGroup, LoopIInv, LoopTyped
<1> QED BY <1>2, <1>3, <1>4, QuietStep DEF RebuildGroup, LoopIInv, LoopTyped, registryVars, ringVars, dbVars

LEMMA PublishStateKeeps ==
    ASSUME LoopIInv, NEW t \in Tasks, PublishState(t) PROVE LoopIInv'
<1>1. "reconcile" \in Pcs /\ t # NoTask
  BY Assumptions DEF Pcs
<1>2. DOMAIN todo' = Tasks /\ \A u \in Tasks \ {t} : todo'[u] = todo[u]
  BY DEF PublishState, LoopIInv, LoopTyped
<1> QED BY <1>1, <1>2, QuietStep DEF PublishState, LoopIInv, LoopTyped, registryVars, ringVars, dbVars

LEMMA AskRootKeeps ==
    ASSUME LoopIInv, NEW t \in Tasks, AskRoot(t) PROVE LoopIInv'
<1>1. state \in Tasks /\ state # NoTask
  BY Assumptions DEF AskRoot, LoopIInv, HasState, PublishedPcs
<1>2. /\ DOMAIN todo' = Tasks /\ DOMAIN job' = Tasks /\ DOMAIN job'[t] = JobFields
      /\ \A u \in Tasks \ {t} : todo'[u] = todo[u] /\ job'[u] = job[u]
  BY DEF AskRoot, LoopIInv, LoopTyped, JobFields
<1>3. PICK p \in {"reconcile", "reading"} : pc' = [pc EXCEPT ![t] = p]
  <2>1. pc = [pc EXCEPT ![t] = "reconcile"]
    BY DEF AskRoot, LoopIInv, LoopTyped
  <2> QED BY <2>1 DEF AskRoot
<1>4. p \in Pcs /\ p # "waiting"
  BY <1>3 DEF Pcs
<1> QED BY <1>1, <1>2, <1>3, <1>4, QuietStep DEF AskRoot, LoopIInv, LoopTyped, registryVars, ringVars, dbVars

LEMMA CompareRootKeeps ==
    ASSUME LoopIInv, NEW t \in Tasks, CompareRoot(t) PROVE LoopIInv'
<1>1. state \in Tasks /\ state # NoTask
  BY Assumptions DEF CompareRoot, LoopIInv, HasState, PublishedPcs
<1> DEFINE g == Head(todo[t])
<1>2. PICK a : mem' = [mem EXCEPT ![t][g].authorised = a]
  <2>1. CASE mem' = [mem EXCEPT ![t][g].authorised = FALSE]
    BY <2>1
  <2>2. CASE mem' = [mem EXCEPT ![t][g].authorised = @ /\ currentRoot[g] = job[t].root]
    <3> DEFINE a == mem[t][g].authorised /\ currentRoot[g] = job[t].root
    <3>1. mem' = [mem EXCEPT ![t][g].authorised = a]
      BY <2>2
    <3> QED BY <3>1
  <2> QED BY <2>1, <2>2 DEF CompareRoot
<1>3. IsMemory(mem')
  <2>1. IsMemory(mem)
    BY DEF LoopIInv, LoopTyped
  <2> HIDE DEF g
  <2> QED BY <1>2, <2>1, MemoryAuthorised
<1>4. DOMAIN todo' = Tasks /\ \A u \in Tasks \ {t} : todo'[u] = todo[u]
  BY DEF CompareRoot, LoopIInv, LoopTyped
<1>5. "reconcile" \in Pcs
  BY DEF Pcs
<1> QED BY <1>1, <1>3, <1>4, <1>5, QuietStep DEF CompareRoot, LoopIInv, LoopTyped, registryVars, ringVars, dbVars

LEMMA BootedKeeps ==
    ASSUME LoopIInv, NEW t \in Tasks, Booted(t) PROVE LoopIInv'
<1>1. state \in Tasks /\ state # NoTask
  BY Assumptions DEF Booted, LoopIInv, HasState, PublishedPcs
<1>2. "booted" \in Pcs
  BY DEF Pcs
<1> QED BY <1>1, <1>2, QuietStep DEF Booted, LoopIInv, LoopTyped, registryVars, ringVars, dbVars

-----------------------------------------------------------------------------
(* tick() *)

LEMMA TickKeeps ==
    ASSUME LoopIInv, NEW t \in Tasks, Tick(t) PROVE LoopIInv'
<1>1. DOMAIN todo' = Tasks /\ \A u \in Tasks \ {t} : todo'[u] = todo[u]
  BY DEF Tick, EnterLoop, LoopIInv, LoopTyped
<1>2. "rebuild" \in Pcs /\ "rebuild" \notin PublishedPcs /\ "loop" \in Pcs
  BY DEF Pcs, PublishedPcs
<1>3. PICK p \in {"rebuild", "loop"} : pc' = [pc EXCEPT ![t] = p] /\ (p = "loop" => state # NoTask)
  BY DEF Tick, EnterLoop
<1> QED BY <1>1, <1>2, <1>3, QuietStep DEF Tick, LoopIInv, LoopTyped, registryVars, ringVars, dbVars

LEMMA TickAfterBootKeeps ==
    ASSUME LoopIInv, NEW t \in Tasks, TickAfterBoot(t) PROVE LoopIInv'
<1>1. state \in Tasks /\ state # NoTask
  BY Assumptions DEF TickAfterBoot, LoopIInv, HasState, PublishedPcs
<1>2. DOMAIN todo' = Tasks /\ \A u \in Tasks \ {t} : todo'[u] = todo[u]
  BY DEF TickAfterBoot, EnterLoop, LoopIInv, LoopTyped
<1>3. PICK p \in {"idle", "loop"} : pc' = [pc EXCEPT ![t] = p]
  BY DEF TickAfterBoot, EnterLoop
<1>4. p \in Pcs /\ p # "waiting"
  BY DEF Pcs
<1> QED BY <1>1, <1>2, <1>3, <1>4, QuietStep
        DEF TickAfterBoot, LoopIInv, LoopTyped, registryVars, ringVars, dbVars

(* Leaving the loop. *)
LEMMA LeaveFacts ==
    ASSUME LoopIInv, NEW t \in Tasks, Leave(t)
    PROVE  /\ "idle" \in Pcs /\ "idle" \notin PublishedPcs /\ pc' = [pc EXCEPT ![t] = "idle"]
           /\ DOMAIN todo' = Tasks /\ \A u \in Tasks \ {t} : todo'[u] = todo[u]
BY DEF Leave, LoopIInv, LoopTyped, Pcs, PublishedPcs

LEMMA EndTickKeeps ==
    ASSUME LoopIInv, NEW t \in Tasks, EndTick(t) PROVE LoopIInv'
BY LeaveFacts, QuietStep DEF EndTick, LoopIInv, LoopTyped, registryVars, ringVars, dbVars

LEMMA SkipRowKeeps ==
    ASSUME LoopIInv, NEW t \in Tasks, SkipRow(t) PROVE LoopIInv'
<1>1. state \in Tasks /\ state # NoTask
  BY Assumptions DEF SkipRow, LoopIInv, HasState, PublishedPcs
<1>2. DOMAIN todo' = Tasks /\ \A u \in Tasks \ {t} : todo'[u] = todo[u]
  BY DEF SkipRow, LoopIInv, LoopTyped
<1>3. "loop" \in Pcs /\ pc' = [pc EXCEPT ![t] = "loop"]
  BY DEF SkipRow, LoopIInv, LoopTyped, Pcs
<1> QED BY <1>1, <1>2, <1>3, QuietStep DEF SkipRow, LoopIInv, LoopTyped, registryVars, ringVars, dbVars

LEMMA PostRevertedKeeps ==
    ASSUME LoopIInv, NEW t \in Tasks, PostReverted(t) PROVE LoopIInv'
<1>1. DOMAIN job' = Tasks /\ DOMAIN job'[t] = JobFields /\ \A u \in Tasks \ {t} : job'[u] = job[u]
  BY DEF PostReverted, NoJob, JobFields, LoopIInv, LoopTyped
<1>2. Leave(t)
  BY DEF PostReverted
<1> QED BY <1>1, <1>2, LeaveFacts, QuietStep
        DEF PostReverted, LoopIInv, LoopTyped, registryVars, ringVars, dbVars

(* The row that is recorded is in a tree that was posted to its group.     *)
LEMMA RecordLeafKeeps ==
    ASSUME LoopIInv, NEW t \in Tasks, RecordLeaf(t) PROVE LoopIInv'
<1> DEFINE r == Head(todo[t])
           g == GroupOf[r]
           gen == job[t].gen
<1>1. DOMAIN job' = Tasks /\ DOMAIN job'[t] = JobFields /\ \A u \in Tasks \ {t} : job'[u] = job[u]
  BY DEF RecordLeaf, NoJob, JobFields, LoopIInv, LoopTyped
<1>2. /\ pc[t] = "waiting" /\ job[t].outcome = "mined" /\ state \in Tasks /\ state # NoTask
      /\ state' = state /\ posted' = posted /\ mempool' = mempool /\ up' = up /\ up
      /\ IsMemory(mem) /\ DOMAIN leafRows = Groups /\ \A h \in Groups : IsList(leafRows[h])
  BY Assumptions DEF RecordLeaf, registryVars, ringVars, LoopIInv, OnlyWhileUp, HasState, PublishedPcs, LoopTyped
<1>3. CASE /\ leafRows' = [leafRows EXCEPT ![g] = Append(@, r)]
           /\ mem' = [mem EXCEPT ![gen][g].leaves = Append(@, r)]
           /\ pc' = [pc EXCEPT ![t] = "loop"]
           /\ todo' = [todo EXCEPT ![t] = Tail(@)]
  <2>1. IsMemory(mem')
    <3> HIDE DEF g, gen, r
    <3> QED BY <1>2, <1>3, MemoryExtended
  <2>2. /\ DOMAIN leafRows' = Groups
        /\ \A h \in Groups : leafRows'[h] = IF h = g THEN Append(leafRows[h], r) ELSE leafRows[h]
    BY <1>2, <1>3
  <2>3. \A h \in Groups : IsList(leafRows'[h])
    <3> HIDE DEF g, r
    <3> QED BY <1>2, <2>2, AppendIsList
  <2>4. LeavesWerePosted'
    <3> SUFFICES ASSUME NEW h \in Groups, NEW i \in DOMAIN leafRows'[h]
                 PROVE  \E k \in DOMAIN posted[h] :
                            leafRows'[h][i] \in {posted[h][k][j] : j \in DOMAIN posted[h][k]}
      BY <1>2 DEF LeavesWerePosted
    <3>1. CASE i \in DOMAIN leafRows[h] /\ leafRows'[h][i] = leafRows[h][i]
      BY <3>1 DEF LoopIInv, LeavesWerePosted
    <3>2. CASE h = g /\ leafRows'[h][i] = r
      <4>1. r \in ElementsOf(job[t].root) /\ job[t].root \in ElementsOf(posted[h])
        BY <1>2, <3>2 DEF LoopIInv, WaitsForItsRow, JobGroup
      <4>2. PICK k \in DOMAIN posted[h] : posted[h][k] = job[t].root
        BY <4>1 DEF ElementsOf
      <4> QED BY <3>2, <4>1, <4>2 DEF ElementsOf
    <3>3. (i \in DOMAIN leafRows[h] /\ leafRows'[h][i] = leafRows[h][i]) \/ (h = g /\ leafRows'[h][i] = r)
      <4> HIDE DEF g, r
      <4> QED BY <1>2, <2>2, AppendKeeps
    <3> QED BY <3>1, <3>2, <3>3
  <2>5. DOMAIN todo' = Tasks /\ \A u \in Tasks \ {t} : todo'[u] = todo[u]
    BY <1>3 DEF LoopIInv, LoopTyped
  <2>6. "loop" \in Pcs
    BY DEF Pcs
  <2>7. /\ IsList(mempool')
        /\ \A i \in DOMAIN mempool' : DOMAIN mempool'[i] = TransactionFields /\ mempool'[i].by \in Tasks
    BY <1>2 DEF LoopIInv, LoopTyped
  <2>8. /\ \A i \in DOMAIN mempool' : mempool'[i].awaited => i \in DOMAIN mempool /\ mempool'[i] = mempool[i]
        /\ state' \in Tasks \cup {NoTask} /\ state' # NoTask /\ up' /\ posted' = posted
        /\ pc[t] = "waiting" => job[t].outcome # "sent"
    BY <1>2
  <2>9. DOMAIN leafRows' = Groups /\ pc' = [pc EXCEPT ![t] = "loop"] /\ "loop" # "waiting"
    BY <1>3, <2>2
  <2> HIDE DEF g, gen, r
  <2> QED BY <1>1, <2>1, <2>3, <2>4, <2>5, <2>6, <2>7, <2>8, <2>9, StepOfOneTask
<1>4. CASE /\ mem' = [mem EXCEPT ![gen][g].authorised = FALSE]
           /\ Leave(t)
           /\ UNCHANGED leafRows
  <2>1. IsMemory(mem')
    <3> HIDE DEF g, gen, r
    <3> QED BY <1>2, <1>4, MemoryAuthorised
  <2> HIDE DEF g, gen, r
  <2>2. /\ "idle" \in Pcs /\ "idle" \notin PublishedPcs /\ pc' = [pc EXCEPT ![t] = "idle"]
        /\ DOMAIN todo' = Tasks /\ \A u \in Tasks \ {t} : todo'[u] = todo[u]
    BY <1>4, LeaveFacts
  <2>3. /\ UNCHANGED <<posted, leafRows, mempool>> /\ up' = up /\ up
        /\ state' \in Tasks \cup {NoTask} /\ state' # NoTask
        /\ pc[t] = "waiting" => job[t].outcome # "sent"
    BY <1>2, <1>4
  <2> QED BY <1>1, <2>1, <2>2, <2>3, QuietStep
<1> QED BY <1>3, <1>4 DEF RecordLeaf

(* A transaction is sent: its sender waits for it, ... *)
LEMMA SentKeeps ==
    ASSUME LoopIInv, NEW t \in Tasks, SendLeaf(t), pc' = [pc EXCEPT ![t] = "waiting"], UNCHANGED todo,
           LET r == Head(todo[t])
               g == GroupOf[r]
               root == Append(mem[state][g].leaves, r)
           IN  /\ mempool' = Append(mempool, [group |-> g, root |-> root, by |-> t, awaited |-> TRUE])
               /\ job' = [job EXCEPT ![t] = [gen |-> state, root |-> root, outcome |-> "sent"]]
    PROVE  LoopIInv'
<1> DEFINE r == Head(todo[t])
           g == GroupOf[r]
           root == Append(mem[state][g].leaves, r)
           tx == [group |-> g, root |-> root, by |-> t, awaited |-> TRUE]
<1>1. /\ pc[t] = "loop" /\ state \in Tasks /\ posted' = posted /\ leafRows' = leafRows
      /\ state' = state /\ mem' = mem /\ todo' = todo /\ up' = up /\ up
      /\ IsMemory(mem) /\ DOMAIN job = Tasks /\ IsList(mempool) /\ DOMAIN todo = Tasks
  BY DEF SendLeaf, registryVars, ringVars, dbVars, LoopIInv, LoopTyped, OnlyWhileUp, HasState, PublishedPcs
<1>2. /\ DOMAIN tx = TransactionFields
      /\ tx.group = g /\ tx.root = root /\ tx.by = t /\ tx.awaited
  BY DEF TransactionFields
<1>3. mempool' = Append(mempool, tx)
  OBVIOUS
<1>4. /\ pc' \in [Tasks -> Pcs] /\ pc'[t] = "waiting" /\ \A u \in Tasks \ {t} : pc'[u] = pc[u]
  BY DEF LoopIInv, LoopTyped, Pcs
<1>5. /\ DOMAIN job' = Tasks /\ \A u \in Tasks \ {t} : job'[u] = job[u]
      /\ DOMAIN job'[t] = JobFields /\ job'[t].root = root /\ job'[t].outcome = "sent"
  BY <1>1 DEF JobFields
<1>6. g \in Groups => r \in ElementsOf(root)
  <2>1. g \in Groups => IsList(mem[state][g].leaves)
    BY <1>1 DEF IsMemory
  <2> DEFINE l == mem[state][g].leaves
  <2> HIDE DEF g, r, l
  <2>2. root = Append(l, r)
    BY DEF l
  <2>3. g \in Groups => IsList(l)
    BY <2>1 DEF l
  <2> HIDE DEF root
  <2> QED BY <2>2, <2>3, AppendElements
<1>7. /\ JobGroup(t)' = g /\ Head(todo'[t]) = r
      /\ \A u \in Tasks : JobGroup(u)' = JobGroup(u)
  BY <1>1 DEF JobGroup
<1> HIDE DEF tx, root, g, r
<1>8. /\ IsList(mempool')
      /\ \A i \in DOMAIN mempool : i \in DOMAIN mempool' /\ mempool'[i] = mempool[i]
      /\ \A i \in DOMAIN mempool' : i \in DOMAIN mempool \/ (i = Len(mempool) + 1 /\ mempool'[i] = tx)
  <2> DEFINE a == Append(mempool, tx)
  <2>1. IsList(mempool)
    BY <1>1
  <2>2. /\ IsList(a)
        /\ \A i \in DOMAIN mempool : i \in DOMAIN a /\ a[i] = mempool[i]
        /\ \A i \in DOMAIN a : i \in DOMAIN mempool \/ i = Len(mempool) + 1
        /\ a[Len(mempool) + 1] = tx
    BY <2>1, AppendKeeps
  <2>3. mempool' = a
    BY <1>3
  <2> HIDE DEF a
  <2> QED BY <2>2, <2>3
<1>9. \A i \in DOMAIN mempool : mempool[i].awaited => mempool[i].by \in Tasks \ {t}
  <2>1. pc[t] # "waiting" /\ AwaitedBySender /\ \A i \in DOMAIN mempool : mempool[i].by \in Tasks
    BY <1>1 DEF LoopIInv, LoopTyped
  <2> QED BY <2>1 DEF AwaitedBySender
<1>10. LoopTyped'
  <2>1. \A i \in DOMAIN mempool' : DOMAIN mempool'[i] = TransactionFields /\ mempool'[i].by \in Tasks
    <3> TAKE i \in DOMAIN mempool'
    <3>1. CASE i \in DOMAIN mempool
      BY <3>1, <1>8 DEF LoopIInv, LoopTyped
    <3>2. CASE mempool'[i] = tx
      BY <3>2, <1>2
    <3> QED BY <3>1, <3>2, <1>8
  <2>2. \A u \in Tasks : DOMAIN job'[u] = JobFields
    BY <1>5 DEF LoopIInv, LoopTyped
  <2> QED BY <1>1, <1>4, <1>5, <1>8, <2>1, <2>2 DEF LoopIInv, LoopTyped
<1>11. OnlyWhileUp' /\ HasState'
  BY <1>1 DEF OnlyWhileUp, HasState
<1>12. WaitsForItsRow'
  <2> SUFFICES ASSUME NEW u \in Tasks, pc'[u] = "waiting", JobGroup(u)' \in Groups
               PROVE  /\ Head(todo'[u]) \in ElementsOf(job'[u].root)
                      /\ job'[u].outcome = "mined" => job'[u].root \in ElementsOf(posted'[JobGroup(u)'])
    BY DEF WaitsForItsRow
  <2>1. CASE u = t
    BY <2>1, <1>5, <1>6, <1>7
  <2>2. CASE u # t
    BY <2>2, <1>1, <1>4, <1>5, <1>7 DEF LoopIInv, WaitsForItsRow
  <2> QED BY <2>1, <2>2
<1>13. AwaitedBySender'
  <2> SUFFICES ASSUME NEW i \in DOMAIN mempool', mempool'[i].awaited
               PROVE  /\ pc'[mempool'[i].by] = "waiting"
                      /\ job'[mempool'[i].by].outcome = "sent"
                      /\ mempool'[i].group = GroupOf[Head(todo'[mempool'[i].by])]
                      /\ mempool'[i].root = job'[mempool'[i].by].root
                      /\ \A j \in DOMAIN mempool' :
                             mempool'[j].awaited /\ mempool'[j].by = mempool'[i].by => j = i
    BY DEF AwaitedBySender, JobGroup
  <2>1. CASE i \in DOMAIN mempool
    <3>1. mempool'[i] = mempool[i] /\ mempool[i].by \in Tasks \ {t}
      BY <2>1, <1>8, <1>9
    <3>2. \A j \in DOMAIN mempool' : mempool'[j].by = mempool[i].by => j \in DOMAIN mempool
      BY <3>1, <1>2, <1>8
    <3>3. GroupOf[Head(todo'[mempool[i].by])] = JobGroup(mempool[i].by)
      BY <1>1 DEF JobGroup
    <3>4. mempool[i].awaited /\ AwaitedBySender
      BY <3>1 DEF LoopIInv
    <3>5. /\ pc[mempool[i].by] = "waiting"
          /\ job[mempool[i].by].outcome = "sent"
          /\ mempool[i].group = JobGroup(mempool[i].by)
          /\ mempool[i].root = job[mempool[i].by].root
      BY <2>1, <3>4 DEF AwaitedBySender
    <3>6. \A j \in DOMAIN mempool' : mempool'[j].awaited /\ mempool'[j].by = mempool[i].by => j = i
      <4> SUFFICES ASSUME NEW j \in DOMAIN mempool', mempool'[j].awaited, mempool'[j].by = mempool[i].by
                   PROVE  j = i
        OBVIOUS
      <4>1. j \in DOMAIN mempool /\ mempool'[j] = mempool[j]
        BY <3>2, <1>8
      <4> QED BY <2>1, <3>4, <4>1 DEF AwaitedBySender
    <3>7. pc'[mempool[i].by] = pc[mempool[i].by] /\ job'[mempool[i].by] = job[mempool[i].by]
      BY <3>1, <1>4, <1>5
    <3> QED BY <3>1, <3>3, <3>5, <3>6, <3>7
  <2>2. CASE i = Len(mempool) + 1 /\ mempool'[i] = tx
    <3>1. \A j \in DOMAIN mempool' : mempool'[j].awaited /\ mempool'[j].by = t => j = i
      BY <2>2, <1>8, <1>9
    <3>2. GroupOf[Head(todo'[t])] = g
      BY <1>7 DEF JobGroup
    <3> QED BY <2>2, <3>1, <3>2, <1>2, <1>4, <1>5
  <2>3. i \in DOMAIN mempool \/ (i = Len(mempool) + 1 /\ mempool'[i] = tx)
    BY <1>8
  <2> QED BY <2>1, <2>2, <2>3
<1>14. LeavesWerePosted'
  <2>1. LeavesWerePosted /\ posted' = posted /\ leafRows' = leafRows
    BY <1>1 DEF LoopIInv
  <2> QED BY <2>1, NothingRecorded
<1> QED BY <1>10, <1>11, <1>12, <1>13, <1>14 DEF LoopIInv

(* ... or its answer was lost, or it was never sent: the tick ends.        *)
LEMMA SendLeafKeeps ==
    ASSUME LoopIInv, NEW t \in Tasks, SendLeaf(t) PROVE LoopIInv'
<1> DEFINE r == Head(todo[t])
           g == GroupOf[r]
           root == Append(mem[state][g].leaves, r)
           tx(awaited) == [group |-> g, root |-> root, by |-> t, awaited |-> awaited]
<1>1. /\ pc[t] = "loop" /\ posted' = posted /\ leafRows' = leafRows /\ state' = state
      /\ mem' = mem /\ up' = up /\ up /\ IsMemory(mem) /\ IsList(mempool)
      /\ state \in Tasks \cup {NoTask}
      /\ DOMAIN job = Tasks /\ \A u \in Tasks : DOMAIN job[u] = JobFields
      /\ DOMAIN leafRows = Groups /\ \A h \in Groups : IsList(leafRows[h])
  BY DEF SendLeaf, registryVars, ringVars, dbVars, LoopIInv, LoopTyped, OnlyWhileUp
<1>2. CASE /\ mempool' = Append(mempool, tx(TRUE))
           /\ job' = [job EXCEPT ![t] = [gen |-> state, root |-> root, outcome |-> "sent"]]
           /\ pc' = [pc EXCEPT ![t] = "waiting"]
           /\ UNCHANGED todo
  BY <1>2, SentKeeps
<1>3. CASE mempool' = Append(mempool, tx(FALSE)) /\ Leave(t) /\ UNCHANGED job
  <2> DEFINE lost == tx(FALSE)
  <2>1. DOMAIN lost = TransactionFields /\ lost.by = t /\ ~lost.awaited
    BY DEF TransactionFields
  <2>2. mempool' = Append(mempool, lost)
    BY <1>3
  <2> HIDE DEF lost
  <2>3. /\ IsList(mempool')
        /\ \A i \in DOMAIN mempool' : (i \in DOMAIN mempool /\ mempool'[i] = mempool[i]) \/ mempool'[i] = lost
    BY <1>1, <2>2, AppendKeeps
  <2>4. \A i \in DOMAIN mempool' : DOMAIN mempool'[i] = TransactionFields /\ mempool'[i].by \in Tasks
    BY <2>1, <2>3 DEF LoopIInv, LoopTyped
  <2>5. \A i \in DOMAIN mempool' : mempool'[i].awaited => i \in DOMAIN mempool /\ mempool'[i] = mempool[i]
    BY <2>1, <2>3
  <2>6. LeavesWerePosted'
    BY <1>1 DEF LoopIInv, LeavesWerePosted
  <2>7. Leave(t) /\ job' = job
    BY <1>3
  <2> HIDE DEF tx, root, g, r
  <2> QED BY <1>1, <2>3, <2>4, <2>5, <2>6, <2>7, LeaveFacts, StepOfOneTask
<1>4. CASE Leave(t) /\ UNCHANGED <<mempool, job>>
  BY <1>1, <1>4, LeaveFacts, QuietStep
<1> QED BY <1>2, <1>3, <1>4 DEF SendLeaf

LEMMA TaskStepKeeps ==
    ASSUME LoopIInv, NEW t \in Tasks, TaskStep(t) PROVE LoopIInv'
BY RebuildGroupKeeps, PublishStateKeeps, AskRootKeeps, CompareRootKeeps, BootedKeeps, TickKeeps,
   TickAfterBootKeeps, EndTickKeeps, SkipRowKeeps, SendLeafKeeps, RecordLeafKeeps, PostRevertedKeeps
   DEF TaskStep

-----------------------------------------------------------------------------
(* The environment *)

(* A step that only the registry's roles or the queue of rows see.         *)
LEMMA UnseenKeeps ==
    ASSUME LoopIInv, UNCHANGED <<posted, leafRows, up, state, mem, pc, todo, job, mempool>>
    PROVE  LoopIInv'
<1>1. LoopTyped'
  BY DEF LoopIInv, LoopTyped
<1>2. OnlyWhileUp' /\ HasState'
  BY DEF LoopIInv, OnlyWhileUp, HasState
<1>3. WaitsForItsRow'
  BY DEF LoopIInv, WaitsForItsRow, JobGroup
<1>4. AwaitedBySender'
  BY DEF LoopIInv, AwaitedBySender, JobGroup
<1>5. LeavesWerePosted'
  BY NothingRecorded DEF LoopIInv
<1> QED BY <1>1, <1>2, <1>3, <1>4, <1>5 DEF LoopIInv

LEMMA StartKeeps == ASSUME LoopIInv, Start PROVE LoopIInv'
<1>1. Startup \in Tasks /\ pc[Startup] = "idle"
  BY Assumptions DEF LoopIInv, OnlyWhileUp, Start
<1>2. "rebuild" \in Pcs /\ "rebuild" \notin PublishedPcs
  BY DEF Pcs, PublishedPcs
<1>3. DOMAIN todo' = Tasks /\ \A u \in Tasks \ {Startup} : todo'[u] = todo[u]
  BY DEF Start, LoopIInv, LoopTyped
<1>4. LeavesWerePosted'
  BY NothingRecorded DEF Start, registryVars, ringVars, dbVars, LoopIInv
<1>5. /\ up' /\ posted' = posted /\ state' = state /\ mem' = mem /\ leafRows' = leafRows
      /\ job' = job /\ mempool' = mempool /\ pc' = [pc EXCEPT ![Startup] = "rebuild"]
  BY DEF Start, registryVars, ringVars, dbVars
<1>6. LoopTyped
  BY DEF LoopIInv
<1> QED BY <1>1, <1>2, <1>3, <1>4, <1>5, <1>6, StepOfOneTask DEF LoopTyped

(* No sender waits after a crash. *)
LEMMA CrashKeeps == ASSUME LoopIInv, Crash PROVE LoopIInv'
<1>1. /\ posted' = posted /\ leafRows' = leafRows /\ state' = NoTask
      /\ mem' = [t \in Tasks |-> [g \in Groups |-> [authorised |-> FALSE, leaves |-> << >>]]]
      /\ job' = [t \in Tasks |-> NoJob] /\ pc' = [t \in Tasks |-> "idle"]
      /\ todo' = [t \in Tasks |-> << >>]
      /\ mempool' = [i \in DOMAIN mempool |-> [mempool[i] EXCEPT !.awaited = FALSE]]
  BY DEF Crash, NoMemory, registryVars, ringVars, dbVars
<1>2. /\ DOMAIN mempool' = DOMAIN mempool
      /\ \A i \in DOMAIN mempool : /\ DOMAIN mempool'[i] = TransactionFields
                                   /\ mempool'[i].by \in Tasks
                                   /\ ~mempool'[i].awaited
  <2>1. \A i \in DOMAIN mempool : DOMAIN mempool[i] = TransactionFields /\ mempool[i].by \in Tasks
    BY DEF LoopIInv, LoopTyped
  <2>2. DOMAIN mempool' = DOMAIN mempool
    BY <1>1
  <2>3. ASSUME NEW i \in DOMAIN mempool
        PROVE  /\ DOMAIN mempool'[i] = TransactionFields
               /\ mempool'[i].by \in Tasks
               /\ ~mempool'[i].awaited
    <3> DEFINE e == [mempool[i] EXCEPT !.awaited = FALSE]
    <3>1. mempool'[i] = e
      BY <1>1
    <3>2. DOMAIN e = TransactionFields /\ e.by = mempool[i].by /\ e.awaited = FALSE
      BY <2>1 DEF TransactionFields
    <3> HIDE DEF e
    <3> QED BY <3>1, <3>2, <2>1
  <2> QED BY <2>2, <2>3
<1>3. IsList(mempool')
  <2> DEFINE w == mempool'
             n == Len(mempool)
  <2>1. n \in Nat /\ DOMAIN mempool = 1..n
    BY DEF LoopIInv, LoopTyped, IsList
  <2>2. w = [i \in 1..n |-> w[i]]
    BY <1>1, <2>1
  <2> HIDE DEF w, n
  <2>3. DOMAIN w = 1..n
    BY <2>2
  <2>4. \A i \in 1..n : w[i] \in ElementsOf(w)
    BY <2>3 DEF ElementsOf
  <2>5. w \in [1..n -> ElementsOf(w)]
    BY <2>2, <2>4
  <2>6. IsList(w)
    BY <2>1, <2>5, SeqDef DEF IsList
  <2> QED BY <2>6 DEF w
<1>4. LoopTyped'
  <2>1. IsMemory(mem')
    BY <1>1, NothingInMemory
  <2>2. pc' \in [Tasks -> Pcs] /\ \A t \in Tasks : DOMAIN job'[t] = JobFields
    BY <1>1 DEF Pcs, JobFields, NoJob
  <2>3. DOMAIN todo' = Tasks /\ DOMAIN job' = Tasks /\ state' \in Tasks \cup {NoTask}
    BY <1>1
  <2>4. /\ DOMAIN posted' = Groups /\ \A g \in Groups : IsList(posted'[g])
        /\ DOMAIN leafRows' = Groups /\ \A g \in Groups : IsList(leafRows'[g])
    BY <1>1 DEF LoopIInv, LoopTyped
  <2> QED BY <1>2, <1>3, <2>1, <2>2, <2>3, <2>4 DEF LoopTyped
<1>5. \A t \in Tasks : pc'[t] = "idle"
  BY <1>1
<1>6. OnlyWhileUp' /\ HasState' /\ WaitsForItsRow'
  BY <1>5 DEF OnlyWhileUp, HasState, PublishedPcs, WaitsForItsRow
<1>7. AwaitedBySender'
  BY <1>2 DEF AwaitedBySender
<1>8. LeavesWerePosted'
  BY <1>1, NothingRecorded DEF LoopIInv
<1> QED BY <1>4, <1>6, <1>7, <1>8 DEF LoopIInv

(* A mined transaction is the oldest, and nobody else waits for it.        *)
LEMMA MineKeeps == ASSUME LoopIInv, Mine PROVE LoopIInv'
<1> DEFINE tx == Head(mempool)
           Receipt(o) == job' = IF tx.awaited THEN [job EXCEPT ![tx.by].outcome = o] ELSE job
<1>1. /\ leafRows' = leafRows /\ up' = up /\ state' = state /\ mem' = mem /\ pc' = pc /\ todo' = todo
      /\ mempool # << >> /\ mempool' = Tail(mempool) /\ IsList(mempool)
  BY DEF Mine, dbVars, LoopIInv, LoopTyped
<1>2. /\ IsList(mempool')
      /\ \A i \in DOMAIN mempool' : i + 1 \in DOMAIN mempool /\ i + 1 # 1 /\ mempool'[i] = mempool[i + 1]
      /\ \A i, j \in DOMAIN mempool' : i + 1 = j + 1 => i = j
      /\ 1 \in DOMAIN mempool /\ tx = mempool[1] /\ tx.by \in Tasks
  <2>1. \A i \in DOMAIN mempool : mempool[i].by \in Tasks
    BY DEF LoopIInv, LoopTyped
  <2> QED BY <1>1, <2>1, TailKeeps
<1>3. PICK o \in {"mined", "reverted"} :
          /\ Receipt(o)
          /\ o = "mined" => posted' = [posted EXCEPT ![tx.group] = Append(@, tx.root)]
          /\ o # "mined" => posted' = posted
  <2>1. CASE AddLeaf(Wallet, tx.group, tx.root) /\ Receipt("mined")
    BY <2>1 DEF AddLeaf
  <2>2. CASE Receipt("reverted") /\ UNCHANGED registryVars
    BY <2>2 DEF registryVars, ringVars
  <2> QED BY <2>1, <2>2 DEF Mine
<1>4. /\ DOMAIN posted' = Groups /\ \A g \in Groups : IsList(posted'[g])
      /\ \A g \in Groups : \A k \in DOMAIN posted[g] : k \in DOMAIN posted'[g] /\ posted'[g][k] = posted[g][k]
      /\ o = "mined" /\ tx.group \in Groups => tx.root \in ElementsOf(posted'[tx.group])
  <2> HIDE DEF tx
  <2>1. DOMAIN posted = Groups /\ \A g \in Groups : IsList(posted[g])
    BY DEF LoopIInv, LoopTyped
  <2>2. CASE o # "mined"
    BY <1>3, <2>1, <2>2
  <2>3. CASE o = "mined"
    <3>1. /\ DOMAIN posted' = Groups
          /\ \A g \in Groups : g # tx.group => posted'[g] = posted[g]
          /\ tx.group \in Groups => posted'[tx.group] = Append(posted[tx.group], tx.root)
      BY <1>3, <2>1, <2>3
    <3>2. CASE tx.group \in Groups
      <4> DEFINE l == posted[tx.group]
                 a == Append(l, tx.root)
      <4>1. IsList(l)
        BY <2>1, <3>2
      <4> HIDE DEF l
      <4>2. /\ IsList(a) /\ ElementsOf(a) = ElementsOf(l) \cup {tx.root}
            /\ \A k \in DOMAIN l : k \in DOMAIN a /\ a[k] = l[k]
        BY <4>1, AppendKeeps
      <4>3. posted'[tx.group] = a
        BY <3>1, <3>2 DEF l
      <4> HIDE DEF a
      <4> QED BY <2>1, <3>1, <4>2, <4>3 DEF l
    <3>3. CASE tx.group \notin Groups
      BY <2>1, <3>1, <3>3
    <3> QED BY <3>2, <3>3
  <2> QED BY <2>2, <2>3
<1>5. /\ DOMAIN job' = Tasks
      /\ \A u \in Tasks :
            /\ DOMAIN job'[u] = JobFields
            /\ job'[u].root = job[u].root
            /\ job'[u].outcome = job[u].outcome \/ (tx.awaited /\ u = tx.by /\ job'[u].outcome = o)
            /\ ~tx.awaited \/ u # tx.by => job'[u] = job[u]
  <2> HIDE DEF tx
  <2>1. DOMAIN job = Tasks /\ \A u \in Tasks : DOMAIN job[u] = JobFields
    BY DEF LoopIInv, LoopTyped
  <2>2. CASE ~tx.awaited
    BY <1>3, <2>1, <2>2
  <2>3. CASE tx.awaited
    <3> DEFINE f == job[tx.by]
               e == [f EXCEPT !.outcome = o]
    <3>1. DOMAIN f = JobFields
      BY <1>2, <2>1
    <3>2. DOMAIN e = JobFields /\ e.root = f.root /\ e.outcome = o
      <4> HIDE DEF f
      <4> QED BY <3>1 DEF JobFields
    <3>3. /\ DOMAIN job' = Tasks /\ job'[tx.by] = e
          /\ \A u \in Tasks : u # tx.by => job'[u] = job[u]
      BY <1>2, <1>3, <2>1, <2>3
    <3> HIDE DEF e
    <3> QED BY <2>1, <2>3, <3>2, <3>3
  <2> QED BY <2>2, <2>3
<1> HIDE DEF tx
<1>6. LoopTyped'
  <2>1. \A i \in DOMAIN mempool' : DOMAIN mempool'[i] = TransactionFields /\ mempool'[i].by \in Tasks
    BY <1>2 DEF LoopIInv, LoopTyped
  <2> QED BY <1>1, <1>2, <1>4, <1>5, <2>1 DEF LoopIInv, LoopTyped
<1>7. OnlyWhileUp' /\ HasState'
  BY <1>1 DEF LoopIInv, OnlyWhileUp, HasState
<1>8. tx.awaited => /\ tx.group = JobGroup(tx.by) /\ tx.root = job[tx.by].root
                    /\ \A j \in DOMAIN mempool : mempool[j].awaited /\ mempool[j].by = tx.by => j = 1
  BY <1>2 DEF LoopIInv, AwaitedBySender
<1>9. WaitsForItsRow'
  <2> SUFFICES ASSUME NEW u \in Tasks, pc[u] = "waiting", JobGroup(u) \in Groups
               PROVE  /\ Head(todo[u]) \in ElementsOf(job'[u].root)
                      /\ job'[u].outcome = "mined" => job'[u].root \in ElementsOf(posted'[JobGroup(u)])
    BY <1>1 DEF WaitsForItsRow, JobGroup
  <2>1. /\ Head(todo[u]) \in ElementsOf(job[u].root)
        /\ job[u].outcome = "mined" => job[u].root \in ElementsOf(posted[JobGroup(u)])
    BY DEF LoopIInv, WaitsForItsRow
  <2>2. job[u].outcome = "mined" => job[u].root \in ElementsOf(posted'[JobGroup(u)])
    BY <2>1, <1>4 DEF ElementsOf
  <2>3. CASE tx.awaited /\ u = tx.by /\ job'[u].outcome = o
    BY <2>1, <2>3, <1>4, <1>5, <1>8
  <2>4. CASE job'[u].outcome = job[u].outcome
    BY <2>1, <2>2, <2>4, <1>5
  <2> QED BY <2>3, <2>4, <1>5
<1>10. AwaitedBySender'
  <2> SUFFICES ASSUME NEW i \in DOMAIN mempool', mempool'[i].awaited
               PROVE  /\ pc[mempool'[i].by] = "waiting"
                      /\ job'[mempool'[i].by].outcome = "sent"
                      /\ mempool'[i].group = JobGroup(mempool'[i].by)
                      /\ mempool'[i].root = job'[mempool'[i].by].root
                      /\ \A j \in DOMAIN mempool' :
                             mempool'[j].awaited /\ mempool'[j].by = mempool'[i].by => j = i
    BY <1>1 DEF AwaitedBySender, JobGroup
  <2>1. i + 1 \in DOMAIN mempool /\ i + 1 # 1 /\ mempool'[i] = mempool[i + 1]
    BY <1>2
  <2>2. /\ pc[mempool'[i].by] = "waiting"
        /\ job[mempool'[i].by].outcome = "sent"
        /\ mempool'[i].group = JobGroup(mempool'[i].by)
        /\ mempool'[i].root = job[mempool'[i].by].root
        /\ \A j \in DOMAIN mempool :
               mempool[j].awaited /\ mempool[j].by = mempool'[i].by => j = i + 1
    BY <2>1 DEF LoopIInv, AwaitedBySender
  <2>3. mempool'[i].by \in Tasks /\ (~tx.awaited \/ mempool'[i].by # tx.by)
    <3>1. mempool'[i].by \in Tasks
      BY <2>1 DEF LoopIInv, LoopTyped
    <3> QED BY <3>1, <2>1, <1>8
  <2>4. job'[mempool'[i].by] = job[mempool'[i].by]
    BY <2>3, <1>5
  <2>5. \A j \in DOMAIN mempool' : mempool'[j].awaited /\ mempool'[j].by = mempool'[i].by => j = i
    BY <2>2, <1>2
  <2> QED BY <2>2, <2>4, <2>5
<1>11. LeavesWerePosted'
  <2> SUFFICES ASSUME NEW g \in Groups, NEW i \in DOMAIN leafRows[g]
               PROVE  \E k \in DOMAIN posted'[g] :
                          leafRows[g][i] \in {posted'[g][k][j] : j \in DOMAIN posted'[g][k]}
    BY <1>1 DEF LeavesWerePosted
  <2>1. PICK k \in DOMAIN posted[g] : leafRows[g][i] \in {posted[g][k][j] : j \in DOMAIN posted[g][k]}
    BY DEF LoopIInv, LeavesWerePosted
  <2> QED BY <2>1, <1>4
<1> QED BY <1>6, <1>7, <1>9, <1>10, <1>11 DEF LoopIInv

LEMMA LoopStep == ASSUME LoopIInv, [Next]_vars PROVE LoopIInv'
<1>1. CASE UNCHANGED vars
  BY <1>1, UnseenKeeps DEF vars, registryVars, ringVars, dbVars, taskVars
<1>2. ASSUME NEW g \in Groups, Grant(g) PROVE LoopIInv'
  BY <1>2, UnseenKeeps DEF Grant, AuthorizeIssuer, ringVars, dbVars, taskVars
<1>3. ASSUME NEW g \in Groups, Withdraw(g) PROVE LoopIInv'
  BY <1>3, UnseenKeeps DEF Withdraw, RevokeIssuer, ringVars, dbVars, taskVars
<1>4. ASSUME NEW r \in Requests, Approve(r) PROVE LoopIInv'
  BY <1>4, UnseenKeeps DEF Approve, registryVars, ringVars, taskVars
<1> QED BY <1>1, <1>2, <1>3, <1>4, StartKeeps, CrashKeeps, MineKeeps, TaskStepKeeps DEF Next

-----------------------------------------------------------------------------
(* A task that waits for a receipt has a transaction of its own and of no   *)
(* other, for the row it is about to record: a tick that outlived the       *)
(* bootstrap it started from, a crash and an answer that was lost leave it  *)
(* so.                                                                     *)
THEOREM LoopInvariance == Spec => []LoopIInv
<1>1. Init => LoopIInv
  BY LoopStarts
<1>2. LoopIInv /\ [Next]_vars => LoopIInv'
  BY LoopStep
<1> QED BY <1>1, <1>2, PTL DEF Spec

(* The log of leaves that GET /api/freshness/state serves holds no leaf     *)
(* that was not mined in the tree of its group.                            *)
THEOREM RecordedWasPosted == Spec => []LeavesWerePosted
<1>1. LoopIInv => LeavesWerePosted
  BY DEF LoopIInv
<1> QED BY <1>1, LoopInvariance, PTL

-----------------------------------------------------------------------------
(* One tick at a time *)

(* What the promises about the posted trees need: one call of tick() at a   *)
(* time, a restart that takes longer than a transaction, no lost answer of  *)
(* a send, and at most one row of a wallet in a group.                     *)
OneTickAtATime ==
    /\ Tasks = {Startup}
    /\ ~QuickRestart
    /\ "reply" \notin FaultPoints
    /\ \A q, r \in Requests : GroupOf[q] = GroupOf[r] /\ CommitmentOf[q] = CommitmentOf[r] => q = r

(* The one task. *)
Pc == pc[Startup]
Todo == todo[Startup]
Posting == job[Startup]
Auth(g) == mem[Startup][g].authorised
Mirror(g) == mem[Startup][g].leaves

BootPcs == {"rebuild", "reconcile", "reading"}
AtRow == Pc \in {"loop", "waiting"}

(* A row still to be served: approved, and not recorded or in the pass      *)
(* under way.                                                              *)
Open(r) ==
    /\ r \in ElementsOf(reviewed)
    /\ ~Recorded(r) \/ (AtRow /\ r \in ElementsOf(Todo))

Before(q, r) == \E m, n \in DOMAIN reviewed : m < n /\ reviewed[m] = q /\ reviewed[n] = r

FirstOfGroup(g, r) == \A q \in Requests : GroupOf[q] = g /\ Before(q, r) => ~Open(q)

(* The chain has what the table has. *)
Settled(g) == leafRows[g] # << >> => currentRoot[g] = leafRows[g]

(* The row extends the tree of its group: as its first leaf only if the     *)
(* rows approved before it need none.                                      *)
NewLeaf(g, r) ==
    /\ r \in ElementsOf(reviewed)
    /\ GroupOf[r] = g
    /\ Settled(g)
    /\ IF leafRows[g] = << >> THEN FirstOfGroup(g, r)
       ELSE \A i \in DOMAIN posted[g] : LeafOf(posted[g][i]) # r

JobType == [gen : Tasks \cup {NoTask}, root : Seq(Requests),
            outcome : {"none", "sent", "mined", "reverted"}]

Tx(r, awaited) ==
    [group |-> GroupOf[r], root |-> Append(leafRows[GroupOf[r]], r), by |-> Startup, awaited |-> awaited]

TaskTyped ==
    /\ state \in Tasks \cup {NoTask} /\ up \in BOOLEAN /\ running \in BOOLEAN
    /\ mem \in [Tasks -> [Groups -> GroupState]]
    /\ pc \in [Tasks -> Pcs]
    /\ DOMAIN todo = Tasks
    /\ job \in [Tasks -> JobType]
    /\ Pc \in BootPcs => Todo \in Seq(ElementsOf(GroupOrder))
    /\ AtRow => Todo \in Seq(Requests)

RowsTyped ==
    /\ reviewed \in Seq(Requests)
    /\ leafRows \in [Groups -> Seq(Requests)]
    /\ \A m, n \in DOMAIN reviewed : reviewed[m] = reviewed[n] => m = n

Process ==
    /\ up => state = IF Pc = "rebuild" THEN NoTask ELSE Startup
    /\ ~up => state = NoTask /\ Pc = "idle" /\ \A g \in Groups : ~Auth(g)
    /\ running <=> AtRow

(* A group whose role the task believes in is mirrored as the table has it, *)
(* and was compared with the chain, or will be.                            *)
Memory ==
    /\ \A g \in Groups : Auth(g) =>
          /\ g \in ElementsOf(GroupOrder)
          /\ Mirror(g) = leafRows[g]
          /\ \/ Settled(g)
             \/ Pc = "rebuild"
             \/ Pc \in {"reconcile", "reading"} /\ g \in ElementsOf(Todo)
             \/ Pc = "waiting" /\ g = GroupOf[Head(Todo)] /\ Posting.outcome = "mined"
    /\ Pc = "reading" => Todo # << >> /\ Posting.root = Mirror(Head(Todo))

(* The rows of a pass stand as they were approved, and none is missing.     *)
Pass ==
    AtRow =>
      /\ \A r \in ElementsOf(Todo) : r \in ElementsOf(reviewed)
      /\ \A i, j \in DOMAIN Todo : i < j => Before(Todo[i], Todo[j])
      /\ \A q, r \in Requests :
            /\ GroupOf[q] = GroupOf[r] /\ Auth(GroupOf[r]) /\ Open(q)
            /\ r \in ElementsOf(Todo) /\ Before(q, r)
            => q \in ElementsOf(Todo)

Waiting ==
    Pc = "waiting" =>
      LET r == Head(Todo)
          g == GroupOf[r]
      IN  /\ Todo # << >>
          /\ Auth(g)
          /\ Posting.gen = Startup /\ Posting.root = Append(leafRows[g], r)
          /\ Posting.outcome \in {"sent", "mined", "reverted"}
          /\ Posting.outcome = "sent" <=> mempool # << >>
          /\ Posting.outcome = "mined" => posted[g] # << >> /\ currentRoot[g] = Posting.root

(* At most one transaction, of the row that is waited for. *)
Mempool ==
    \/ mempool = << >>
    \/ \E r \in Requests :
          /\ mempool = <<Tx(r, up)>>
          /\ NewLeaf(GroupOf[r], r)
          /\ up => Pc = "waiting" /\ Head(Todo) = r

(* The trees posted to a group: each extends the one before or is a first   *)
(* leaf; the last one is the table's, or has one leaf that is not recorded. *)
PostsOf(g) ==
    LET p == posted[g]
        n == Len(p)
    IN  /\ leafCount[g] = n
        /\ currentRoot[g] = IF n = 0 THEN NoRoot ELSE p[n]
        /\ \A i \in 1..n :
              /\ Len(p[i]) \in 1..i
              /\ LeafOf(p[i]) \in ElementsOf(reviewed)
              /\ GroupOf[LeafOf(p[i])] = g
        /\ \A i, j \in 1..n : i < j /\ LeafOf(p[i]) = LeafOf(p[j]) => Len(p[j]) = 1
        /\ \A i \in 1..n : Len(p[i]) = 1 \/ (i > 1 /\ SubSeq(p[i], 1, Len(p[i]) - 1) = p[i - 1])
        /\ leafRows[g] = << >> => \A i \in 1..n : Len(p[i]) = 1 /\ FirstOfGroup(g, LeafOf(p[i]))
        /\ leafRows[g] # << >> =>
              /\ n > 0
              /\ \/ p[n] = leafRows[g]
                 \/ n > 1 /\ p[n - 1] = leafRows[g] /\ \E r \in Requests : p[n] = Append(leafRows[g], r)
              /\ \A i \in 1..(n - 1) : Len(p[i]) <= Len(leafRows[g])
              /\ \A i \in 1..n : Len(p[i]) <= Len(leafRows[g]) => ~Open(LeafOf(p[i]))

(* The last two posts are in the ring. *)
RingRecent ==
    \A g \in Groups :
        LET n == Len(posted[g])
        IN  /\ n >= 1 => \E j \in Slots : rootBufferIndex[g] = Advance(j) /\ rootBuffer[g][j] = posted[g][n]
            /\ n >= 2 /\ RootHistorySize > 1 => \E k \in Slots : rootBuffer[g][k] = posted[g][n - 1]

PostsTyped == posted \in [Groups -> Seq(Seq(Requests))]

(* The inductive invariant: what is posted, recorded and still to be served *)
(* fit together at every await.                                            *)
TickIInv ==
    /\ RegistryTypeOK /\ PostsTyped
    /\ TaskTyped /\ RowsTyped
    /\ Process /\ Memory /\ Pass /\ Waiting /\ Mempool
    /\ \A g \in Groups : PostsOf(g)
    /\ RingRecent

-----------------------------------------------------------------------------
(* Rows in the order of their approval *)

LEMMA BeforeIsOrder ==
    ASSUME RowsTyped
    PROVE  /\ \A q, r : Before(q, r) => q # r /\ ~Before(r, q)
           /\ \A q, r : Before(q, r) => q \in ElementsOf(reviewed) /\ r \in ElementsOf(reviewed)
           /\ \A q, r \in ElementsOf(reviewed) : q = r \/ Before(q, r) \/ Before(r, q)
<1>1. /\ DOMAIN reviewed = 1..Len(reviewed) /\ Len(reviewed) \in Nat
      /\ \A m, n \in DOMAIN reviewed : reviewed[m] = reviewed[n] => m = n
  BY DEF RowsTyped
<1>2. \A m, n \in DOMAIN reviewed : m < n => ~(n < m) /\ m # n
  BY <1>1
<1>3. \A m, n \in DOMAIN reviewed : m = n \/ m < n \/ n < m
  BY <1>1
<1>4. \A q, r : Before(q, r) => q # r /\ ~Before(r, q)
  BY <1>1, <1>2 DEF Before
<1>5. \A q, r : Before(q, r) => q \in ElementsOf(reviewed) /\ r \in ElementsOf(reviewed)
  BY DEF Before, ElementsOf
<1>6. \A q, r \in ElementsOf(reviewed) : q = r \/ Before(q, r) \/ Before(r, q)
  BY <1>3 DEF Before, ElementsOf
<1> QED BY <1>4, <1>5, <1>6

LEMMA RowsAreRequests == ASSUME RowsTyped PROVE ElementsOf(reviewed) \subseteq Requests
BY DEF RowsTyped, ElementsOf

(* What a step leaves of the order and of the rows that are open: no row of *)
(* the past becomes open again, none is put before another.                *)
Onward ==
    /\ ElementsOf(reviewed) \subseteq ElementsOf(reviewed')
    /\ \A q, r : r \in ElementsOf(reviewed) /\ Before(q, r)' => Before(q, r)
    /\ \A q \in ElementsOf(reviewed) : Open(q)' => Open(q)

LEMMA FirstStaysFirst ==
    ASSUME RowsTyped, Onward, NEW g, NEW r \in ElementsOf(reviewed), FirstOfGroup(g, r)
    PROVE  FirstOfGroup(g, r)'
<1> SUFFICES ASSUME NEW q \in Requests, GroupOf[q] = g, Before(q, r)' PROVE ~Open(q)'
  BY DEF FirstOfGroup
<1>1. Before(q, r)
  BY DEF Onward
<1>2. q \in ElementsOf(reviewed) /\ ~Open(q)
  BY <1>1, BeforeIsOrder DEF FirstOfGroup
<1> QED BY <1>2 DEF Onward

LEMMA NewLeafKept ==
    ASSUME RowsTyped, Onward, NEW g, NEW r, NewLeaf(g, r),
           leafRows'[g] = leafRows[g], posted'[g] = posted[g], currentRoot'[g] = currentRoot[g]
    PROVE  NewLeaf(g, r)'
<1>1. r \in ElementsOf(reviewed) /\ r \in ElementsOf(reviewed')
  BY DEF NewLeaf, Onward
<1>2. Settled(g)'
  BY DEF NewLeaf, Settled
<1>3. FirstOfGroup(g, r) => FirstOfGroup(g, r)'
  BY <1>1, FirstStaysFirst
<1>4. GroupOf[r] = g
  BY DEF NewLeaf
<1>5. IF leafRows[g] = << >> THEN FirstOfGroup(g, r)
      ELSE \A i \in DOMAIN posted[g] : LeafOf(posted[g][i]) # r
  BY DEF NewLeaf
<1>6. IF leafRows'[g] = << >> THEN FirstOfGroup(g, r)'
      ELSE \A i \in DOMAIN posted'[g] : LeafOf(posted'[g][i]) # r
  BY <1>3, <1>5
<1> QED BY <1>1, <1>2, <1>4, <1>6 DEF NewLeaf

(* The same of the trees posted to a group.                                *)
LEMMA PostsOfKept ==
    ASSUME RowsTyped, Onward, NEW g, PostsOf(g),
           leafRows'[g] = leafRows[g], posted'[g] = posted[g], currentRoot'[g] = currentRoot[g],
           leafCount'[g] = leafCount[g]
    PROVE  PostsOf(g)'
<1>1. PICK p : p = posted[g]
  OBVIOUS
<1>2. PICK s : s = leafRows[g]
  OBVIOUS
<1>3. PICK old : old = ElementsOf(reviewed)
  OBVIOUS
<1>4. /\ leafCount[g] = Len(p)
      /\ currentRoot[g] = IF Len(p) = 0 THEN NoRoot ELSE p[Len(p)]
      /\ \A i \in 1..Len(p) :
            /\ Len(p[i]) \in 1..i
            /\ LeafOf(p[i]) \in old
            /\ GroupOf[LeafOf(p[i])] = g
      /\ \A i, j \in 1..Len(p) : i < j /\ LeafOf(p[i]) = LeafOf(p[j]) => Len(p[j]) = 1
      /\ \A i \in 1..Len(p) : Len(p[i]) = 1 \/ (i > 1 /\ SubSeq(p[i], 1, Len(p[i]) - 1) = p[i - 1])
  BY <1>1, <1>2, <1>3 DEF PostsOf
<1>5. s = << >> => \A i \in 1..Len(p) : Len(p[i]) = 1 /\ FirstOfGroup(g, LeafOf(p[i]))
  BY <1>1, <1>2 DEF PostsOf
<1>6. s # << >> =>
          /\ Len(p) > 0
          /\ \/ p[Len(p)] = s
             \/ Len(p) > 1 /\ p[Len(p) - 1] = s /\ \E r \in Requests : p[Len(p)] = Append(s, r)
          /\ \A i \in 1..(Len(p) - 1) : Len(p[i]) <= Len(s)
          /\ \A i \in 1..Len(p) : Len(p[i]) <= Len(s) => ~Open(LeafOf(p[i]))
  BY <1>1, <1>2 DEF PostsOf
<1>7. \A l \in old :
          /\ l \in ElementsOf(reviewed')
          /\ Open(l)' => Open(l)
          /\ FirstOfGroup(g, l) => FirstOfGroup(g, l)'
  BY <1>3, FirstStaysFirst DEF Onward
<1>8. s = << >> => \A i \in 1..Len(p) : Len(p[i]) = 1 /\ FirstOfGroup(g, LeafOf(p[i]))'
  BY <1>4, <1>5, <1>7
<1>9. s # << >> => \A i \in 1..Len(p) : Len(p[i]) <= Len(s) => ~Open(LeafOf(p[i]))'
  BY <1>4, <1>6, <1>7
<1>10. \A i \in 1..Len(p) : LeafOf(p[i]) \in ElementsOf(reviewed')
  BY <1>4, <1>7
<1>11. leafRows'[g] = s /\ posted'[g] = p
  BY <1>1, <1>2
<1> QED BY <1>4, <1>6, <1>8, <1>9, <1>10, <1>11 DEF PostsOf

-----------------------------------------------------------------------------
(* The queue of a pass *)

LEMMA LeastElement ==
    ASSUME NEW T, T \subseteq Nat, T # {}
    PROVE  \E n \in T : \A m \in T : n <= m
<1> DEFINE R == OpToRel(<, Nat)
<1>1. IsWellFoundedOn(R, Nat)
  BY NatLessThanWellFounded
<1>2. \A x, y \in Nat : x < y => <<x, y>> \in R
  BY DEF OpToRel
<1> HIDE DEF R
<1>3. PICK n \in T : \A y \in T : ~ (<<y, n>> \in R)
  BY <1>1, WFMin
<1>4. \A m \in T : ~ (m < n)
  BY <1>2, <1>3
<1> QED BY <1>4, <1>3

(* Definitions by recursion along the numbers up to m have a solution.     *)
LEMMA AmongExists ==
    ASSUME NEW m \in Nat
    PROVE  \E t : t = [n \in 0..m |->
                         IF n = 0 THEN << >>
                         ELSE IF Recorded(reviewed[n]) THEN t[n - 1]
                         ELSE Append(t[n - 1], reviewed[n])]
<1> DEFINE Extend(n, q) == IF Recorded(reviewed[n]) THEN q ELSE Append(q, reviewed[n])
           Upto(t, k) == t = [n \in 0..k |-> IF n = 0 THEN << >> ELSE Extend(n, t[n - 1])]
           Bad == {k \in Nat : ~ \E t : Upto(t, k)}
<1>1. SUFFICES Bad = {}
  OBVIOUS
<1> HIDE DEF Extend
<1>2. SUFFICES ASSUME Bad # {} PROVE FALSE
  OBVIOUS
<1>3. PICK k \in Bad : \A j \in Bad : k <= j
  <2>1. Bad \subseteq Nat
    OBVIOUS
  <2> HIDE DEF Bad
  <2> QED BY <1>2, <2>1, LeastElement
<1>4. CASE k = 0
  <2> DEFINE t == [n \in 0..0 |-> << >>]
  <2>1. Upto(t, 0)
    OBVIOUS
  <2> QED BY <2>1, <1>3, <1>4
<1>5. CASE k # 0
  <2>1. k - 1 \in Nat /\ k - 1 \notin Bad
    BY <1>3, <1>5
  <2>2. PICK t : Upto(t, k - 1)
    BY <2>1
  <2> DEFINE u == [n \in 0..k |-> IF n = k THEN Extend(k, t[k - 1]) ELSE t[n]]
  <2>3. \A n \in 0..k : n # k => n \in 0..(k - 1)
    BY <1>3
  <2>4. \A n \in 0..(k - 1) : t[n] = IF n = 0 THEN << >> ELSE Extend(n, t[n - 1])
    BY <2>2, Zenon
  <2>5. \A n \in 0..k : u[n] = IF n = k THEN Extend(k, t[k - 1]) ELSE t[n]
    OBVIOUS
  <2>6. u[k - 1] = t[k - 1]
    BY <2>1, <1>3, <2>5
  <2>7. \A n \in 0..k : u[n] = IF n = 0 THEN << >> ELSE Extend(n, u[n - 1])
    <3> TAKE n \in 0..k
    <3>1. CASE n = k
      BY <3>1, <2>5, <2>6, <1>5
    <3>2. CASE n # k /\ n = 0
      BY <3>2, <2>3, <2>4, <2>5
    <3>3. CASE n # k /\ n # 0
      <4>1. n \in 0..(k - 1) /\ n - 1 \in 0..k /\ n - 1 # k
        BY <3>3, <1>3
      <4>2. u[n] = t[n] /\ u[n - 1] = t[n - 1]
        BY <4>1, <3>3, <2>5
      <4> QED BY <4>1, <4>2, <2>4, <3>3
    <3> QED BY <3>1, <3>2, <3>3
  <2>8. u = [n \in 0..k |-> u[n]]
    OBVIOUS
  <2> HIDE DEF u
  <2>9. Upto(u, k)
    BY <2>7, <2>8
  <2> QED BY <2>9, <1>3
<1> QED BY <1>4, <1>5

(* The pass goes through the approved rows without a leaf, all of them, in  *)
(* the order of their approval.                                            *)
LEMMA PendingIs ==
    ASSUME RowsTyped
    PROVE  /\ Pending \in Seq(Requests)
           /\ \A r : r \in ElementsOf(Pending) <=> r \in ElementsOf(reviewed) /\ ~Recorded(r)
           /\ \A i, j \in DOMAIN Pending : i < j => Before(Pending[i], Pending[j])
<1> DEFINE m == Len(reviewed)
           Among == CHOOSE t : t = [n \in 0..m |->
                         IF n = 0 THEN << >>
                         ELSE IF Recorded(reviewed[n]) THEN t[n - 1]
                         ELSE Append(t[n - 1], reviewed[n])]
           Good(n, w) ==
              /\ w \in Seq(Requests)
              /\ \A i \in 1..Len(w) : \E k \in 1..n : w[i] = reviewed[k] /\ ~Recorded(reviewed[k])
              /\ \A i, j \in 1..Len(w) : i < j =>
                    \E k, l \in 1..n : k < l /\ w[i] = reviewed[k] /\ w[j] = reviewed[l]
              /\ \A k \in 1..n : ~Recorded(reviewed[k]) => \E i \in 1..Len(w) : w[i] = reviewed[k]
<1>1. m \in Nat /\ DOMAIN reviewed = 1..m /\ \A k \in 1..m : reviewed[k] \in Requests
  BY DEF RowsTyped
<1>2. Pending = Among[m]
  BY Zenon DEF Pending
<1>3. Among = [n \in 0..m |-> IF n = 0 THEN << >>
                 ELSE IF Recorded(reviewed[n]) THEN Among[n - 1] ELSE Append(Among[n - 1], reviewed[n])]
  BY <1>1, AmongExists, Zenon
<1> HIDE DEF Among
<1>4. /\ Among[0] = << >>
      /\ \A n \in 1..m : Among[n] = IF Recorded(reviewed[n]) THEN Among[n - 1]
                                    ELSE Append(Among[n - 1], reviewed[n])
  <2>1. 0 \in 0..m /\ \A n \in 1..m : n \in 0..m /\ n # 0
    BY <1>1
  <2> QED BY <1>3, <2>1, Zenon
<1> DEFINE Bad == {n \in 0..m : ~Good(n, Among[n])}
<1>5. Good(0, Among[0])
  BY <1>4
<1>6. ASSUME NEW n \in 1..m, Good(n - 1, Among[n - 1]) PROVE Good(n, Among[n])
  <2> DEFINE w == Among[n - 1]
             e == reviewed[n]
  <2>1. n \in 1..n /\ \A k \in 1..(n - 1) : k \in 1..n /\ k < n
    BY <1>1
  <2>2. \A k \in 1..n : k = n \/ k \in 1..(n - 1)
    BY <1>1
  <2>3. CASE Recorded(e)
    <3>1. Among[n] = w
      BY <1>4, <2>3
    <3> HIDE DEF w
    <3>2. Good(n - 1, w)
      BY <1>6 DEF w
    <3>3. \A i \in 1..Len(w) : \E k \in 1..n : w[i] = reviewed[k] /\ ~Recorded(reviewed[k])
      BY <3>2, <2>1
    <3>4. \A i, j \in 1..Len(w) : i < j =>
              \E k, l \in 1..n : k < l /\ w[i] = reviewed[k] /\ w[j] = reviewed[l]
      BY <3>2, <2>1
    <3>5. \A k \in 1..n : ~Recorded(reviewed[k]) => \E i \in 1..Len(w) : w[i] = reviewed[k]
      BY <3>2, <2>2, <2>3
    <3>6. w \in Seq(Requests)
      BY <3>2
    <3>7. Good(n, w)
      BY <3>3, <3>4, <3>5, <3>6
    <3> HIDE DEF Good
    <3> QED BY <3>1, <3>7, Zenon
  <2>4. CASE ~Recorded(e)
    <3>1. Among[n] = Append(w, e)
      BY <1>4, <2>4
    <3> HIDE DEF w
    <3>2. Good(n - 1, w)
      BY <1>6 DEF w
    <3> DEFINE a == Append(w, e)
    <3>3. /\ a \in Seq(Requests) /\ Len(a) = Len(w) + 1 /\ Len(w) \in Nat
          /\ \A i \in 1..Len(w) : a[i] = w[i]
          /\ a[Len(w) + 1] = e
      BY <1>1, <3>2
    <3>4. \A i \in 1..Len(a) : i \in 1..Len(w) \/ i = Len(w) + 1
      BY <3>3
    <3>5. \A i \in 1..Len(w) : i \in 1..Len(a)
      BY <3>3
    <3>10. Len(w) + 1 \in 1..Len(a)
      BY <3>3
    <3> HIDE DEF a
    <3>6. \A i \in 1..Len(a) : \E k \in 1..n : a[i] = reviewed[k] /\ ~Recorded(reviewed[k])
      <4> TAKE i \in 1..Len(a)
      <4>1. CASE i \in 1..Len(w)
        <5>1. PICK k \in 1..(n - 1) : w[i] = reviewed[k] /\ ~Recorded(reviewed[k])
          BY <4>1, <3>2
        <5> QED BY <5>1, <4>1, <3>3, <2>1
      <4>2. CASE i = Len(w) + 1
        BY <4>2, <2>1, <2>4, <3>3
      <4> QED BY <4>1, <4>2, <3>4
    <3>7. \A i, j \in 1..Len(a) : i < j =>
              \E k, l \in 1..n : k < l /\ a[i] = reviewed[k] /\ a[j] = reviewed[l]
      <4> SUFFICES ASSUME NEW i \in 1..Len(a), NEW j \in 1..Len(a), i < j
                   PROVE  \E k, l \in 1..n : k < l /\ a[i] = reviewed[k] /\ a[j] = reviewed[l]
        OBVIOUS
      <4>1. i \in 1..Len(w)
        BY <3>3, <3>4
      <4>2. CASE j \in 1..Len(w)
        <5>1. PICK k \in 1..(n - 1), l \in 1..(n - 1) : k < l /\ w[i] = reviewed[k] /\ w[j] = reviewed[l]
          BY <4>1, <4>2, <3>2
        <5> QED BY <5>1, <4>1, <4>2, <3>3, <2>1
      <4>3. CASE j = Len(w) + 1
        <5>1. PICK k \in 1..(n - 1) : w[i] = reviewed[k]
          BY <4>1, <3>2
        <5> QED BY <5>1, <4>1, <4>3, <3>3, <2>1
      <4> QED BY <4>2, <4>3, <3>4
    <3>8. \A k \in 1..n : ~Recorded(reviewed[k]) => \E i \in 1..Len(a) : a[i] = reviewed[k]
      BY <2>2, <3>2, <3>3, <3>5, <3>10
    <3>9. Good(n, a)
      <4>1. a \in Seq(Requests)
        BY <3>3
      <4> QED BY <4>1, <3>6, <3>7, <3>8
    <3>11. Among[n] = a
      BY <3>1 DEF a
    <3> HIDE DEF Good
    <3> QED BY <3>9, <3>11
  <2> QED BY <2>3, <2>4
<1> HIDE DEF Good
<1>7. Bad = {}
  <2> SUFFICES ASSUME Bad # {} PROVE FALSE
    OBVIOUS
  <2>1. Bad \subseteq Nat
    BY <1>1
  <2>2. PICK n \in Bad : \A k \in Bad : n <= k
    <3> HIDE DEF Bad
    <3> QED BY <2>1, LeastElement
  <2>3. n \in 0..m /\ ~Good(n, Among[n])
    OBVIOUS
  <2>4. n # 0
    BY <1>5, <2>3
  <2>5. n \in 1..m /\ n - 1 \in 0..m /\ ~(n <= n - 1)
    BY <1>1, <2>3, <2>4
  <2>6. Good(n - 1, Among[n - 1])
    BY <2>2, <2>5
  <2> QED BY <1>6, <2>3, <2>5, <2>6
<1>8. Good(m, Pending)
  <2>1. m \in 0..m
    BY <1>1
  <2> QED BY <1>2, <1>7, <2>1
<1>9. /\ Pending \in Seq(Requests)
      /\ DOMAIN Pending = 1..Len(Pending)
  BY <1>8 DEF Good
<1>10. \A r : r \in ElementsOf(Pending) => r \in ElementsOf(reviewed) /\ ~Recorded(r)
  <2> SUFFICES ASSUME NEW i \in 1..Len(Pending)
               PROVE  Pending[i] \in ElementsOf(reviewed) /\ ~Recorded(Pending[i])
    BY <1>9 DEF ElementsOf
  <2>1. PICK k \in 1..m : Pending[i] = reviewed[k] /\ ~Recorded(reviewed[k])
    BY <1>8 DEF Good
  <2> QED BY <2>1, <1>1 DEF ElementsOf
<1>11. \A r : r \in ElementsOf(reviewed) /\ ~Recorded(r) => r \in ElementsOf(Pending)
  <2> SUFFICES ASSUME NEW k \in 1..m, ~Recorded(reviewed[k])
               PROVE  reviewed[k] \in ElementsOf(Pending)
    BY <1>1 DEF ElementsOf
  <2> QED BY <1>8, <1>9 DEF Good, ElementsOf
<1>12. \A i, j \in DOMAIN Pending : i < j => Before(Pending[i], Pending[j])
  <2> SUFFICES ASSUME NEW i \in 1..Len(Pending), NEW j \in 1..Len(Pending), i < j
               PROVE  Before(Pending[i], Pending[j])
    BY <1>9
  <2>1. PICK k \in 1..m, l \in 1..m : k < l /\ Pending[i] = reviewed[k] /\ Pending[j] = reviewed[l]
    BY <1>8 DEF Good
  <2> QED BY <2>1, <1>1 DEF Before
<1> QED BY <1>9, <1>10, <1>11, <1>12

-----------------------------------------------------------------------------
(* What the steps share *)

LEMMA MemorySet ==
    ASSUME mem \in [Tasks -> [Groups -> GroupState]], NEW g \in Groups, NEW a \in BOOLEAN,
           NEW l \in Seq(Requests),
           mem' = [mem EXCEPT ![Startup][g] = [authorised |-> a, leaves |-> l]]
    PROVE  /\ mem' \in [Tasks -> [Groups -> GroupState]]
           /\ \A h \in Groups : h # g => mem'[Startup][h] = mem[Startup][h]
           /\ mem'[Startup][g].authorised = a /\ mem'[Startup][g].leaves = l
<1> DEFINE o == [authorised |-> a, leaves |-> l]
<1>1. o \in GroupState /\ o.authorised = a /\ o.leaves = l
  BY DEF GroupState
<1>2. mem' = [mem EXCEPT ![Startup][g] = o]
  OBVIOUS
<1> HIDE DEF o
<1>3. Startup \in Tasks
  BY Assumptions
<1> QED BY <1>1, <1>2, <1>3

LEMMA MemoryRole ==
    ASSUME mem \in [Tasks -> [Groups -> GroupState]], NEW g \in Groups, NEW a \in BOOLEAN,
           mem' = [mem EXCEPT ![Startup][g].authorised = a]
    PROVE  /\ mem' \in [Tasks -> [Groups -> GroupState]]
           /\ \A h \in Groups : h # g => mem'[Startup][h] = mem[Startup][h]
           /\ mem'[Startup][g].authorised = a /\ mem'[Startup][g].leaves = mem[Startup][g].leaves
<1>1. PICK s : s = mem[Startup][g]
  OBVIOUS
<1>2. PICK o : o = [s EXCEPT !.authorised = a]
  OBVIOUS
<1>3. Startup \in Tasks
  BY Assumptions
<1>4. s \in GroupState
  BY <1>1, <1>3
<1>5. o \in GroupState /\ o.authorised = a /\ o.leaves = s.leaves
  BY <1>2, <1>4 DEF GroupState
<1>6. mem' = [mem EXCEPT ![Startup][g] = o]
  BY <1>1, <1>2
<1> QED BY <1>1, <1>3, <1>5, <1>6

LEMMA MemoryLeaf ==
    ASSUME mem \in [Tasks -> [Groups -> GroupState]], NEW g \in Groups, NEW r \in Requests,
           mem' = [mem EXCEPT ![Startup][g].leaves = Append(@, r)]
    PROVE  /\ mem' \in [Tasks -> [Groups -> GroupState]]
           /\ \A h \in Groups : h # g => mem'[Startup][h] = mem[Startup][h]
           /\ mem'[Startup][g].authorised = mem[Startup][g].authorised
           /\ mem'[Startup][g].leaves = Append(mem[Startup][g].leaves, r)
<1>1. PICK s : s = mem[Startup][g]
  OBVIOUS
<1>2. PICK o : o = [s EXCEPT !.leaves = Append(@, r)]
  OBVIOUS
<1>3. Startup \in Tasks
  BY Assumptions
<1>4. s \in GroupState
  BY <1>1, <1>3
<1>5. PICK l : l = Append(s.leaves, r)
  OBVIOUS
<1>6. l \in Seq(Requests)
  BY <1>4, <1>5 DEF GroupState
<1>7. o = [s EXCEPT !.leaves = l]
  BY <1>2, <1>5
<1>8. o.authorised = s.authorised /\ o.leaves = l
  BY <1>4, <1>6, <1>7 DEF GroupState
<1>11. o \in GroupState
  BY <1>4, <1>6, <1>7 DEF GroupState
<1>9. mem' = [mem EXCEPT ![Startup][g] = o]
  BY <1>1, <1>2
<1>10. /\ mem' \in [Tasks -> [Groups -> GroupState]]
       /\ mem'[Startup][g] = o
       /\ \A h \in Groups : h # g => mem'[Startup][h] = mem[Startup][h]
  <2>1. PICK m : m = [mem[Startup] EXCEPT ![g] = o]
    OBVIOUS
  <2>2. mem' = [mem EXCEPT ![Startup] = m]
    BY <1>9, <2>1
  <2>3. /\ m \in [Groups -> GroupState] /\ m[g] = o
        /\ \A h \in Groups : h # g => m[h] = mem[Startup][h]
    BY <1>3, <1>11, <2>1
  <2>4. mem'[Startup] = m /\ mem' \in [Tasks -> [Groups -> GroupState]]
    BY <1>3, <2>2, <2>3
  <2> QED BY <2>3, <2>4
<1> QED BY <1>1, <1>5, <1>8, <1>10, Zenon

LEMMA GroupTypes == ElementsOf(GroupOrder) \subseteq Groups /\ GroupOrder \in Seq(ElementsOf(GroupOrder))
<1>1. GroupOrder \in Seq(Groups)
  BY AutoFreshnessAssumption DEF AutoFreshnessAssumption
<1>2. PICK n \in Nat : GroupOrder \in [1..n -> Groups]
  BY <1>1, SeqDef
<1>3. ElementsOf(GroupOrder) \subseteq Groups
  BY <1>2 DEF ElementsOf
<1>4. GroupOrder \in [1..n -> ElementsOf(GroupOrder)]
  BY <1>2 DEF ElementsOf
<1> QED BY <1>3, <1>4, SeqDef

LEMMA RowGroups == \A r \in Requests : GroupOf[r] \in Groups
BY AutoFreshnessAssumption DEF AutoFreshnessAssumption

(* The rows of a sequence, without its head. *)
LEMMA TailElements ==
    ASSUME NEW S, NEW s \in Seq(S), s # << >>
    PROVE  /\ Tail(s) \in Seq(S)
           /\ Head(s) \in S /\ Head(s) \in ElementsOf(s)
           /\ ElementsOf(Tail(s)) \subseteq ElementsOf(s)
           /\ \A e \in ElementsOf(s) : e = Head(s) \/ e \in ElementsOf(Tail(s))
<1> DEFINE w == Tail(s)
<1>1. /\ w \in Seq(S) /\ Len(s) \in Nat /\ Len(s) # 0 /\ Len(w) = Len(s) - 1
      /\ Head(s) \in S /\ Head(s) = s[1]
      /\ \A i \in 1..Len(w) : w[i] = s[i + 1]
      /\ DOMAIN s = 1..Len(s) /\ DOMAIN w = 1..Len(w)
  BY HeadTailProperties
<1> HIDE DEF w
<1>2. 1 \in DOMAIN s
  BY <1>1
<1>3. \A i \in DOMAIN w : i + 1 \in DOMAIN s /\ w[i] = s[i + 1]
  BY <1>1
<1>4. \A i \in DOMAIN s : i = 1 \/ (i - 1 \in DOMAIN w /\ w[i - 1] = s[i])
  BY <1>1
<1>5. s[1] \in ElementsOf(s)
  BY <1>2 DEF ElementsOf
<1>6. ElementsOf(w) \subseteq ElementsOf(s)
  BY <1>3 DEF ElementsOf
<1>7. \A e \in ElementsOf(s) : e = s[1] \/ e \in ElementsOf(w)
  BY <1>4 DEF ElementsOf
<1> QED BY <1>1, <1>5, <1>6, <1>7 DEF w

LEMMA NoElements == ElementsOf(<< >>) = {}
BY DEF ElementsOf

(* The rows of a step that approves and records nothing. *)
LEMMA QuietOnward ==
    ASSUME UNCHANGED <<reviewed, leafRows>>,
           \/ ~AtRow'
           \/ AtRow /\ ElementsOf(Todo') \subseteq ElementsOf(Todo)
           \/ \A r \in ElementsOf(Todo') : ~Recorded(r)
    PROVE  Onward
<1>1. \A q, r : Before(q, r)' => Before(q, r)
  BY DEF Before
<1>2. \A q : Recorded(q)' <=> Recorded(q)
  BY DEF Recorded
<1>3. \A q \in ElementsOf(reviewed) : Open(q)' => Open(q)
  <2> TAKE q \in ElementsOf(reviewed)
  <2>1. Open(q)' => (~Recorded(q) \/ (AtRow' /\ q \in ElementsOf(Todo')))
    BY <1>2 DEF Open
  <2>2. ~Recorded(q) \/ (AtRow /\ q \in ElementsOf(Todo)) => Open(q)
    BY DEF Open
  <2> QED BY <2>1, <2>2
<1> QED BY <1>1, <1>3 DEF Onward

(* A step that touches neither the ring nor the table. *)
LEMMA AroundKeeps ==
    ASSUME TickIInv, RegistryTypeOK', UNCHANGED <<ringVars, leafRows>>, Onward, RowsTyped',
           TaskTyped', Process', Memory', Pass', Waiting', Mempool'
    PROVE  TickIInv'
<1>1. UNCHANGED <<posted, leafRows, currentRoot, leafCount, rootBuffer, rootBufferIndex>>
  BY DEF ringVars
<1>2. \A g \in Groups : PostsOf(g)'
  <2> TAKE g \in Groups
  <2>1. PostsOf(g) /\ RowsTyped
    BY DEF TickIInv
  <2> QED BY <1>1, <2>1, PostsOfKept
<1>3. RingRecent'
  BY <1>1 DEF TickIInv, RingRecent
<1>4. PostsTyped'
  BY <1>1 DEF TickIInv, PostsTyped
<1> QED BY <1>2, <1>3, <1>4 DEF TickIInv

(* Nothing is under way unless its row is waited for. *)
LEMMA NothingSent ==
    ASSUME TickIInv
    PROVE  /\ up /\ Pc # "waiting" => mempool = << >>
           /\ Pc = "waiting" /\ Posting.outcome # "sent" => mempool = << >>
           /\ Pc # "idle" => up
BY DEF TickIInv, Mempool, Waiting, Process

LEMMA MempoolKept ==
    ASSUME TickIInv, Onward, UNCHANGED <<ringVars, leafRows, mempool, up>>,
           up => UNCHANGED <<pc, todo>> \/ mempool = << >>
    PROVE  Mempool'
<1>1. CASE mempool = << >>
  BY <1>1 DEF Mempool
<1>2. CASE mempool # << >>
  <2>1. PICK r \in Requests :
          /\ mempool = <<Tx(r, up)>>
          /\ NewLeaf(GroupOf[r], r)
          /\ up => Pc = "waiting" /\ Head(Todo) = r
    BY <1>2 DEF TickIInv, Mempool
  <2>2. NewLeaf(GroupOf[r], r)'
    BY <2>1, NewLeafKept DEF TickIInv, ringVars
  <2>3. mempool' = <<Tx(r, up)'>>
    BY <2>1 DEF Tx
  <2>4. up' => Pc' = "waiting" /\ Head(Todo)' = r
    BY <2>1, <1>2 DEF Pc, Todo
  <2> QED BY <2>2, <2>3, <2>4 DEF Mempool
<1> QED BY <1>1, <1>2

(* A step of the bootstrap. *)
LEMMA BootStepKeeps ==
    ASSUME TickIInv, UNCHANGED <<registryVars, dbVars, mempool>>, ~AtRow, ~AtRow',
           up' = up \/ mempool = << >>, TaskTyped', Process', Memory'
    PROVE  TickIInv'
<1>1. UNCHANGED <<ringVars, leafRows, reviewed>>
  BY DEF registryVars, dbVars
<1>2. Onward
  BY <1>1, QuietOnward
<1>3. Pass' /\ Waiting'
  BY DEF Pass, Waiting, AtRow
<1>4. Mempool'
  <2>1. CASE mempool = << >>
    BY <2>1 DEF Mempool
  <2>2. CASE up' = up /\ mempool # << >>
    <3>1. ~up
      BY <2>2, NothingSent DEF AtRow
    <3> QED BY <3>1, <2>2, <1>1, <1>2, MempoolKept
  <2> QED BY <2>1, <2>2
<1>5. RegistryTypeOK' /\ RowsTyped'
  BY <1>1 DEF TickIInv, RegistryTypeOK, RowsTyped, registryVars, ringVars
<1> QED BY <1>1, <1>2, <1>3, <1>4, <1>5, AroundKeeps

LEMMA MovesTo ==
    ASSUME TaskTyped, NEW p \in Pcs, pc' = [pc EXCEPT ![Startup] = p],
           state' \in Tasks \cup {NoTask}, up' \in BOOLEAN, running' \in BOOLEAN,
           mem' \in [Tasks -> [Groups -> GroupState]], job' \in [Tasks -> JobType],
           NEW s, \/ todo' = [todo EXCEPT ![Startup] = s]
                  \/ todo' = todo /\ s = todo[Startup],
           p \in BootPcs => s \in Seq(ElementsOf(GroupOrder)),
           p \in {"loop", "waiting"} => s \in Seq(Requests)
    PROVE  TaskTyped' /\ Pc' = p /\ Todo' = s
<1>1. Startup \in Tasks
  BY Assumptions
<1>2. Pc' = p /\ pc' \in [Tasks -> Pcs]
  BY <1>1 DEF TaskTyped, Pc
<1>3. DOMAIN todo' = Tasks /\ Todo' = s
  BY <1>1 DEF TaskTyped, Todo
<1> QED BY <1>2, <1>3 DEF TaskTyped, AtRow

-----------------------------------------------------------------------------
(* The bootstrap *)

LEMMA StartStep ==
    ASSUME OneTickAtATime, TickIInv, Start PROVE TickIInv'
<1>1. /\ ~up /\ up' = TRUE /\ mempool = << >>
      /\ pc' = [pc EXCEPT ![Startup] = "rebuild"]
      /\ todo' = [todo EXCEPT ![Startup] = GroupOrder]
      /\ UNCHANGED <<registryVars, dbVars, state, mem, running, job, mempool>>
  BY DEF Start, OneTickAtATime
<1>2. TaskTyped' /\ Pc' = "rebuild" /\ Todo' = GroupOrder
  <2>1. "rebuild" \in Pcs
    BY DEF Pcs
  <2> QED BY <1>1, <2>1, GroupTypes, MovesTo DEF TickIInv, TaskTyped
<1>3. ~AtRow /\ ~AtRow'
  BY <1>1, <1>2 DEF TickIInv, Process, AtRow
<1>4. Process'
  BY <1>1, <1>2, <1>3 DEF TickIInv, Process
<1>5. Memory'
  <2>1. \A g \in Groups : ~Auth(g)'
    BY <1>1 DEF TickIInv, Process, Auth
  <2> QED BY <1>2, <2>1 DEF Memory
<1> QED BY <1>1, <1>2, <1>3, <1>4, <1>5, BootStepKeeps

LEMMA RebuildGroupStep ==
    ASSUME OneTickAtATime, TickIInv, RebuildGroup(Startup) PROVE TickIInv'
<1>1. /\ pc[Startup] = "rebuild" /\ todo[Startup] # << >>
      /\ todo' = [todo EXCEPT ![Startup] = Tail(@)]
      /\ UNCHANGED <<registryVars, dbVars, up, state, running, pc, job, mempool>>
  BY DEF RebuildGroup
<1>2. PICK g : g = Head(todo[Startup])
  OBVIOUS
<1>3. Todo \in Seq(ElementsOf(GroupOrder)) /\ Todo # << >>
  BY <1>1 DEF TickIInv, TaskTyped, Pc, BootPcs, Todo
<1>4. g \in Groups /\ g \in ElementsOf(GroupOrder) /\ Tail(Todo) \in Seq(ElementsOf(GroupOrder))
  BY <1>2, <1>3, TailElements, GroupTypes DEF Todo
<1>5. PICK a \in BOOLEAN : mem' = [mem EXCEPT ![Startup][g] = [authorised |-> a, leaves |-> leafRows[g]]]
  <2>1. groupIssuer[g][Wallet] \in BOOLEAN
    <3>1. Wallet \in Accounts
      BY AutoFreshnessAssumption DEF AutoFreshnessAssumption
    <3> QED BY <1>4, <3>1 DEF TickIInv, RegistryTypeOK
  <2> QED BY <1>2, <2>1 DEF RebuildGroup
<1>6. leafRows[g] \in Seq(Requests)
  BY <1>4 DEF TickIInv, RowsTyped
<1>7. /\ mem' \in [Tasks -> [Groups -> GroupState]]
      /\ \A h \in Groups : h # g => mem'[Startup][h] = mem[Startup][h]
      /\ mem'[Startup][g].leaves = leafRows[g]
  BY <1>4, <1>5, <1>6, MemorySet DEF TickIInv, TaskTyped
<1>8. TaskTyped' /\ Pc' = "rebuild" /\ Todo' = Tail(Todo)
  <2>1. "rebuild" \in Pcs
    BY DEF Pcs
  <2>2. pc' = [pc EXCEPT ![Startup] = "rebuild"]
    BY <1>1, Assumptions DEF TickIInv, TaskTyped
  <2>3. todo' = [todo EXCEPT ![Startup] = Tail(Todo)]
    BY <1>1 DEF Todo
  <2> QED BY <1>1, <1>4, <1>7, <2>1, <2>2, <2>3, MovesTo DEF TickIInv, TaskTyped
<1>9. Pc = "rebuild" /\ up
  BY <1>1, NothingSent DEF Pc
<1>10. ~AtRow /\ ~AtRow'
  BY <1>8, <1>9 DEF AtRow
<1>11. Process'
  BY <1>1, <1>8, <1>9, <1>10 DEF TickIInv, Process
<1>12. Memory'
  <2> SUFFICES ASSUME NEW h \in Groups, Auth(h)'
               PROVE  h \in ElementsOf(GroupOrder) /\ Mirror(h)' = leafRows'[h]
    BY <1>8 DEF Memory
  <2>1. leafRows' = leafRows
    BY <1>1 DEF dbVars
  <2>2. CASE h = g
    BY <2>1, <2>2, <1>4, <1>7 DEF Mirror
  <2>3. CASE h # g
    BY <2>1, <2>3, <1>7 DEF TickIInv, Memory, Mirror, Auth
  <2> QED BY <2>2, <2>3
<1> QED BY <1>1, <1>8, <1>10, <1>11, <1>12, BootStepKeeps

LEMMA PublishStateStep ==
    ASSUME OneTickAtATime, TickIInv, PublishState(Startup) PROVE TickIInv'
<1>1. /\ Pc = "rebuild" /\ state' = Startup
      /\ pc' = [pc EXCEPT ![Startup] = "reconcile"]
      /\ todo' = [todo EXCEPT ![Startup] = GroupOrder]
      /\ UNCHANGED <<registryVars, dbVars, up, mem, running, job, mempool>>
  BY DEF PublishState, Pc
<1>2. TaskTyped' /\ Pc' = "reconcile" /\ Todo' = GroupOrder
  <2>1. "reconcile" \in Pcs /\ Startup \in Tasks
    BY Assumptions DEF Pcs
  <2> QED BY <1>1, <2>1, GroupTypes, MovesTo DEF TickIInv, TaskTyped
<1>3. ~AtRow /\ ~AtRow' /\ up
  BY <1>1, <1>2, NothingSent DEF AtRow
<1>4. Process'
  BY <1>1, <1>2, <1>3 DEF TickIInv, Process
<1>5. Memory'
  <2> SUFFICES ASSUME NEW h \in Groups, Auth(h)'
               PROVE  h \in ElementsOf(GroupOrder) /\ Mirror(h)' = leafRows'[h]
    BY <1>2 DEF Memory
  <2> QED BY <1>1 DEF TickIInv, Memory, Mirror, Auth, dbVars
<1> QED BY <1>1, <1>2, <1>3, <1>4, <1>5, BootStepKeeps

LEMMA BootedStep ==
    ASSUME OneTickAtATime, TickIInv, Booted(Startup) PROVE TickIInv'
<1>1. /\ Pc = "reconcile" /\ Todo = << >>
      /\ pc' = [pc EXCEPT ![Startup] = "booted"]
      /\ UNCHANGED <<registryVars, dbVars, up, state, mem, running, todo, job, mempool>>
  BY DEF Booted, Pc, Todo
<1>2. TaskTyped' /\ Pc' = "booted"
  <2>1. "booted" \in Pcs /\ "booted" \notin BootPcs
    BY DEF Pcs, BootPcs
  <2> QED BY <1>1, <2>1, MovesTo DEF TickIInv, TaskTyped
<1>3. ~AtRow /\ ~AtRow' /\ up
  BY <1>1, <1>2, NothingSent DEF AtRow
<1>4. Process'
  BY <1>1, <1>2, <1>3 DEF TickIInv, Process
<1>5. Memory'
  <2> SUFFICES ASSUME NEW h \in Groups, Auth(h)'
               PROVE  h \in ElementsOf(GroupOrder) /\ Mirror(h)' = leafRows'[h] /\ Settled(h)'
    BY <1>2 DEF Memory
  <2>1. Auth(h) /\ h \notin ElementsOf(Todo)
    BY <1>1, NoElements DEF Auth
  <2>2. h \in ElementsOf(GroupOrder) /\ Mirror(h) = leafRows[h] /\ Settled(h)
    BY <1>1, <2>1 DEF TickIInv, Memory
  <2> QED BY <1>1, <2>2 DEF Mirror, Settled, dbVars, registryVars, ringVars
<1> QED BY <1>1, <1>2, <1>3, <1>4, <1>5, BootStepKeeps

LEMMA AskRootStep ==
    ASSUME OneTickAtATime, TickIInv, AskRoot(Startup) PROVE TickIInv'
<1>1. /\ Pc = "reconcile" /\ Todo # << >>
      /\ UNCHANGED <<registryVars, dbVars, up, state, mem, running, mempool>>
  BY DEF AskRoot, Pc, Todo
<1>2. PICK g : g = Head(Todo)
  OBVIOUS
<1>3. Todo \in Seq(ElementsOf(GroupOrder))
  BY <1>1 DEF TickIInv, TaskTyped, BootPcs
<1>4. /\ g \in Groups /\ Tail(Todo) \in Seq(ElementsOf(GroupOrder))
      /\ \A h \in ElementsOf(Todo) : h = g \/ h \in ElementsOf(Tail(Todo))
  BY <1>1, <1>2, <1>3, TailElements, GroupTypes
<1>5. \A h \in Groups : Auth(h)' => Auth(h)
  BY <1>1 DEF Auth
<1>6. \A h \in Groups : Mirror(h)' = Mirror(h) /\ leafRows'[h] = leafRows[h] /\ (Settled(h) => Settled(h)')
  BY <1>1 DEF Mirror, Settled, dbVars, registryVars, ringVars
<1>7. \A h \in Groups : Auth(h) =>
          /\ h \in ElementsOf(GroupOrder) /\ Mirror(h) = leafRows[h]
          /\ Settled(h) \/ h \in ElementsOf(Todo)
  BY <1>1 DEF TickIInv, Memory
<1>8. ~AtRow /\ up
  BY <1>1, NothingSent DEF AtRow
<1>9. CASE Mirror(g) = << >> /\ todo' = [todo EXCEPT ![Startup] = Tail(Todo)] /\ UNCHANGED <<pc, job>>
  <2>1. TaskTyped' /\ Pc' = "reconcile" /\ Todo' = Tail(Todo)
    <3>1. "reconcile" \in Pcs /\ pc' = [pc EXCEPT ![Startup] = "reconcile"]
      BY <1>1, <1>9, Assumptions DEF Pcs, Pc, TickIInv, TaskTyped
    <3> QED BY <1>1, <1>4, <1>9, <3>1, MovesTo DEF TickIInv, TaskTyped
  <2>2. ~AtRow'
    BY <2>1 DEF AtRow
  <2>3. Process'
    BY <1>1, <1>8, <2>1, <2>2 DEF TickIInv, Process
  <2>4. Memory'
    <3> SUFFICES ASSUME NEW h \in Groups, Auth(h)'
                 PROVE  /\ h \in ElementsOf(GroupOrder) /\ Mirror(h)' = leafRows'[h]
                        /\ Settled(h)' \/ h \in ElementsOf(Tail(Todo))
      BY <2>1 DEF Memory
    <3>1. h = g => Settled(h)
      BY <1>5, <1>7, <1>9 DEF Settled
    <3> QED BY <3>1, <1>4, <1>5, <1>6, <1>7
  <2> QED BY <1>1, <1>8, <2>1, <2>2, <2>3, <2>4, BootStepKeeps
<1>10. CASE /\ job' = [job EXCEPT ![Startup].root = Mirror(g)]
            /\ pc' = [pc EXCEPT ![Startup] = "reading"]
            /\ UNCHANGED todo
  <2>1. job' \in [Tasks -> JobType] /\ Posting'.root = Mirror(g)
    <3>1. PICK s : s = Mirror(g)
      OBVIOUS
    <3>2. s \in Seq(Requests)
      BY <3>1, <1>4, Assumptions DEF Mirror, TickIInv, TaskTyped, GroupState
    <3>3. PICK j : j = job[Startup]
      OBVIOUS
    <3>4. PICK k : k = [j EXCEPT !.root = s]
      OBVIOUS
    <3>5. j \in JobType
      BY <3>3, Assumptions DEF TickIInv, TaskTyped
    <3>6. k \in JobType /\ k.root = s
      BY <3>2, <3>4, <3>5 DEF JobType
    <3>7. job' = [job EXCEPT ![Startup] = k]
      BY <1>10, <3>1, <3>3, <3>4
    <3> QED BY <3>1, <3>6, <3>7, Assumptions DEF TickIInv, TaskTyped, Posting
  <2>2. TaskTyped' /\ Pc' = "reading" /\ Todo' = Todo
    <3>1. "reading" \in Pcs
      BY DEF Pcs
    <3> QED BY <1>1, <1>3, <1>10, <2>1, <3>1, MovesTo DEF TickIInv, TaskTyped, Todo
  <2>3. ~AtRow'
    BY <2>2 DEF AtRow
  <2>4. Process'
    BY <1>1, <1>8, <2>2, <2>3 DEF TickIInv, Process
  <2>5. Memory'
    <3>1. Posting'.root = Mirror(Head(Todo))' /\ Todo' # << >>
      BY <1>1, <1>2, <1>4, <1>6, <2>1, <2>2
    <3> SUFFICES ASSUME NEW h \in Groups, Auth(h)'
                 PROVE  /\ h \in ElementsOf(GroupOrder) /\ Mirror(h)' = leafRows'[h]
                        /\ Settled(h)' \/ h \in ElementsOf(Todo)
      BY <2>2, <3>1 DEF Memory
    <3> QED BY <1>5, <1>6, <1>7
  <2> QED BY <1>1, <1>8, <2>2, <2>3, <2>4, <2>5, BootStepKeeps
<1> QED BY <1>2, <1>9, <1>10 DEF AskRoot, Mirror, Todo

LEMMA CompareRootStep ==
    ASSUME OneTickAtATime, TickIInv, CompareRoot(Startup) PROVE TickIInv'
<1>1. /\ Pc = "reading"
      /\ pc' = [pc EXCEPT ![Startup] = "reconcile"]
      /\ todo' = [todo EXCEPT ![Startup] = Tail(Todo)]
      /\ UNCHANGED <<registryVars, dbVars, up, state, running, job, mempool>>
  BY DEF CompareRoot, Pc, Todo
<1>2. PICK g : g = Head(Todo)
  OBVIOUS
<1>3. Todo \in Seq(ElementsOf(GroupOrder)) /\ Todo # << >> /\ Posting.root = Mirror(g)
  BY <1>1, <1>2 DEF TickIInv, TaskTyped, BootPcs, Memory
<1>4. /\ g \in Groups /\ Tail(Todo) \in Seq(ElementsOf(GroupOrder))
      /\ \A h \in ElementsOf(Todo) : h = g \/ h \in ElementsOf(Tail(Todo))
  BY <1>2, <1>3, TailElements, GroupTypes
<1>5. PICK a \in BOOLEAN :
          /\ mem' = [mem EXCEPT ![Startup][g].authorised = a]
          /\ a => Auth(g) /\ currentRoot[g] = Mirror(g)
  <2>1. CASE mem' = [mem EXCEPT ![Startup][g].authorised = @ /\ currentRoot[g] = Posting.root]
    <3>1. PICK a : a = (Auth(g) /\ currentRoot[g] = Posting.root)
      OBVIOUS
    <3>2. mem' = [mem EXCEPT ![Startup][g].authorised = a]
      BY <2>1, <3>1 DEF Auth
    <3>3. a \in BOOLEAN
      BY <3>1
    <3> QED BY <3>1, <3>2, <3>3, <1>3
  <2>2. CASE mem' = [mem EXCEPT ![Startup][g].authorised = FALSE]
    BY <2>2
  <2> QED BY <1>2, <2>1, <2>2 DEF CompareRoot, Todo, Posting
<1>6. /\ mem' \in [Tasks -> [Groups -> GroupState]]
      /\ \A h \in Groups : h # g => mem'[Startup][h] = mem[Startup][h]
      /\ mem'[Startup][g].leaves = mem[Startup][g].leaves
      /\ Auth(g)' => Auth(g) /\ currentRoot[g] = Mirror(g)
  BY <1>4, <1>5, MemoryRole DEF TickIInv, TaskTyped, Auth
<1>7. TaskTyped' /\ Pc' = "reconcile" /\ Todo' = Tail(Todo)
  <2>1. "reconcile" \in Pcs
    BY DEF Pcs
  <2> QED BY <1>1, <1>4, <1>6, <2>1, MovesTo DEF TickIInv, TaskTyped
<1>8. ~AtRow /\ ~AtRow' /\ up
  BY <1>1, <1>7, NothingSent DEF AtRow
<1>9. Process'
  BY <1>1, <1>7, <1>8 DEF TickIInv, Process
<1>10. Memory'
  <2> SUFFICES ASSUME NEW h \in Groups, Auth(h)'
               PROVE  /\ h \in ElementsOf(GroupOrder) /\ Mirror(h)' = leafRows'[h]
                      /\ Settled(h)' \/ h \in ElementsOf(Tail(Todo))
    BY <1>7 DEF Memory
  <2>1. Auth(h) /\ Mirror(h)' = Mirror(h)
    BY <1>6 DEF Auth, Mirror
  <2>2. /\ h \in ElementsOf(GroupOrder) /\ Mirror(h) = leafRows[h]
        /\ Settled(h) \/ h \in ElementsOf(Todo)
    BY <2>1, <1>1 DEF TickIInv, Memory
  <2>3. h = g => Settled(h)
    BY <1>6, <2>2 DEF Settled
  <2>4. leafRows' = leafRows /\ (Settled(h) => Settled(h)')
    BY <1>1 DEF dbVars, registryVars, ringVars, Settled
  <2> QED BY <1>4, <2>1, <2>2, <2>3, <2>4
<1> QED BY <1>1, <1>7, <1>8, <1>9, <1>10, BootStepKeeps

-----------------------------------------------------------------------------
(* A pass *)

(* What the roles of a pass have in common: outside a bootstrap, and but    *)
(* for the receipt that is in, the chain has what the table has.           *)
LEMMA AuthIsSettled ==
    ASSUME TickIInv, NEW h \in Groups, Auth(h), Pc \notin BootPcs,
           Pc = "waiting" /\ h = GroupOf[Head(Todo)] => Posting.outcome # "mined"
    PROVE  h \in ElementsOf(GroupOrder) /\ Mirror(h) = leafRows[h] /\ Settled(h)
BY DEF TickIInv, Memory, BootPcs

LEMMA EnterStep ==
    ASSUME OneTickAtATime, TickIInv, Pc \in {"idle", "booted"}, up, EnterLoop(Startup),
           UNCHANGED <<registryVars, dbVars, up, state, mem, job, mempool>>
    PROVE  TickIInv'
<1>1. /\ Pending \in Seq(Requests)
      /\ \A r : r \in ElementsOf(Pending) <=> r \in ElementsOf(reviewed) /\ ~Recorded(r)
      /\ \A i, j \in DOMAIN Pending : i < j => Before(Pending[i], Pending[j])
  BY PendingIs DEF TickIInv
<1>2. PICK s : s = Pending
  OBVIOUS
<1>3. /\ running' = TRUE
      /\ pc' = [pc EXCEPT ![Startup] = "loop"]
      /\ todo' = [todo EXCEPT ![Startup] = s]
  BY <1>2 DEF EnterLoop
<1>4. TaskTyped' /\ Pc' = "loop" /\ Todo' = s
  <2>1. "loop" \in Pcs /\ "loop" \notin BootPcs
    BY DEF Pcs, BootPcs
  <2> QED BY <1>1, <1>2, <1>3, <2>1, MovesTo DEF TickIInv, TaskTyped
<1>5. AtRow' /\ ~AtRow
  BY <1>4 DEF AtRow
<1>6. UNCHANGED <<ringVars, posted, currentRoot, reviewed, leafRows>>
  BY DEF registryVars, dbVars, ringVars
<1>7. Onward
  BY <1>1, <1>2, <1>4, <1>6, QuietOnward
<1>8. Process'
  BY <1>3, <1>4, <1>5 DEF TickIInv, Process
<1>9. Memory'
  <2> SUFFICES ASSUME NEW h \in Groups, Auth(h)'
               PROVE  h \in ElementsOf(GroupOrder) /\ Mirror(h)' = leafRows'[h] /\ Settled(h)'
    BY <1>4 DEF Memory
  <2>1. Auth(h)
    BY DEF Auth
  <2>2. h \in ElementsOf(GroupOrder) /\ Mirror(h) = leafRows[h] /\ Settled(h)
    BY <2>1, AuthIsSettled DEF BootPcs
  <2> QED BY <1>6, <2>2 DEF Mirror, Settled
<1>10. \A q, r : Before(q, r) <=> Before(q, r)'
  BY <1>6 DEF Before
<1>11. Pass'
  <2>1. \A q : Open(q)' => q \in ElementsOf(s)
    BY <1>1, <1>2, <1>4, <1>6 DEF Open, Recorded
  <2>2. \A r \in ElementsOf(s) : r \in ElementsOf(reviewed')
    BY <1>1, <1>2, <1>6
  <2>3. \A i, j \in DOMAIN s : i < j => Before(s[i], s[j])'
    BY <1>1, <1>2, <1>10
  <2> QED BY <1>4, <2>1, <2>2, <2>3 DEF Pass
<1>12. Waiting'
  BY <1>4 DEF Waiting
<1>13. mempool = << >>
  BY NothingSent
<1>14. Mempool'
  BY <1>13 DEF Mempool
<1>15. RegistryTypeOK' /\ RowsTyped'
  BY <1>6 DEF TickIInv, RegistryTypeOK, RowsTyped, registryVars, ringVars
<1> QED BY <1>4, <1>6, <1>7, <1>8, <1>9, <1>11, <1>12, <1>14, <1>15, AroundKeeps

LEMMA LeaveStep ==
    ASSUME OneTickAtATime, TickIInv, AtRow, Leave(Startup), mempool = << >>,
           UNCHANGED <<registryVars, dbVars, up, state, mempool>>,
           mem' \in [Tasks -> [Groups -> GroupState]], job' \in [Tasks -> JobType],
           \A h \in Groups : Auth(h)' => Auth(h) /\ Settled(h) /\ Mirror(h)' = Mirror(h)
    PROVE  TickIInv'
<1>1. /\ running' = FALSE
      /\ pc' = [pc EXCEPT ![Startup] = "idle"]
      /\ todo' = [todo EXCEPT ![Startup] = << >>]
  BY DEF Leave
<1>2. TaskTyped' /\ Pc' = "idle"
  <2>1. "idle" \in Pcs /\ "idle" \notin BootPcs
    BY DEF Pcs, BootPcs
  <2> QED BY <1>1, <2>1, MovesTo DEF TickIInv, TaskTyped
<1>3. ~AtRow' /\ up /\ Pc # "rebuild"
  BY <1>2, NothingSent DEF AtRow
<1>4. UNCHANGED <<ringVars, posted, currentRoot, reviewed, leafRows>>
  BY DEF registryVars, dbVars, ringVars
<1>5. Onward
  BY <1>3, <1>4, QuietOnward
<1>6. Process'
  BY <1>1, <1>2, <1>3 DEF TickIInv, Process
<1>7. Memory'
  <2> SUFFICES ASSUME NEW h \in Groups, Auth(h)'
               PROVE  h \in ElementsOf(GroupOrder) /\ Mirror(h)' = leafRows'[h] /\ Settled(h)'
    BY <1>2 DEF Memory
  <2>1. Auth(h) /\ Settled(h) /\ Mirror(h)' = Mirror(h)
    OBVIOUS
  <2>2. h \in ElementsOf(GroupOrder) /\ Mirror(h) = leafRows[h]
    BY <2>1 DEF TickIInv, Memory
  <2>3. Settled(h)'
    BY <2>1, <1>4 DEF Settled
  <2> QED BY <1>4, <2>1, <2>2, <2>3
<1>8. Pass' /\ Waiting' /\ Mempool'
  BY <1>2, <1>3 DEF Pass, Waiting, Mempool
<1>9. RegistryTypeOK' /\ RowsTyped'
  BY <1>4 DEF TickIInv, RegistryTypeOK, RowsTyped, registryVars, ringVars
<1> QED BY <1>2, <1>4, <1>5, <1>6, <1>7, <1>8, <1>9, AroundKeeps

LEMMA TickStep ==
    ASSUME OneTickAtATime, TickIInv, Tick(Startup) PROVE TickIInv'
<1>1. up /\ Pc = "idle" /\ EnterLoop(Startup)
  BY DEF Tick, Pc
<1> QED BY <1>1, EnterStep DEF Tick

LEMMA TickAfterBootStep ==
    ASSUME OneTickAtATime, TickIInv, TickAfterBoot(Startup) PROVE TickIInv'
<1>1. Pc = "booted"
  BY DEF TickAfterBoot, Pc
<1>2. up /\ ~running
  BY <1>1, NothingSent DEF TickIInv, Process, AtRow
<1>3. EnterLoop(Startup)
  BY <1>2 DEF TickAfterBoot
<1> QED BY <1>1, <1>2, <1>3, EnterStep DEF TickAfterBoot

LEMMA EndTickStep ==
    ASSUME OneTickAtATime, TickIInv, EndTick(Startup) PROVE TickIInv'
<1>1. Pc = "loop" /\ AtRow /\ Leave(Startup)
      /\ UNCHANGED <<registryVars, dbVars, up, state, mem, job, mempool>>
  BY DEF EndTick, Pc, AtRow
<1>2. mempool = << >>
  BY <1>1, NothingSent
<1>3. \A h \in Groups : Auth(h)' => Auth(h) /\ Settled(h) /\ Mirror(h)' = Mirror(h)
  <2> SUFFICES ASSUME NEW h \in Groups, Auth(h)' PROVE Auth(h) /\ Settled(h) /\ Mirror(h)' = Mirror(h)
    OBVIOUS
  <2>1. Auth(h) /\ Mirror(h)' = Mirror(h)
    BY <1>1 DEF Auth, Mirror
  <2> QED BY <1>1, <2>1, AuthIsSettled DEF BootPcs
<1>4. mem' \in [Tasks -> [Groups -> GroupState]] /\ job' \in [Tasks -> JobType]
  BY <1>1 DEF TickIInv, TaskTyped
<1> QED BY <1>1, <1>2, <1>3, <1>4, LeaveStep

LEMMA PostRevertedStep ==
    ASSUME OneTickAtATime, TickIInv, PostReverted(Startup) PROVE TickIInv'
<1>1. Pc = "waiting" /\ AtRow /\ Leave(Startup) /\ Posting.outcome = "reverted"
      /\ job' = [job EXCEPT ![Startup] = NoJob]
      /\ UNCHANGED <<registryVars, dbVars, up, state, mem, mempool>>
  BY DEF PostReverted, Pc, AtRow, Posting
<1>2. mempool = << >>
  BY <1>1, NothingSent
<1>3. \A h \in Groups : Auth(h)' => Auth(h) /\ Settled(h) /\ Mirror(h)' = Mirror(h)
  <2> SUFFICES ASSUME NEW h \in Groups, Auth(h)' PROVE Auth(h) /\ Settled(h) /\ Mirror(h)' = Mirror(h)
    OBVIOUS
  <2>1. Auth(h) /\ Mirror(h)' = Mirror(h)
    BY <1>1 DEF Auth, Mirror
  <2> QED BY <1>1, <2>1, AuthIsSettled DEF BootPcs
<1>4. mem' \in [Tasks -> [Groups -> GroupState]] /\ job' \in [Tasks -> JobType]
  <2>1. NoJob \in JobType
    <3>1. << >> \in Seq(Requests)
      OBVIOUS
    <3> QED BY <3>1 DEF NoJob, JobType
  <2> QED BY <1>1, <2>1 DEF TickIInv, TaskTyped
<1> QED BY <1>1, <1>2, <1>3, <1>4, LeaveStep

(* The row a pass is at, and the rows behind it. *)
LEMMA PassHead ==
    ASSUME TickIInv, AtRow, Todo # << >>, NEW r, r = Head(Todo)
    PROVE  /\ r \in Requests /\ r \in ElementsOf(reviewed) /\ Open(r)
           /\ r \in ElementsOf(Todo) /\ r \notin ElementsOf(Tail(Todo))
           /\ Tail(Todo) \in Seq(Requests)
           /\ ElementsOf(Tail(Todo)) \subseteq ElementsOf(Todo)
           /\ \A q \in ElementsOf(Todo) : q = r \/ q \in ElementsOf(Tail(Todo))
           /\ \A q \in ElementsOf(Tail(Todo)) : Before(r, q)
           /\ \A i, j \in DOMAIN Tail(Todo) : i < j => Before(Tail(Todo)[i], Tail(Todo)[j])
           /\ Auth(GroupOf[r]) => FirstOfGroup(GroupOf[r], r)
<1>1. /\ \A q \in ElementsOf(Todo) : q \in ElementsOf(reviewed)
      /\ \A i, j \in DOMAIN Todo : i < j => Before(Todo[i], Todo[j])
      /\ \A p, q \in Requests :
            /\ GroupOf[p] = GroupOf[q] /\ Auth(GroupOf[q]) /\ Open(p)
            /\ q \in ElementsOf(Todo) /\ Before(p, q)
            => p \in ElementsOf(Todo)
  BY DEF TickIInv, Pass
<1>2. Todo \in Seq(Requests) /\ RowsTyped
  BY DEF TickIInv, TaskTyped
<1>3. /\ Tail(Todo) \in Seq(Requests)
      /\ r \in Requests /\ r \in ElementsOf(Todo)
      /\ ElementsOf(Tail(Todo)) \subseteq ElementsOf(Todo)
      /\ \A e \in ElementsOf(Todo) : e = r \/ e \in ElementsOf(Tail(Todo))
  BY <1>2, TailElements
<1>4. PICK w : w = Tail(Todo)
  OBVIOUS
<1>5. PICK s : s = Todo
  OBVIOUS
<1>6. /\ Len(s) \in Nat /\ Len(s) # 0 /\ Len(w) = Len(s) - 1
      /\ r = s[1] /\ \A i \in 1..Len(w) : w[i] = s[i + 1]
      /\ DOMAIN s = 1..Len(s) /\ DOMAIN w = 1..Len(w)
  BY <1>2, <1>3, <1>4, <1>5, HeadTailProperties
<1>7. /\ 1 \in DOMAIN s
      /\ \A i \in DOMAIN w : i + 1 \in DOMAIN s /\ 1 < i + 1 /\ w[i] = s[i + 1]
      /\ \A i, j \in DOMAIN w : i < j => i + 1 < j + 1
  BY <1>6
<1>8. \A i, j \in DOMAIN w : i < j => Before(w[i], w[j])
  BY <1>1, <1>5, <1>7
<1>9. \A q \in ElementsOf(w) : Before(r, q)
  <2> SUFFICES ASSUME NEW i \in DOMAIN w PROVE Before(r, w[i])
    BY DEF ElementsOf
  <2> QED BY <1>1, <1>5, <1>6, <1>7
<1>10. r \notin ElementsOf(w)
  BY <1>2, <1>9, BeforeIsOrder
<1>11. r \in ElementsOf(reviewed) /\ Open(r)
  BY <1>1, <1>3 DEF Open
<1>12. Auth(GroupOf[r]) => FirstOfGroup(GroupOf[r], r)
  <2> SUFFICES ASSUME Auth(GroupOf[r]), NEW q \in Requests, GroupOf[q] = GroupOf[r], Before(q, r), Open(q)
               PROVE  FALSE
    BY DEF FirstOfGroup
  <2>1. q \in ElementsOf(Todo)
    BY <1>1, <1>3
  <2>2. q # r /\ ~Before(r, q)
    BY <1>2, BeforeIsOrder
  <2> QED BY <2>1, <2>2, <1>3, <1>4, <1>9
<1> QED BY <1>3, <1>4, <1>8, <1>9, <1>10, <1>11, <1>12

LEMMA SkipRowStep ==
    ASSUME OneTickAtATime, TickIInv, SkipRow(Startup) PROVE TickIInv'
<1>1. /\ Pc = "loop" /\ Todo # << >> /\ AtRow
      /\ todo' = [todo EXCEPT ![Startup] = Tail(Todo)]
      /\ UNCHANGED <<registryVars, dbVars, up, state, mem, running, pc, job, mempool>>
  BY DEF SkipRow, Pc, Todo, AtRow
<1>2. up /\ state = Startup /\ mempool = << >>
  BY <1>1, NothingSent DEF TickIInv, Process
<1>3. PICK r : r = Head(Todo)
  OBVIOUS
<1>4. ~Auth(GroupOf[r])
  BY <1>2, <1>3 DEF SkipRow, Auth, Todo
<1>5. /\ Tail(Todo) \in Seq(Requests)
      /\ ElementsOf(Tail(Todo)) \subseteq ElementsOf(Todo)
      /\ \A q \in ElementsOf(Todo) : q = r \/ q \in ElementsOf(Tail(Todo))
      /\ \A i, j \in DOMAIN Tail(Todo) : i < j => Before(Tail(Todo)[i], Tail(Todo)[j])
  BY <1>1, <1>3, PassHead
<1>6. PICK w : w = Tail(Todo)
  OBVIOUS
<1>7. TaskTyped' /\ Pc' = "loop" /\ Todo' = w
  <2>1. "loop" \in Pcs /\ "loop" \notin BootPcs /\ pc' = [pc EXCEPT ![Startup] = "loop"]
    BY <1>1, Assumptions DEF Pcs, BootPcs, Pc, TickIInv, TaskTyped
  <2> QED BY <1>1, <1>5, <1>6, <2>1, MovesTo DEF TickIInv, TaskTyped
<1>8. AtRow'
  BY <1>7 DEF AtRow
<1>9. UNCHANGED <<ringVars, posted, currentRoot, reviewed, leafRows>>
  BY <1>1 DEF registryVars, dbVars, ringVars
<1>10. Onward
  BY <1>1, <1>5, <1>6, <1>7, <1>9, QuietOnward
<1>11. Process'
  BY <1>1, <1>7, <1>8 DEF TickIInv, Process
<1>12. Memory'
  <2> SUFFICES ASSUME NEW h \in Groups, Auth(h)'
               PROVE  h \in ElementsOf(GroupOrder) /\ Mirror(h)' = leafRows'[h] /\ Settled(h)'
    BY <1>7 DEF Memory
  <2>1. Auth(h)
    BY <1>1 DEF Auth
  <2>2. h \in ElementsOf(GroupOrder) /\ Mirror(h) = leafRows[h] /\ Settled(h)
    BY <1>1, <2>1, AuthIsSettled DEF BootPcs
  <2> QED BY <1>1, <1>9, <2>2 DEF Mirror, Settled
<1>13. \A q, p : Before(q, p) <=> Before(q, p)'
  BY <1>9 DEF Before
<1>14. Pass'
  <2>1. \A q \in ElementsOf(w) : q \in ElementsOf(reviewed')
    BY <1>1, <1>5, <1>6, <1>9 DEF TickIInv, Pass
  <2>2. \A i, j \in DOMAIN w : i < j => Before(w[i], w[j])'
    BY <1>5, <1>6, <1>13
  <2>3. ASSUME NEW p \in Requests, NEW q \in Requests, GroupOf[p] = GroupOf[q], Auth(GroupOf[q])', Open(p)',
               q \in ElementsOf(w), Before(p, q)'
        PROVE  p \in ElementsOf(w)
    <3>1. Auth(GroupOf[q]) /\ Before(p, q) /\ q \in ElementsOf(Todo)
      BY <1>1, <1>5, <1>6, <1>13, <2>3 DEF Auth
    <3>2. Open(p)
      <4>1. p \in ElementsOf(reviewed)
        BY <3>1, BeforeIsOrder DEF TickIInv
      <4> QED BY <4>1, <1>10, <2>3 DEF Onward
    <3>3. p \in ElementsOf(Todo)
      BY <1>1, <2>3, <3>1, <3>2 DEF TickIInv, Pass
    <3>4. p # r
      BY <1>4, <2>3, <3>1
    <3> QED BY <1>5, <1>6, <3>3, <3>4
  <2> QED BY <1>7, <2>1, <2>2, <2>3 DEF Pass
<1>15. Waiting' /\ Mempool'
  BY <1>1, <1>2, <1>7 DEF Waiting, Mempool
<1>16. RegistryTypeOK' /\ RowsTyped'
  BY <1>1, <1>9 DEF TickIInv, RegistryTypeOK, RowsTyped, registryVars, ringVars
<1> QED BY <1>7, <1>9, <1>10, <1>11, <1>12, <1>14, <1>15, <1>16, AroundKeeps

(* Every tree posted to a settled group is at most as long as the table,    *)
(* and its last leaf needs no more.                                        *)
LEMMA SettledPosts ==
    ASSUME NEW g, PostsOf(g), Settled(g), leafRows[g] # << >>, leafRows[g] \in Seq(Requests),
           posted[g] \in Seq(Seq(Requests))
    PROVE  /\ Len(posted[g]) > 0 /\ posted[g][Len(posted[g])] = leafRows[g]
           /\ \A i \in 1..Len(posted[g]) : /\ Len(posted[g][i]) <= Len(leafRows[g])
                                           /\ ~Open(LeafOf(posted[g][i]))
<1>1. PICK p : p = posted[g]
  OBVIOUS
<1>2. PICK s : s = leafRows[g]
  OBVIOUS
<1>3. PICK n : n = Len(p)
  OBVIOUS
<1>4. /\ n > 0 /\ \A i \in 1..(n - 1) : Len(p[i]) <= Len(s)
      /\ \A i \in 1..n : Len(p[i]) <= Len(s) => ~Open(LeafOf(p[i]))
      /\ currentRoot[g] = IF n = 0 THEN NoRoot ELSE p[n]
      /\ leafCount[g] = n
  BY <1>1, <1>2, <1>3 DEF PostsOf
<1>5. currentRoot[g] = s
  BY <1>2 DEF Settled
<1>6. p[n] = s
  BY <1>4, <1>5
<1>7. Len(s) \in Nat
  BY <1>2
<1>8. \A i \in 1..n : i = n \/ i \in 1..(n - 1)
  <2>1. n \in Nat
    BY <1>1, <1>3
  <2> QED BY <2>1
<1>9. \A i \in 1..n : Len(p[i]) <= Len(s)
  BY <1>4, <1>6, <1>7, <1>8
<1> QED BY <1>1, <1>2, <1>3, <1>4, <1>6, <1>9

LEMMA SingletonIs == \A e : <<e>> = [i \in 1..1 |-> e]
OBVIOUS

LEMMA SingletonNotEmpty == \A e : <<e>> # << >>
OBVIOUS

(* What a pass posts is a new leaf. *)
LEMMA NextIsNewLeaf ==
    ASSUME TickIInv, Pc = "loop", Todo # << >>, NEW r, r = Head(Todo), Auth(GroupOf[r])
    PROVE  NewLeaf(GroupOf[r], r)
<1>1. AtRow
  BY DEF AtRow
<1>2. r \in Requests /\ r \in ElementsOf(reviewed) /\ Open(r) /\ FirstOfGroup(GroupOf[r], r)
  BY <1>1, PassHead
<1>3. GroupOf[r] \in Groups
  BY <1>2, RowGroups
<1>4. Settled(GroupOf[r])
  BY <1>3, AuthIsSettled DEF BootPcs
<1>5. ASSUME leafRows[GroupOf[r]] # << >>, NEW i \in DOMAIN posted[GroupOf[r]]
      PROVE  LeafOf(posted[GroupOf[r]][i]) # r
  <2>1. DOMAIN posted[GroupOf[r]] = 1..Len(posted[GroupOf[r]])
    BY <1>3 DEF TickIInv, PostsTyped
  <2>2. ~Open(LeafOf(posted[GroupOf[r]][i]))
    BY <1>3, <1>4, <1>5, <2>1, SettledPosts DEF TickIInv, RowsTyped, PostsTyped
  <2> QED BY <2>2, <1>2
<1> QED BY <1>2, <1>4, <1>5 DEF NewLeaf

LEMMA SentStep ==
    ASSUME OneTickAtATime, TickIInv, Pc = "loop", Todo # << >>, NEW r, r = Head(Todo),
           Auth(GroupOf[r]), mempool' = Append(mempool, Tx(r, TRUE)),
           job' = [job EXCEPT ![Startup] =
                      [gen |-> Startup, root |-> Append(leafRows[GroupOf[r]], r), outcome |-> "sent"]],
           pc' = [pc EXCEPT ![Startup] = "waiting"],
           UNCHANGED <<registryVars, dbVars, up, state, mem, running, todo>>
    PROVE  TickIInv'
<1>1. AtRow /\ up /\ mempool = << >>
  BY NothingSent DEF AtRow
<1>2. NewLeaf(GroupOf[r], r)
  BY NextIsNewLeaf
<1>3. r \in Requests /\ GroupOf[r] \in Groups
  BY <1>1, PassHead, RowGroups
<1>4. PICK s : s = Append(leafRows[GroupOf[r]], r)
  OBVIOUS
<1>5. s \in Seq(Requests)
  BY <1>3, <1>4 DEF TickIInv, RowsTyped
<1>6. job' \in [Tasks -> JobType] /\ Posting'.gen = Startup /\ Posting'.root = s /\ Posting'.outcome = "sent"
  <2>1. PICK j : j = [gen |-> Startup, root |-> s, outcome |-> "sent"]
    OBVIOUS
  <2>2. j \in JobType /\ j.gen = Startup /\ j.root = s /\ j.outcome = "sent"
    BY <1>5, <2>1, Assumptions DEF JobType
  <2>3. job' = [job EXCEPT ![Startup] = j]
    BY <1>4, <2>1
  <2>4. job \in [Tasks -> JobType] /\ Startup \in Tasks
    BY Assumptions DEF TickIInv, TaskTyped
  <2>5. job' \in [Tasks -> JobType]
    BY <2>2, <2>3, <2>4
  <2>6. job'[Startup] = j
    BY <2>3, <2>4
  <2> QED BY <2>2, <2>5, <2>6 DEF Posting
<1>7. TaskTyped' /\ Pc' = "waiting" /\ Todo' = Todo
  <2>1. "waiting" \in Pcs /\ "waiting" \notin BootPcs /\ Todo \in Seq(Requests)
    BY <1>1 DEF Pcs, BootPcs, TickIInv, TaskTyped
  <2> QED BY <1>6, <2>1, MovesTo DEF TickIInv, TaskTyped, Todo
<1>8. AtRow'
  BY <1>7 DEF AtRow
<1>9. UNCHANGED <<ringVars, posted, currentRoot, reviewed, leafRows>>
  BY DEF registryVars, dbVars, ringVars
<1>10. Onward
  BY <1>1, <1>7, <1>9, QuietOnward
<1>11. Process'
  BY <1>1, <1>7, <1>8 DEF TickIInv, Process
<1>12. Memory'
  <2> SUFFICES ASSUME NEW h \in Groups, Auth(h)'
               PROVE  h \in ElementsOf(GroupOrder) /\ Mirror(h)' = leafRows'[h] /\ Settled(h)'
    BY <1>7 DEF Memory
  <2>1. Auth(h)
    BY DEF Auth
  <2>2. h \in ElementsOf(GroupOrder) /\ Mirror(h) = leafRows[h] /\ Settled(h)
    BY <2>1, AuthIsSettled DEF BootPcs
  <2> QED BY <1>9, <2>2 DEF Mirror, Settled
<1>13. \A q, p : Before(q, p) <=> Before(q, p)'
  BY <1>9 DEF Before
<1>14. Pass'
  <2>1. \A q : Open(q)' => Open(q)
    <3>1. \A q : Recorded(q)' <=> Recorded(q)
      BY <1>9 DEF Recorded
    <3> QED BY <3>1, <1>1, <1>7, <1>9 DEF Open
  <2>2. \A h : Auth(h)' => Auth(h)
    BY DEF Auth
  <2> QED BY <1>1, <1>7, <1>9, <1>13, <2>1, <2>2 DEF TickIInv, Pass
<1>15. mempool' = <<Tx(r, TRUE)>>
  BY <1>1
<1>16. mempool' = <<Tx(r, up)'>>
  BY <1>1, <1>9, <1>15 DEF Tx
<1>17. Waiting'
  <2>1. Auth(GroupOf[r])' /\ mempool' # << >> /\ Head(Todo)' = r /\ leafRows' = leafRows
    <3>1. Auth(GroupOf[r])'
      BY DEF Auth
    <3>2. mempool' # << >>
      BY <1>15, SingletonNotEmpty, Zenon
    <3> QED BY <3>1, <3>2, <1>7, <1>9
  <2>2. Posting'.outcome = "sent" /\ Posting'.gen = Startup
        /\ Posting'.root = Append(leafRows'[GroupOf[r]], r) /\ Todo' # << >>
    BY <1>4, <1>6, <1>7, <2>1
  <2> QED BY <2>1, <2>2 DEF Waiting
<1>18. Mempool'
  <2>1. NewLeaf(GroupOf[r], r)'
    BY <1>2, <1>9, <1>10, NewLeafKept DEF TickIInv
  <2> QED BY <1>3, <1>7, <1>16, <2>1 DEF Mempool
<1>19. RegistryTypeOK' /\ RowsTyped'
  BY <1>9 DEF TickIInv, RegistryTypeOK, RowsTyped, registryVars, ringVars
<1> QED BY <1>7, <1>9, <1>10, <1>11, <1>12, <1>14, <1>17, <1>18, <1>19, AroundKeeps

LEMMA SendLeafStep ==
    ASSUME OneTickAtATime, TickIInv, SendLeaf(Startup) PROVE TickIInv'
<1>1. /\ Pc = "loop" /\ Todo # << >> /\ AtRow
      /\ UNCHANGED <<registryVars, dbVars, up, state, mem>>
  BY DEF SendLeaf, Pc, Todo, AtRow
<1>2. up /\ state = Startup /\ mempool = << >>
  BY <1>1, NothingSent DEF TickIInv, Process
<1>3. PICK r : r = Head(Todo)
  OBVIOUS
<1>4. Auth(GroupOf[r])
  BY <1>2, <1>3 DEF SendLeaf, Auth, Todo
<1>5. r \in Requests /\ GroupOf[r] \in Groups
  BY <1>1, <1>3, PassHead, RowGroups
<1>6. Mirror(GroupOf[r]) = leafRows[GroupOf[r]]
  BY <1>1, <1>4, <1>5, AuthIsSettled DEF BootPcs
<1>7. CASE /\ mempool' = Append(mempool, [group |-> GroupOf[r], root |-> Append(Mirror(GroupOf[r]), r),
                                          by |-> Startup, awaited |-> TRUE])
           /\ job' = [job EXCEPT ![Startup] = [gen |-> state, root |-> Append(Mirror(GroupOf[r]), r),
                                               outcome |-> "sent"]]
           /\ pc' = [pc EXCEPT ![Startup] = "waiting"]
           /\ UNCHANGED <<running, todo>>
  <2>1. mempool' = Append(mempool, Tx(r, TRUE))
    BY <1>6, <1>7 DEF Tx
  <2>2. job' = [job EXCEPT ![Startup] =
                   [gen |-> Startup, root |-> Append(leafRows[GroupOf[r]], r), outcome |-> "sent"]]
    BY <1>2, <1>6, <1>7
  <2> QED BY <1>1, <1>3, <1>4, <1>7, <2>1, <2>2, SentStep
<1>8. CASE Leave(Startup) /\ UNCHANGED <<mempool, job>>
  <2>1. \A h \in Groups : Auth(h)' => Auth(h) /\ Settled(h) /\ Mirror(h)' = Mirror(h)
    <3> SUFFICES ASSUME NEW h \in Groups, Auth(h)' PROVE Auth(h) /\ Settled(h) /\ Mirror(h)' = Mirror(h)
      OBVIOUS
    <3>1. Auth(h) /\ Mirror(h)' = Mirror(h)
      BY <1>1 DEF Auth, Mirror
    <3> QED BY <1>1, <3>1, AuthIsSettled DEF BootPcs
  <2>2. mem' \in [Tasks -> [Groups -> GroupState]] /\ job' \in [Tasks -> JobType]
    BY <1>1, <1>8 DEF TickIInv, TaskTyped
  <2> QED BY <1>1, <1>2, <1>8, <2>1, <2>2, LeaveStep
<1>9. ~Fault("reply")
  BY DEF OneTickAtATime, Fault
<1>10. Mirror(GroupOf[r]) = mem[state][GroupOf[r]].leaves /\ r = Head(todo[Startup])
  BY <1>2, <1>3 DEF Mirror, Todo
<1> QED BY <1>7, <1>8, <1>9, <1>10 DEF SendLeaf

(* The leaf of a first tree or of the tree that follows the table's is      *)
(* recorded: what was posted to the group needs no more.                   *)
LEMMA RecordedPosts ==
    ASSUME RowsTyped, PostsTyped, Onward, NEW g \in Groups, PostsOf(g),
           NEW r \in Requests, Open(r), ~Open(r)',
           posted[g] # << >>, currentRoot[g] = Append(leafRows[g], r),
           leafRows'[g] = Append(leafRows[g], r),
           posted' = posted, currentRoot' = currentRoot, leafCount' = leafCount
    PROVE  PostsOf(g)'
<1>1. PICK p : p = posted[g]
  OBVIOUS
<1>2. PICK s : s = leafRows[g]
  OBVIOUS
<1>3. PICK old : old = ElementsOf(reviewed)
  OBVIOUS
<1>4. PICK t : t = Append(s, r)
  OBVIOUS
<1>5. PICK n : n = Len(p)
  OBVIOUS
<1>6. /\ leafCount[g] = n
      /\ currentRoot[g] = IF n = 0 THEN NoRoot ELSE p[n]
      /\ \A i \in 1..n :
            /\ Len(p[i]) \in 1..i
            /\ LeafOf(p[i]) \in old
            /\ GroupOf[LeafOf(p[i])] = g
      /\ \A i, j \in 1..n : i < j /\ LeafOf(p[i]) = LeafOf(p[j]) => Len(p[j]) = 1
      /\ \A i \in 1..n : Len(p[i]) = 1 \/ (i > 1 /\ SubSeq(p[i], 1, Len(p[i]) - 1) = p[i - 1])
  BY <1>1, <1>3, <1>5 DEF PostsOf
<1>7. s = << >> => \A i \in 1..n : Len(p[i]) = 1 /\ FirstOfGroup(g, LeafOf(p[i]))
  BY <1>1, <1>2, <1>5 DEF PostsOf
<1>8. s # << >> =>
          /\ \A i \in 1..(n - 1) : Len(p[i]) <= Len(s)
          /\ \A i \in 1..n : Len(p[i]) <= Len(s) => ~Open(LeafOf(p[i]))
  BY <1>1, <1>2, <1>5 DEF PostsOf
<1>9. \A l \in old :
          /\ l \in ElementsOf(reviewed')
          /\ Open(l)' => Open(l)
  BY <1>3 DEF Onward
<1>10. /\ s \in Seq(Requests) /\ Len(s) \in Nat /\ Len(t) = Len(s) + 1 /\ t # << >>
       /\ t[Len(t)] = r
  <2>1. s \in Seq(Requests)
    BY <1>2 DEF RowsTyped
  <2>2. Len(s) \in Nat
    BY <2>1
  <2> QED BY <2>1, <2>2, <1>4, AppendProperties
<1>11. n \in Nat /\ n > 0 /\ p[n] = t
  BY <1>1, <1>2, <1>4, <1>5, <1>6 DEF PostsTyped
<1>12. LeafOf(p[n]) = r
  BY <1>10, <1>11 DEF LeafOf
<1>13. \A i \in 1..(n - 1) : Len(p[i]) <= Len(t)
  <2> TAKE i \in 1..(n - 1)
  <2>1. i \in 1..n
    BY <1>11
  <2>2. CASE s = << >>
    <3>1. Len(p[i]) = 1
      BY <2>1, <2>2, <1>7
    <3> QED BY <3>1, <1>10
  <2>3. CASE s # << >>
    <3>1. Len(p[i]) <= Len(s) /\ Len(p[i]) \in 1..i
      BY <2>1, <2>3, <1>6, <1>8
    <3> QED BY <3>1, <1>10, <1>11
  <2> QED BY <2>2, <2>3
<1>14. \A i \in 1..n : ~Open(LeafOf(p[i]))'
  <2> SUFFICES ASSUME NEW i \in 1..n PROVE ~Open(LeafOf(p[i]))'
    OBVIOUS
  <2>1. PICK l : l = LeafOf(p[i])
    OBVIOUS
  <2>2. l \in old
    BY <2>1, <1>6
  <2>3. CASE l = r
    BY <2>1, <2>3
  <2>4. CASE l # r /\ s = << >>
    <3>1. FirstOfGroup(g, l) /\ GroupOf[l] = g
      BY <2>1, <2>4, <1>6, <1>7
    <3>2. n \in 1..n
      BY <1>11
    <3>3. FirstOfGroup(g, r) /\ GroupOf[r] = g /\ r \in old
      BY <2>4, <3>2, <1>6, <1>7, <1>12
    <3>4. ~Before(r, l)
      BY <3>1, <3>3 DEF FirstOfGroup
    <3>5. Before(l, r)
      BY <2>2, <2>4, <3>3, <3>4, <1>3, BeforeIsOrder
    <3>6. l \in Requests
      BY <2>2, <1>3, RowsAreRequests
    <3>7. ~Open(l)
      BY <3>1, <3>3, <3>5, <3>6 DEF FirstOfGroup
    <3> QED BY <3>7, <2>1, <2>2, <1>9
  <2>5. CASE l # r /\ s # << >>
    <3>1. i # n
      BY <2>1, <2>5, <1>12
    <3>2. i \in 1..(n - 1)
      BY <3>1, <1>11
    <3>3. ~Open(l)
      BY <3>2, <2>1, <2>5, <1>8
    <3> QED BY <3>3, <2>1, <2>2, <1>9
  <2> QED BY <2>3, <2>4, <2>5
<1>15. \A i \in 1..n : LeafOf(p[i]) \in ElementsOf(reviewed')
  BY <1>6, <1>9
<1>16. /\ leafRows'[g] = t /\ posted'[g] = p /\ leafCount'[g] = n
       /\ currentRoot'[g] = IF n = 0 THEN NoRoot ELSE p[n]
  BY <1>1, <1>2, <1>4, <1>6
<1> QED BY <1>5, <1>6, <1>10, <1>11, <1>13, <1>14, <1>15, <1>16 DEF PostsOf

LEMMA RecordedStep ==
    ASSUME OneTickAtATime, TickIInv, Pc = "waiting", Posting.outcome = "mined",
           NEW r, r = Head(Todo), NEW g, g = GroupOf[r],
           leafRows' = [leafRows EXCEPT ![g] = Append(@, r)],
           mem' = [mem EXCEPT ![Startup][g].leaves = Append(@, r)],
           pc' = [pc EXCEPT ![Startup] = "loop"],
           todo' = [todo EXCEPT ![Startup] = Tail(Todo)],
           job' = [job EXCEPT ![Startup] = NoJob],
           UNCHANGED <<registryVars, reviewed, up, state, running, mempool>>
    PROVE  TickIInv'
<1>1. AtRow /\ up /\ mempool = << >> /\ Todo # << >>
  BY NothingSent DEF AtRow, TickIInv, Waiting
<1>2. r \in Requests /\ g \in Groups
  BY <1>1, PassHead, RowGroups
<1>3. /\ Auth(g) /\ posted[g] # << >>
      /\ currentRoot[g] = Append(leafRows[g], r)
  BY DEF TickIInv, Waiting
<1>4. Mirror(g) = leafRows[g] /\ g \in ElementsOf(GroupOrder)
  BY <1>2, <1>3 DEF TickIInv, Memory
<1>5. /\ r \in ElementsOf(reviewed) /\ Open(r)
      /\ r \notin ElementsOf(Tail(Todo))
      /\ Tail(Todo) \in Seq(Requests)
      /\ ElementsOf(Tail(Todo)) \subseteq ElementsOf(Todo)
      /\ \A q \in ElementsOf(Todo) : q = r \/ q \in ElementsOf(Tail(Todo))
      /\ \A i, j \in DOMAIN Tail(Todo) : i < j => Before(Tail(Todo)[i], Tail(Todo)[j])
  BY <1>1, PassHead
<1>6. PICK w : w = Tail(Todo)
  OBVIOUS
<1>7. PICK s : s = Append(leafRows[g], r)
  OBVIOUS
<1>8. /\ s \in Seq(Requests) /\ s # << >> /\ leafRows' \in [Groups -> Seq(Requests)]
      /\ leafRows'[g] = s
      /\ \A h \in Groups : h # g => leafRows'[h] = leafRows[h]
  <2>1. leafRows \in [Groups -> Seq(Requests)]
    BY DEF TickIInv, RowsTyped
  <2>2. s \in Seq(Requests) /\ s # << >>
    BY <1>2, <1>7, <2>1
  <2>3. leafRows' = [leafRows EXCEPT ![g] = s]
    BY <1>7
  <2> QED BY <1>2, <2>1, <2>2, <2>3
<1>9. /\ mem' \in [Tasks -> [Groups -> GroupState]]
      /\ \A h \in Groups : h # g => mem'[Startup][h] = mem[Startup][h]
      /\ Auth(g)' /\ Mirror(g)' = s
  <2>1. /\ mem' \in [Tasks -> [Groups -> GroupState]]
        /\ \A h \in Groups : h # g => mem'[Startup][h] = mem[Startup][h]
        /\ mem'[Startup][g].authorised = mem[Startup][g].authorised
        /\ mem'[Startup][g].leaves = Append(mem[Startup][g].leaves, r)
    <3>1. mem \in [Tasks -> [Groups -> GroupState]]
      BY DEF TickIInv, TaskTyped
    <3> QED BY <3>1, <1>2, MemoryLeaf
  <2>2. Mirror(g)' = s
    BY <2>1, <1>4, <1>7 DEF Mirror
  <2>3. Auth(g)'
    BY <2>1, <1>3 DEF Auth
  <2> QED BY <2>1, <2>2, <2>3
<1>10. job' \in [Tasks -> JobType]
  <2>1. NoJob \in JobType
    <3>1. << >> \in Seq(Requests)
      OBVIOUS
    <3> QED BY <3>1 DEF NoJob, JobType
  <2> QED BY <2>1 DEF TickIInv, TaskTyped
<1>11. TaskTyped' /\ Pc' = "loop" /\ Todo' = w
  <2>1. "loop" \in Pcs /\ "loop" \notin BootPcs
    BY DEF Pcs, BootPcs
  <2> QED BY <1>5, <1>6, <1>9, <1>10, <2>1, MovesTo DEF TickIInv, TaskTyped
<1>12. AtRow'
  BY <1>11 DEF AtRow
<1>13. UNCHANGED <<posted, currentRoot, leafCount, rootBuffer, rootBufferIndex>>
  BY DEF registryVars, ringVars
<1>14. /\ Recorded(r)'
       /\ \A q : Recorded(q) => Recorded(q)'
  <2>1. leafRows \in [Groups -> Seq(Requests)]
    BY DEF TickIInv, RowsTyped
  <2>2. PICK l : l = leafRows[g]
    OBVIOUS
  <2>3. /\ Len(l) + 1 \in DOMAIN s /\ s[Len(l) + 1] = r
        /\ \A i \in DOMAIN l : i \in DOMAIN s /\ s[i] = l[i]
    <3>1. l \in Seq(Requests) /\ s = Append(l, r)
      BY <2>1, <2>2, <1>2, <1>7
    <3> QED BY <3>1, <1>2
  <2>4. Recorded(r)'
    BY <2>3, <1>2, <1>8 DEF Recorded
  <2>5. ASSUME NEW q, NEW h \in Groups, NEW i \in DOMAIN leafRows[h],
               CommitmentOf[leafRows[h][i]] = CommitmentOf[q]
        PROVE  i \in DOMAIN leafRows'[h] /\ leafRows'[h][i] = leafRows[h][i]
    BY <2>2, <2>3, <1>8
  <2>6. \A q : Recorded(q) => Recorded(q)'
    <3> SUFFICES ASSUME NEW q, Recorded(q) PROVE Recorded(q)'
      OBVIOUS
    <3>1. PICK h \in Groups : \E i \in DOMAIN leafRows[h] : CommitmentOf[leafRows[h][i]] = CommitmentOf[q]
      BY DEF Recorded
    <3>2. PICK i \in DOMAIN leafRows[h] : CommitmentOf[leafRows[h][i]] = CommitmentOf[q]
      BY <3>1
    <3>3. i \in DOMAIN leafRows'[h] /\ leafRows'[h][i] = leafRows[h][i]
      BY <2>5, <3>2
    <3> QED BY <3>2, <3>3 DEF Recorded
  <2> QED BY <2>4, <2>6
<1>15. \A q, p : Before(q, p) <=> Before(q, p)'
  BY DEF Before
<1>16. (\A q : Open(q)' => Open(q)) /\ ~Open(r)'
  BY <1>1, <1>5, <1>6, <1>11, <1>14 DEF Open
<1>17. Onward
  BY <1>15, <1>16 DEF Onward
<1>18. RowsTyped'
  BY <1>8 DEF TickIInv, RowsTyped
<1>19. Process'
  BY <1>1, <1>11, <1>12 DEF TickIInv, Process
<1>20. Memory'
  <2> SUFFICES ASSUME NEW h \in Groups, Auth(h)'
               PROVE  h \in ElementsOf(GroupOrder) /\ Mirror(h)' = leafRows'[h] /\ Settled(h)'
    BY <1>11 DEF Memory
  <2>1. CASE h = g
    BY <2>1, <1>3, <1>4, <1>7, <1>8, <1>9, <1>13 DEF Settled
  <2>2. CASE h # g
    <3>1. Auth(h) /\ Mirror(h)' = Mirror(h)
      BY <2>2, <1>9 DEF Auth, Mirror
    <3>2. h \in ElementsOf(GroupOrder) /\ Mirror(h) = leafRows[h] /\ Settled(h)
      BY <2>2, <3>1, AuthIsSettled DEF BootPcs
    <3> QED BY <2>2, <3>1, <3>2, <1>8, <1>13 DEF Settled
  <2> QED BY <2>1, <2>2
<1>21. Pass'
  <2>1. \A q \in ElementsOf(w) : q \in ElementsOf(reviewed')
    BY <1>1, <1>5, <1>6 DEF TickIInv, Pass
  <2>2. \A i, j \in DOMAIN w : i < j => Before(w[i], w[j])'
    BY <1>5, <1>6, <1>15
  <2>3. ASSUME NEW p \in Requests, NEW q \in Requests, GroupOf[p] = GroupOf[q], Auth(GroupOf[q])', Open(p)',
               q \in ElementsOf(w), Before(p, q)'
        PROVE  p \in ElementsOf(w)
    <3>1. Before(p, q) /\ q \in ElementsOf(Todo) /\ Open(p)
      BY <1>5, <1>6, <1>15, <1>16, <2>3
    <3>2. Auth(GroupOf[q])
      <4>1. GroupOf[q] \in Groups
        BY RowGroups
      <4>2. CASE GroupOf[q] = g
        BY <4>2, <1>3
      <4>3. CASE GroupOf[q] # g
        BY <4>1, <4>3, <2>3, <1>9 DEF Auth
      <4> QED BY <4>2, <4>3
    <3>3. p \in ElementsOf(Todo)
      BY <1>1, <2>3, <3>1, <3>2 DEF TickIInv, Pass
    <3>4. p # r
      BY <1>16, <2>3
    <3> QED BY <1>5, <1>6, <3>3, <3>4
  <2> QED BY <1>11, <2>1, <2>2, <2>3 DEF Pass
<1>22. Waiting' /\ Mempool'
  BY <1>1, <1>11 DEF Waiting, Mempool
<1>23. \A h \in Groups : PostsOf(h)'
  <2> TAKE h \in Groups
  <2>1. CASE h = g
    <3>1. leafRows'[g] = Append(leafRows[g], r) /\ PostsOf(g)
      BY <1>2, <1>7, <1>8 DEF TickIInv
    <3> QED BY <2>1, <3>1, <1>2, <1>3, <1>5, <1>13, <1>16, <1>17, RecordedPosts DEF TickIInv
  <2>2. CASE h # g
    <3>1. leafRows'[h] = leafRows[h]
      BY <2>2, <1>8
    <3> QED BY <3>1, <1>13, <1>17, PostsOfKept DEF TickIInv
  <2> QED BY <2>1, <2>2
<1>24. RingRecent' /\ PostsTyped' /\ RegistryTypeOK'
  BY <1>13 DEF TickIInv, RingRecent, PostsTyped, RegistryTypeOK, registryVars
<1> QED BY <1>11, <1>18, <1>19, <1>20, <1>21, <1>22, <1>23, <1>24 DEF TickIInv

LEMMA RecordLeafStep ==
    ASSUME OneTickAtATime, TickIInv, RecordLeaf(Startup) PROVE TickIInv'
<1>1. /\ Pc = "waiting" /\ Posting.outcome = "mined" /\ AtRow
      /\ job' = [job EXCEPT ![Startup] = NoJob]
      /\ UNCHANGED <<registryVars, reviewed, up, state, mempool>>
  BY DEF RecordLeaf, Pc, Posting, AtRow
<1>2. Posting.gen = Startup /\ Todo # << >>
  BY <1>1 DEF TickIInv, Waiting
<1>3. PICK r : r = Head(Todo)
  OBVIOUS
<1>4. PICK g : g = GroupOf[r]
  OBVIOUS
<1>5. g \in Groups
  BY <1>1, <1>2, <1>3, <1>4, PassHead, RowGroups
<1>6. CASE /\ leafRows' = [leafRows EXCEPT ![g] = Append(@, r)]
           /\ mem' = [mem EXCEPT ![Startup][g].leaves = Append(@, r)]
           /\ pc' = [pc EXCEPT ![Startup] = "loop"]
           /\ todo' = [todo EXCEPT ![Startup] = Tail(@)]
           /\ UNCHANGED running
  <2>1. todo' = [todo EXCEPT ![Startup] = Tail(Todo)]
    BY <1>6 DEF Todo
  <2> QED BY <1>1, <1>3, <1>4, <1>6, <2>1, RecordedStep
<1>7. CASE /\ mem' = [mem EXCEPT ![Startup][g].authorised = FALSE]
           /\ Leave(Startup)
           /\ UNCHANGED leafRows
  <2>1. /\ mem' \in [Tasks -> [Groups -> GroupState]]
        /\ \A h \in Groups : h # g => mem'[Startup][h] = mem[Startup][h]
        /\ ~Auth(g)'
    <3>1. /\ mem' \in [Tasks -> [Groups -> GroupState]]
          /\ \A h \in Groups : h # g => mem'[Startup][h] = mem[Startup][h]
          /\ mem'[Startup][g].authorised = FALSE
      BY <1>5, <1>7, MemoryRole DEF TickIInv, TaskTyped
    <3> QED BY <3>1 DEF Auth
  <2>2. \A h \in Groups : Auth(h)' => Auth(h) /\ Settled(h) /\ Mirror(h)' = Mirror(h)
    <3> SUFFICES ASSUME NEW h \in Groups, Auth(h)' PROVE Auth(h) /\ Settled(h) /\ Mirror(h)' = Mirror(h)
      OBVIOUS
    <3>1. h # g
      BY <2>1
    <3>2. Auth(h) /\ Mirror(h)' = Mirror(h)
      BY <2>1, <3>1 DEF Auth, Mirror
    <3> QED BY <1>1, <1>3, <1>4, <3>1, <3>2, AuthIsSettled DEF BootPcs
  <2>3. job' \in [Tasks -> JobType]
    <3>1. NoJob \in JobType
      <4>1. << >> \in Seq(Requests)
        OBVIOUS
      <4> QED BY <4>1 DEF NoJob, JobType
    <3> QED BY <1>1, <3>1 DEF TickIInv, TaskTyped
  <2>4. mempool = << >>
    BY <1>1, NothingSent
  <2> QED BY <1>1, <1>7, <2>1, <2>2, <2>3, <2>4, LeaveStep DEF dbVars
<1> QED BY <1>2, <1>3, <1>4, <1>6, <1>7 DEF RecordLeaf, Todo, Posting

-----------------------------------------------------------------------------
(* Reviewers, the owner and the crashes *)

LEMMA ApproveStep ==
    ASSUME OneTickAtATime, TickIInv, NEW r \in Requests, Approve(r) PROVE TickIInv'
<1>1. /\ \A i \in DOMAIN reviewed : reviewed[i] # r
      /\ reviewed' = Append(reviewed, r)
      /\ UNCHANGED <<registryVars, leafRows, up, state, mem, running, pc, todo, job, mempool>>
  BY DEF Approve, taskVars
<1>2. PICK s : s = reviewed
  OBVIOUS
<1>3. PICK t : t = reviewed'
  OBVIOUS
<1>4. s \in Seq(Requests) /\ \A m, n \in DOMAIN s : s[m] = s[n] => m = n
  BY <1>2 DEF TickIInv, RowsTyped
<1>5. /\ t \in Seq(Requests) /\ Len(s) \in Nat /\ Len(t) = Len(s) + 1
      /\ \A i \in 1..Len(s) : t[i] = s[i]
      /\ t[Len(s) + 1] = r
      /\ DOMAIN s = 1..Len(s) /\ DOMAIN t = 1..Len(t)
  BY <1>1, <1>2, <1>3, <1>4, AppendProperties
<1>6. /\ \A i \in DOMAIN t : i \in DOMAIN s \/ i = Len(s) + 1
      /\ \A i \in DOMAIN s : i \in DOMAIN t /\ t[i] = s[i]
      /\ \A m, n \in DOMAIN t : m < n => m \in DOMAIN s
  BY <1>5
<1>7. \A m, n \in DOMAIN t : t[m] = t[n] => m = n
  BY <1>1, <1>2, <1>4, <1>5, <1>6
<1>8. \A q, p : p \in ElementsOf(s) /\ Before(q, p)' => Before(q, p)
  <2> SUFFICES ASSUME NEW q, NEW p, p \in ElementsOf(s), NEW m \in DOMAIN t, NEW n \in DOMAIN t,
                      m < n, t[m] = q, t[n] = p
               PROVE  Before(q, p)
    BY <1>3 DEF Before
  <2>1. m \in DOMAIN s /\ s[m] = q
    BY <1>6
  <2>2. n \in DOMAIN s /\ s[n] = p
    <3>1. PICK k \in DOMAIN s : s[k] = p
      BY DEF ElementsOf
    <3>2. t[k] = p /\ k \in DOMAIN t
      BY <3>1, <1>6
    <3> QED BY <3>1, <3>2, <1>7
  <2> QED BY <2>1, <2>2, <1>2 DEF Before
<1>9. \A q, p : Before(q, p) => Before(q, p)'
  BY <1>2, <1>3, <1>6 DEF Before
<1>10. ElementsOf(s) \subseteq ElementsOf(t)
  BY <1>6 DEF ElementsOf
<1>11. /\ UNCHANGED <<Pc, Todo, Posting>>
       /\ AtRow' <=> AtRow
  BY <1>1 DEF Pc, Todo, Posting, AtRow
<1>12. \A q : Recorded(q)' <=> Recorded(q)
  BY <1>1 DEF Recorded
<1>13. \A q \in ElementsOf(s) : Open(q)' => Open(q)
  BY <1>2, <1>11, <1>12 DEF Open
<1>14. Onward
  BY <1>2, <1>3, <1>8, <1>10, <1>13 DEF Onward
<1>15. RowsTyped'
  BY <1>1, <1>3, <1>5, <1>7 DEF TickIInv, RowsTyped
<1>16. TaskTyped' /\ Process'
  BY <1>1, <1>11 DEF TickIInv, TaskTyped, Process, Auth
<1>17. /\ \A h : Auth(h)' <=> Auth(h)
       /\ \A h : Mirror(h)' = Mirror(h)
  BY <1>1 DEF Auth, Mirror
<1>18. \A h : Settled(h)' <=> Settled(h)
  BY <1>1 DEF Settled, registryVars, ringVars
<1>19. Memory'
  BY <1>1, <1>11, <1>17, <1>18 DEF TickIInv, Memory
<1>20. Pass'
  <2> SUFFICES ASSUME AtRow
               PROVE  /\ \A q \in ElementsOf(Todo) : q \in ElementsOf(t)
                      /\ \A i, j \in DOMAIN Todo : i < j => Before(Todo[i], Todo[j])'
                      /\ \A p, q \in Requests :
                            /\ GroupOf[p] = GroupOf[q] /\ Auth(GroupOf[q])' /\ Open(p)'
                            /\ q \in ElementsOf(Todo) /\ Before(p, q)'
                            => p \in ElementsOf(Todo)
    BY <1>3, <1>11 DEF Pass
  <2>1. /\ \A q \in ElementsOf(Todo) : q \in ElementsOf(s)
        /\ \A i, j \in DOMAIN Todo : i < j => Before(Todo[i], Todo[j])
    BY <1>2 DEF TickIInv, Pass
  <2>2. ASSUME NEW p \in Requests, NEW q \in Requests, GroupOf[p] = GroupOf[q], Auth(GroupOf[q])', Open(p)',
               q \in ElementsOf(Todo), Before(p, q)'
        PROVE  p \in ElementsOf(Todo)
    <3>1. Before(p, q)
      BY <2>1, <2>2, <1>8
    <3>2. p \in ElementsOf(s)
      BY <3>1, <1>2, BeforeIsOrder DEF TickIInv
    <3>3. Open(p) /\ Auth(GroupOf[q])
      BY <3>2, <2>2, <1>13, <1>17
    <3> QED BY <2>2, <3>1, <3>3 DEF TickIInv, Pass
  <2>3. \A i, j \in DOMAIN Todo : i < j => Before(Todo[i], Todo[j])'
    <3>1. UNCHANGED todo
      BY <1>1
    <3> QED BY <2>1, <1>9, <3>1 DEF Todo
  <2> QED BY <2>1, <2>2, <2>3, <1>10
<1>21. Waiting'
  BY <1>1, <1>11, <1>17 DEF TickIInv, Waiting, registryVars, ringVars
<1>22. Mempool'
  BY <1>1, <1>14, MempoolKept DEF registryVars
<1>23. RegistryTypeOK'
  BY <1>1 DEF TickIInv, RegistryTypeOK, registryVars, ringVars
<1> QED BY <1>1, <1>14, <1>15, <1>16, <1>19, <1>20, <1>21, <1>22, <1>23, AroundKeeps DEF registryVars

(* A step that only the roles of the registry see. *)
LEMMA RolesStep ==
    ASSUME OneTickAtATime, TickIInv, RegistryTypeOK',
           UNCHANGED <<ringVars, dbVars, up, taskVars, mempool>>
    PROVE  TickIInv'
<1>1. UNCHANGED <<reviewed, leafRows, up, state, mem, running, pc, todo, job, mempool,
                  posted, currentRoot, leafCount>>
  BY DEF dbVars, taskVars, ringVars
<1>2. UNCHANGED <<Pc, Todo, Posting>> /\ (AtRow' <=> AtRow)
  BY <1>1 DEF Pc, Todo, Posting, AtRow
<1>3. \A q : Open(q)' <=> Open(q)
  BY <1>1, <1>2 DEF Open, Recorded
<1>4. \A q, p : Before(q, p)' <=> Before(q, p)
  BY <1>1 DEF Before
<1>5. Onward
  BY <1>1, <1>3, <1>4 DEF Onward
<1>6. /\ \A h : Auth(h)' <=> Auth(h)
      /\ \A h : Mirror(h)' = Mirror(h)
      /\ \A h : Settled(h)' <=> Settled(h)
  BY <1>1 DEF Auth, Mirror, Settled
<1>7. TaskTyped' /\ RowsTyped' /\ Process'
  BY <1>1, <1>2, <1>6 DEF TickIInv, TaskTyped, RowsTyped, Process
<1>8. Memory'
  BY <1>1, <1>2, <1>6 DEF TickIInv, Memory
<1>9. Pass'
  <2>1. \A i, j \in DOMAIN Todo : Before(Todo[i], Todo[j])' <=> Before(Todo[i], Todo[j])
    BY <1>1, <1>4 DEF Todo
  <2> QED BY <2>1, <1>1, <1>2, <1>3, <1>4, <1>6 DEF TickIInv, Pass
<1>10. Waiting'
  BY <1>1, <1>2, <1>6 DEF TickIInv, Waiting
<1>11. Mempool'
  BY <1>1, <1>5, MempoolKept
<1> QED BY <1>1, <1>5, <1>7, <1>8, <1>9, <1>10, <1>11, AroundKeeps

LEMMA GrantStep ==
    ASSUME OneTickAtATime, TickIInv, NEW g \in Groups, Grant(g) \/ Withdraw(g) PROVE TickIInv'
<1>1. PICK a \in BOOLEAN : /\ groupIssuer' = [groupIssuer EXCEPT ![g][Wallet] = a]
                           /\ UNCHANGED <<registryOwner, registryPendingOwner, ringVars>>
                           /\ UNCHANGED <<dbVars, up, taskVars, mempool>>
  BY DEF Grant, Withdraw, AuthorizeIssuer, RevokeIssuer
<1>2. groupIssuer' \in [Groups -> [Accounts -> BOOLEAN]]
  <2>1. groupIssuer \in [Groups -> [Accounts -> BOOLEAN]]
    BY DEF TickIInv, RegistryTypeOK
  <2>2. PICK f : f = [groupIssuer[g] EXCEPT ![Wallet] = a]
    OBVIOUS
  <2>3. f \in [Accounts -> BOOLEAN]
    BY <2>1, <2>2
  <2>4. groupIssuer' = [groupIssuer EXCEPT ![g] = f]
    BY <1>1, <2>2
  <2> QED BY <2>1, <2>3, <2>4
<1>3. RegistryTypeOK'
  BY <1>1, <1>2 DEF TickIInv, RegistryTypeOK, ringVars
<1> QED BY <1>1, <1>3, RolesStep

LEMMA CrashStep ==
    ASSUME OneTickAtATime, TickIInv, Crash PROVE TickIInv'
<1>1. /\ up /\ up' = FALSE /\ state' = NoTask /\ running' = FALSE
      /\ mem' = [t \in Tasks |-> [g \in Groups |-> [authorised |-> FALSE, leaves |-> << >>]]]
      /\ job' = [t \in Tasks |-> NoJob]
      /\ pc' = [t \in Tasks |-> "idle"]
      /\ todo' = [t \in Tasks |-> << >>]
      /\ mempool' = [i \in DOMAIN mempool |-> [mempool[i] EXCEPT !.awaited = FALSE]]
      /\ UNCHANGED <<registryVars, reviewed, leafRows>>
  BY DEF Crash, NoMemory, dbVars
<1>2. << >> \in Seq(Requests) /\ Startup \in Tasks
  BY Assumptions
<1>3. /\ mem' \in [Tasks -> [Groups -> GroupState]]
      /\ \A g \in Groups : ~Auth(g)'
  <2>1. PICK o : o = [authorised |-> FALSE, leaves |-> << >>]
    OBVIOUS
  <2>2. o \in GroupState /\ o.authorised = FALSE
    BY <1>2, <2>1 DEF GroupState
  <2>3. mem' = [t \in Tasks |-> [g \in Groups |-> o]]
    BY <1>1, <2>1
  <2> QED BY <1>2, <2>2, <2>3 DEF Auth
<1>4. job' \in [Tasks -> JobType]
  <2>1. NoJob \in JobType
    BY <1>2 DEF NoJob, JobType
  <2> QED BY <1>1, <2>1
<1>5. Pc' = "idle" /\ ~AtRow'
  BY <1>1, <1>2 DEF Pc, AtRow
<1>6. TaskTyped'
  BY <1>1, <1>3, <1>4, <1>5 DEF TaskTyped, Pcs, BootPcs
<1>7. Onward
  BY <1>1, <1>5, QuietOnward
<1>8. Process' /\ Memory' /\ Pass' /\ Waiting'
  BY <1>1, <1>3, <1>5 DEF Process, Memory, Pass, Waiting
<1>9. Mempool'
  <2>1. CASE mempool = << >>
    <3>1. mempool' = << >>
      BY <1>1, <2>1
    <3> QED BY <3>1 DEF Mempool
  <2>2. CASE mempool # << >>
    <3>1. PICK r \in Requests : mempool = <<Tx(r, up)>> /\ NewLeaf(GroupOf[r], r)
      BY <2>2 DEF TickIInv, Mempool
    <3>2. NewLeaf(GroupOf[r], r)'
      BY <3>1, <1>1, <1>7, NewLeafKept DEF TickIInv, registryVars, ringVars
    <3>3. PICK e : e = Tx(r, up)
      OBVIOUS
    <3>4. PICK d : d = [e EXCEPT !.awaited = FALSE]
      OBVIOUS
    <3>5. d = Tx(r, FALSE)
      BY <3>3, <3>4 DEF Tx
    <3>6. mempool = <<e>>
      BY <3>1, <3>3
    <3>7. mempool' = <<d>>
      <4>1. DOMAIN mempool = 1..1 /\ mempool[1] = e
        BY <3>6
      <4>2. mempool' = [i \in 1..1 |-> [mempool[i] EXCEPT !.awaited = FALSE]]
        BY <1>1, <4>1
      <4>3. \A i \in 1..1 : i = 1
        OBVIOUS
      <4>4. mempool' = [i \in 1..1 |-> d]
        BY <3>4, <4>1, <4>2, <4>3
      <4> QED BY <4>4, SingletonIs
    <3>8. Tx(r, up)' = Tx(r, FALSE)
      BY <1>1 DEF Tx
    <3> QED BY <1>1, <3>2, <3>5, <3>7, <3>8 DEF Mempool
  <2> QED BY <2>1, <2>2
<1>10. RegistryTypeOK' /\ RowsTyped'
  BY <1>1 DEF TickIInv, RegistryTypeOK, RowsTyped, registryVars, ringVars
<1> QED BY <1>1, <1>6, <1>7, <1>8, <1>9, <1>10, AroundKeeps DEF registryVars

-----------------------------------------------------------------------------
(* Mining *)

(* Without its last leaf, a tree is what it extends. *)
LEMMA FrontOfAppend ==
    ASSUME NEW S, NEW s \in Seq(S), NEW e \in S, NEW t, t = Append(s, e)
    PROVE  SubSeq(t, 1, Len(t) - 1) = s
<1>1. PICK n : n = Len(s)
  OBVIOUS
<1>2. /\ t \in Seq(S) /\ Len(t) = n + 1 /\ n \in Nat
      /\ \A i \in 1..n : t[i] = s[i] /\ s[i] \in S
  BY <1>1, AppendProperties
<1>3. Len(t) - 1 = n
  BY <1>2
<1>4. PICK f : f = SubSeq(t, 1, n)
  OBVIOUS
<1>5. /\ f \in Seq(S)
      /\ Len(f) = IF 1 <= n THEN n - 1 + 1 ELSE 0
      /\ \A i \in 1..(n - 1 + 1) : f[i] = t[1 + i - 1]
  BY <1>2, <1>4, SubSeqProperties
<1>6. Len(f) = n /\ \A i \in 1..n : f[i] = t[i]
  <2>1. n - 1 + 1 = n /\ \A i \in 1..n : 1 + i - 1 = i
    BY <1>2
  <2>2. Len(f) = n
    BY <1>2, <1>5, <2>1
  <2>3. \A i \in 1..n : f[i] = t[i]
    BY <1>5, <2>1
  <2> QED BY <2>2, <2>3
<1>7. f = s
  BY <1>1, <1>2, <1>5, <1>6, SeqEqual
<1> QED BY <1>3, <1>4, <1>7

(* A new leaf is posted to its group. *)
LEMMA PostedPosts ==
    ASSUME RowsTyped, PostsTyped, Onward, NEW g \in Groups, PostsOf(g),
           NEW r \in Requests, NewLeaf(g, r),
           posted'[g] = Append(posted[g], Append(leafRows[g], r)),
           currentRoot'[g] = Append(leafRows[g], r),
           leafCount'[g] = leafCount[g] + 1, leafRows' = leafRows
    PROVE  PostsOf(g)' /\ Len(leafRows[g]) <= leafCount[g]
<1>1. PICK p : p = posted[g]
  OBVIOUS
<1>2. PICK s : s = leafRows[g]
  OBVIOUS
<1>3. PICK old : old = ElementsOf(reviewed)
  OBVIOUS
<1>4. PICK t : t = Append(s, r)
  OBVIOUS
<1>5. PICK n : n = Len(p)
  OBVIOUS
<1>6. /\ leafCount[g] = n
      /\ \A i \in 1..n :
            /\ Len(p[i]) \in 1..i
            /\ LeafOf(p[i]) \in old
            /\ GroupOf[LeafOf(p[i])] = g
      /\ \A i, j \in 1..n : i < j /\ LeafOf(p[i]) = LeafOf(p[j]) => Len(p[j]) = 1
      /\ \A i \in 1..n : Len(p[i]) = 1 \/ (i > 1 /\ SubSeq(p[i], 1, Len(p[i]) - 1) = p[i - 1])
  BY <1>1, <1>3, <1>5 DEF PostsOf
<1>7. s = << >> => \A i \in 1..n : Len(p[i]) = 1 /\ FirstOfGroup(g, LeafOf(p[i]))
  BY <1>1, <1>2, <1>5 DEF PostsOf
<1>8. \A l \in old :
          /\ l \in ElementsOf(reviewed')
          /\ Open(l)' => Open(l)
          /\ FirstOfGroup(g, l) => FirstOfGroup(g, l)'
  BY <1>3, FirstStaysFirst DEF Onward
<1>9. /\ s \in Seq(Requests) /\ Len(s) \in Nat
      /\ p \in Seq(Seq(Requests)) /\ n \in Nat
  BY <1>1, <1>2, <1>5 DEF RowsTyped, PostsTyped
<1>10. t \in Seq(Requests) /\ Len(t) = Len(s) + 1 /\ LeafOf(t) = r
  <2>1. t \in Seq(Requests) /\ Len(t) = Len(s) + 1 /\ t[Len(s) + 1] = r
    BY <1>4, <1>9, AppendProperties
  <2> QED BY <2>1 DEF LeafOf
<1>11. PICK q : q = Append(p, t)
  OBVIOUS
<1>12. /\ q \in Seq(Seq(Requests)) /\ Len(q) = n + 1
       /\ \A i \in 1..n : q[i] = p[i]
       /\ q[n + 1] = t
  BY <1>5, <1>9, <1>10, <1>11, AppendProperties
<1>13. \A i \in 1..(n + 1) : i \in 1..n \/ i = n + 1
  BY <1>9
<1>14. /\ r \in old /\ GroupOf[r] = g
       /\ s = << >> => FirstOfGroup(g, r)
       /\ s # << >> => \A i \in 1..n : LeafOf(p[i]) # r
  BY <1>1, <1>2, <1>3, <1>5, <1>9 DEF NewLeaf
<1>15. s # << >> => /\ n > 0 /\ p[n] = s
                    /\ \A i \in 1..n : Len(p[i]) <= Len(s) /\ ~Open(LeafOf(p[i]))
  BY <1>1, <1>2, <1>5, <1>9, SettledPosts DEF NewLeaf
<1>16. Len(s) <= n
  <2>1. CASE s = << >>
    BY <2>1, <1>9
  <2>2. CASE s # << >>
    <3>1. n \in 1..n
      BY <2>2, <1>9, <1>15
    <3>2. Len(p[n]) \in 1..n
      BY <3>1, <1>6
    <3> QED BY <3>2, <2>2, <1>9, <1>15
  <2> QED BY <2>1, <2>2
<1>17. Len(t) \in 1..(n + 1)
  BY <1>9, <1>10, <1>16
<1>18. \A i \in 1..(n + 1) :
          /\ Len(q[i]) \in 1..i
          /\ LeafOf(q[i]) \in ElementsOf(reviewed')
          /\ GroupOf[LeafOf(q[i])] = g
  <2> TAKE i \in 1..(n + 1)
  <2>1. CASE i \in 1..n
    BY <2>1, <1>6, <1>8, <1>12
  <2>2. CASE i = n + 1
    BY <2>2, <1>8, <1>10, <1>12, <1>14, <1>17
  <2> QED BY <2>1, <2>2, <1>13
<1>19. s = << >> => Len(t) = 1
  <2>1. s = << >> => Len(s) = 0
    BY EmptySeq
  <2> QED BY <2>1, <1>10
<1>20. \A i, j \in 1..(n + 1) : i < j /\ LeafOf(q[i]) = LeafOf(q[j]) => Len(q[j]) = 1
  <2> SUFFICES ASSUME NEW i \in 1..(n + 1), NEW j \in 1..(n + 1), i < j, LeafOf(q[i]) = LeafOf(q[j])
               PROVE  Len(q[j]) = 1
    OBVIOUS
  <2>1. i \in 1..n
    BY <1>9
  <2>2. CASE j \in 1..n
    BY <2>1, <2>2, <1>6, <1>12
  <2>3. CASE j = n + 1
    <3>1. LeafOf(p[i]) = r
      BY <2>1, <2>3, <1>10, <1>12
    <3>2. s = << >>
      BY <3>1, <2>1, <1>14
    <3> QED BY <3>2, <2>3, <1>12, <1>19
  <2> QED BY <2>2, <2>3, <1>13
<1>21. \A i \in 1..(n + 1) : Len(q[i]) = 1 \/ (i > 1 /\ SubSeq(q[i], 1, Len(q[i]) - 1) = q[i - 1])
  <2> TAKE i \in 1..(n + 1)
  <2>1. CASE i \in 1..n
    <3>1. CASE Len(p[i]) = 1
      BY <3>1, <2>1, <1>12
    <3>2. CASE i > 1 /\ SubSeq(p[i], 1, Len(p[i]) - 1) = p[i - 1]
      <4>1. i - 1 \in 1..n
        BY <2>1, <3>2, <1>9
      <4>2. q[i] = p[i] /\ q[i - 1] = p[i - 1]
        BY <4>1, <2>1, <1>12
      <4> QED BY <4>2, <3>2
    <3> QED BY <3>1, <3>2, <2>1, <1>6
  <2>2. CASE i = n + 1 /\ s = << >>
    BY <2>2, <1>12, <1>19
  <2>3. CASE i = n + 1 /\ s # << >>
    <3>1. n \in 1..n /\ i > 1 /\ i - 1 = n
      BY <2>3, <1>9, <1>15
    <3>2. q[i] = t /\ q[i - 1] = s
      BY <2>3, <3>1, <1>12, <1>15
    <3>3. SubSeq(t, 1, Len(t) - 1) = s
      BY <1>4, <1>9, FrontOfAppend
    <3> QED BY <3>1, <3>2, <3>3
  <2> QED BY <2>1, <2>2, <2>3, <1>13
<1>22. s = << >> => \A i \in 1..(n + 1) : Len(q[i]) = 1 /\ FirstOfGroup(g, LeafOf(q[i]))'
  <2> SUFFICES ASSUME s = << >>, NEW i \in 1..(n + 1)
               PROVE  Len(q[i]) = 1 /\ FirstOfGroup(g, LeafOf(q[i]))'
    OBVIOUS
  <2>1. CASE i \in 1..n
    <3>1. Len(p[i]) = 1 /\ FirstOfGroup(g, LeafOf(p[i])) /\ LeafOf(p[i]) \in old
      BY <2>1, <1>6, <1>7
    <3>2. q[i] = p[i]
      BY <2>1, <1>12
    <3> QED BY <3>1, <3>2, <1>8
  <2>2. CASE i = n + 1
    <3>1. LeafOf(q[i]) = r /\ Len(q[i]) = 1
      BY <2>2, <1>10, <1>12, <1>19
    <3>2. FirstOfGroup(g, r)'
      BY <1>8, <1>14
    <3> QED BY <3>1, <3>2
  <2> QED BY <2>1, <2>2, <1>13
<1>23. s # << >> =>
          /\ Len(q) > 1 /\ q[Len(q) - 1] = s /\ q[Len(q)] = Append(s, r)
          /\ \A i \in 1..(Len(q) - 1) : Len(q[i]) <= Len(s)
          /\ \A i \in 1..Len(q) : Len(q[i]) <= Len(s) => ~Open(LeafOf(q[i]))'
  <2> SUFFICES ASSUME s # << >>
               PROVE  /\ Len(q) > 1 /\ q[Len(q) - 1] = s /\ q[Len(q)] = Append(s, r)
                      /\ \A i \in 1..(Len(q) - 1) : Len(q[i]) <= Len(s)
                      /\ \A i \in 1..Len(q) : Len(q[i]) <= Len(s) => ~Open(LeafOf(q[i]))'
    OBVIOUS
  <2>1. n > 0 /\ p[n] = s /\ \A i \in 1..n : Len(p[i]) <= Len(s) /\ ~Open(LeafOf(p[i]))
    BY <1>15
  <2>2. Len(q) - 1 = n /\ n \in 1..n /\ Len(q) > 1
    BY <2>1, <1>9, <1>12
  <2>3. q[Len(q) - 1] = s /\ q[Len(q)] = Append(s, r)
    BY <2>1, <2>2, <1>4, <1>12
  <2>4. \A i \in 1..(Len(q) - 1) : Len(q[i]) <= Len(s)
    BY <2>1, <2>2, <1>12
  <2>5. ASSUME NEW i \in 1..Len(q), Len(q[i]) <= Len(s) PROVE ~Open(LeafOf(q[i]))'
    <3>1. i # n + 1
      BY <2>5, <1>9, <1>10, <1>12
    <3>2. i \in 1..n
      BY <3>1, <1>12, <1>13
    <3>3. LeafOf(p[i]) \in old /\ ~Open(LeafOf(p[i])) /\ q[i] = p[i]
      BY <3>2, <2>1, <1>6, <1>12
    <3> QED BY <3>3, <1>8
  <2> QED BY <2>2, <2>3, <2>4, <2>5
<1>24. /\ leafRows'[g] = s /\ posted'[g] = q /\ leafCount'[g] = Len(q)
       /\ currentRoot'[g] = IF Len(q) = 0 THEN NoRoot ELSE q[Len(q)]
  <2>1. posted'[g] = q /\ leafRows'[g] = s /\ currentRoot'[g] = t
    BY <1>1, <1>2, <1>4, <1>11
  <2>2. leafCount'[g] = n + 1 /\ Len(q) = n + 1 /\ n + 1 # 0
    BY <1>6, <1>9, <1>12
  <2> QED BY <2>1, <2>2, <1>12
<1>25. PostsOf(g)'
  <2>1. Len(q) = n + 1
    BY <1>12
  <2>2. /\ \A i \in 1..Len(q) :
              /\ Len(q[i]) \in 1..i
              /\ LeafOf(q[i]) \in ElementsOf(reviewed')
              /\ GroupOf[LeafOf(q[i])] = g
        /\ \A i, j \in 1..Len(q) : i < j /\ LeafOf(q[i]) = LeafOf(q[j]) => Len(q[j]) = 1
        /\ \A i \in 1..Len(q) : Len(q[i]) = 1 \/ (i > 1 /\ SubSeq(q[i], 1, Len(q[i]) - 1) = q[i - 1])
        /\ s = << >> => \A i \in 1..Len(q) : Len(q[i]) = 1 /\ FirstOfGroup(g, LeafOf(q[i]))'
    BY <2>1, <1>18, <1>20, <1>21, <1>22
  <2>3. s # << >> => Len(q) > 0
    BY <2>1, <1>9
  <2> QED BY <2>2, <2>3, <1>23, <1>24 DEF PostsOf
<1> QED BY <1>2, <1>6, <1>16, <1>25

LEMMA SmallRemainder == ASSUME NEW a \in Nat, NEW n \in Nat \ {0}, a < n PROVE a % n = a
OBVIOUS

(* The index moves on in the ring, to another slot if there is one. *)
LEMMA AdvanceMoves ==
    ASSUME NEW j \in Slots
    PROVE  Advance(j) \in Slots /\ (RootHistorySize > 1 => Advance(j) # j)
<1>1. RootHistorySize \in Nat \ {0} /\ j \in Nat /\ j + 1 <= RootHistorySize
  BY RegistryAssumption DEF Slots, RegistryAssumption
<1>2. CASE j + 1 = RootHistorySize
  <2>1. RootHistorySize % RootHistorySize = 0
    BY <1>1
  <2>2. Advance(j) = 0
    BY <1>2, <2>1 DEF Advance
  <2> QED BY <1>1, <1>2, <2>2 DEF Slots
<1>3. CASE j + 1 < RootHistorySize
  <2>1. PICK k : k = j + 1
    OBVIOUS
  <2>2. k \in Nat /\ k < RootHistorySize /\ k # j
    BY <1>1, <1>3, <2>1
  <2>3. k % RootHistorySize = k
    BY <1>1, <2>2, SmallRemainder
  <2>4. Advance(j) = k
    BY <2>1, <2>3 DEF Advance
  <2> QED BY <1>1, <2>2, <2>4 DEF Slots
<1> QED BY <1>1, <1>2, <1>3

LEMMA PostedRing ==
    ASSUME RegistryTypeOK, RingRecent, PostsTyped, NEW g \in Groups, NEW root \in Roots,
           root \in Seq(Requests), AddLeaf(Wallet, g, root)
    PROVE  RegistryTypeOK' /\ RingRecent' /\ PostsTyped'
<1>1. PICK j : j = rootBufferIndex[g]
  OBVIOUS
<1>2. PICK b : b = [rootBuffer[g] EXCEPT ![j] = root]
  OBVIOUS
<1>3. PICK q : q = Append(posted[g], root)
  OBVIOUS
<1>4. /\ rootBuffer' = [rootBuffer EXCEPT ![g] = b]
      /\ rootBufferIndex' = [rootBufferIndex EXCEPT ![g] = Advance(j)]
      /\ currentRoot' = [currentRoot EXCEPT ![g] = root]
      /\ leafCount' = [leafCount EXCEPT ![g] = leafCount[g] + 1]
      /\ posted' = [posted EXCEPT ![g] = q]
      /\ UNCHANGED <<registryOwner, registryPendingOwner, groupIssuer>>
  BY <1>1, <1>2, <1>3 DEF AddLeaf
<1>5. j \in Slots /\ Advance(j) \in Slots /\ (RootHistorySize > 1 => Advance(j) # j)
  BY <1>1, AdvanceMoves DEF RegistryTypeOK
<1>6. /\ b \in [Slots -> Roots \cup {NoRoot}] /\ b[j] = root
      /\ \A k \in Slots : k # j => b[k] = rootBuffer[g][k]
  BY <1>2, <1>5 DEF RegistryTypeOK
<1>7. posted[g] \in Seq(Roots) /\ posted[g] \in Seq(Seq(Requests))
  BY DEF RegistryTypeOK, PostsTyped
<1>8. PICK n : n = Len(posted[g])
  OBVIOUS
<1>9. /\ n \in Nat /\ q \in Seq(Roots) /\ Len(q) = n + 1 /\ q[n + 1] = root
      /\ \A i \in 1..n : q[i] = posted[g][i]
  BY <1>3, <1>7, <1>8, AppendProperties
<1>10. q \in Seq(Seq(Requests))
  BY <1>3, <1>7, AppendProperties
<1>11. PostsTyped'
  BY <1>4, <1>10 DEF PostsTyped
<1>12. RegistryTypeOK'
  <2>1. leafCount[g] + 1 \in Nat
    BY DEF RegistryTypeOK
  <2>2. currentRoot' \in [Groups -> Roots \cup {NoRoot}] /\ posted' \in [Groups -> Seq(Roots)]
    BY <1>4, <1>9 DEF RegistryTypeOK
  <2>3. rootBuffer' \in [Groups -> [Slots -> Roots \cup {NoRoot}]] /\ rootBufferIndex' \in [Groups -> Slots]
    BY <1>4, <1>5, <1>6 DEF RegistryTypeOK
  <2>4. leafCount' \in [Groups -> Nat]
    BY <1>4, <2>1 DEF RegistryTypeOK
  <2> QED BY <1>4, <2>2, <2>3, <2>4 DEF RegistryTypeOK
<1>13. RingRecent'
  <2> SUFFICES ASSUME NEW h \in Groups
               PROVE  /\ Len(posted'[h]) >= 1 => \E k \in Slots :
                            rootBufferIndex'[h] = Advance(k) /\ rootBuffer'[h][k] = posted'[h][Len(posted'[h])]
                      /\ Len(posted'[h]) >= 2 /\ RootHistorySize > 1 => \E k \in Slots :
                            rootBuffer'[h][k] = posted'[h][Len(posted'[h]) - 1]
    BY DEF RingRecent
  <2>1. CASE h # g
    <3>1. posted'[h] = posted[h] /\ rootBuffer'[h] = rootBuffer[h] /\ rootBufferIndex'[h] = rootBufferIndex[h]
      BY <2>1, <1>4 DEF RegistryTypeOK
    <3> QED BY <3>1 DEF RingRecent
  <2>2. CASE h = g
    <3>1. posted'[h] = q /\ rootBuffer'[h] = b /\ rootBufferIndex'[h] = Advance(j)
      BY <2>2, <1>4 DEF RegistryTypeOK
    <3>2. b[j] = q[Len(q)]
      BY <1>6, <1>9
    <3>3. ASSUME Len(q) >= 2, RootHistorySize > 1 PROVE \E k \in Slots : b[k] = q[Len(q) - 1]
      <4>1. n >= 1 /\ Len(q) - 1 = n /\ n \in 1..n
        BY <3>3, <1>9
      <4>2. PICK k \in Slots : rootBufferIndex[g] = Advance(k) /\ rootBuffer[g][k] = posted[g][n]
        BY <4>1, <1>8 DEF RingRecent
      <4>3. k # j
        BY <4>2, <3>3, <1>1, AdvanceMoves
      <4> QED BY <4>1, <4>2, <4>3, <1>6, <1>9
    <3> QED BY <3>1, <3>2, <3>3, <1>5
  <2> QED BY <2>1, <2>2
<1> QED BY <1>11, <1>12, <1>13

LEMMA MineStep ==
    ASSUME OneTickAtATime, TickIInv, Mine PROVE TickIInv'
<1>1. PICK r \in Requests :
        /\ mempool = <<Tx(r, up)>>
        /\ NewLeaf(GroupOf[r], r)
        /\ up => Pc = "waiting" /\ Head(Todo) = r
  BY DEF Mine, TickIInv, Mempool
<1>2. PICK g : g = GroupOf[r]
  OBVIOUS
<1>3. PICK root : root = Append(leafRows[g], r)
  OBVIOUS
<1>4. PICK tx : tx = Head(mempool)
  OBVIOUS
<1>5. g \in Groups /\ root \in Seq(Requests)
  BY <1>2, <1>3, RowGroups DEF TickIInv, RowsTyped
<1>6. tx.group = g /\ tx.root = root /\ tx.by = Startup /\ tx.awaited = up /\ mempool' = << >>
  <2>1. PICK e : e = Tx(r, up)
    OBVIOUS
  <2>2. mempool = <<e>> /\ tx = e
    <3>1. Head(<<e>>) = e
      OBVIOUS
    <3> QED BY <3>1, <2>1, <1>1, <1>4
  <2>3. mempool' = << >>
    <3>1. Tail(<<e>>) = << >>
      OBVIOUS
    <3> QED BY <3>1, <2>2 DEF Mine
  <2> QED BY <2>1, <2>2, <2>3, <1>2, <1>3 DEF Tx
<1>7. PICK o \in {"mined", "reverted"} :
        /\ job' = IF up THEN [job EXCEPT ![Startup].outcome = o] ELSE job
        /\ o = "mined" => AddLeaf(Wallet, g, root)
        /\ o = "reverted" => UNCHANGED registryVars
  BY <1>4, <1>6 DEF Mine
<1>8. UNCHANGED <<reviewed, leafRows, up, state, mem, running, pc, todo>>
  BY DEF Mine, dbVars
<1>9. /\ job' \in [Tasks -> JobType]
      /\ Posting'.gen = Posting.gen /\ Posting'.root = Posting.root
      /\ up => Posting'.outcome = o
  <2>1. PICK j : j = job[Startup]
    OBVIOUS
  <2>2. PICK k : k = [j EXCEPT !.outcome = o]
    OBVIOUS
  <2>3. j \in JobType /\ job \in [Tasks -> JobType] /\ Startup \in Tasks
    BY <2>1, Assumptions DEF TickIInv, TaskTyped
  <2>4. k \in JobType /\ k.gen = j.gen /\ k.root = j.root /\ k.outcome = o
    BY <2>2, <2>3 DEF JobType
  <2>5. CASE up
    <3>1. job' = [job EXCEPT ![Startup] = k]
      BY <2>1, <2>2, <2>5, <1>7
    <3>2. job' \in [Tasks -> JobType] /\ job'[Startup] = k
      BY <3>1, <2>3, <2>4
    <3> QED BY <3>2, <2>1, <2>4 DEF Posting
  <2>6. CASE ~up
    BY <2>3, <2>6, <1>7 DEF Posting
  <2> QED BY <2>5, <2>6
<1>10. UNCHANGED <<Pc, Todo>> /\ (AtRow' <=> AtRow)
  BY <1>8 DEF Pc, Todo, AtRow
<1>11. /\ \A q : Open(q)' <=> Open(q)
       /\ \A q, p : Before(q, p)' <=> Before(q, p)
       /\ \A h : (Auth(h)' <=> Auth(h)) /\ Mirror(h)' = Mirror(h)
  BY <1>8, <1>10 DEF Open, Recorded, Before, Auth, Mirror
<1>12. Onward
  BY <1>8, <1>11 DEF Onward
<1>13. TaskTyped' /\ RowsTyped' /\ Process'
  BY <1>8, <1>9, <1>10, <1>11 DEF TickIInv, TaskTyped, RowsTyped, Process
<1>14. Pass'
  <2>1. \A i, j \in DOMAIN Todo : Before(Todo[i], Todo[j])' <=> Before(Todo[i], Todo[j])
    BY <1>8, <1>11 DEF Todo
  <2> QED BY <2>1, <1>8, <1>10, <1>11 DEF TickIInv, Pass
<1>15. Mempool'
  BY <1>6 DEF Mempool
<1>16. up => Pc = "waiting" /\ Head(Todo) = r /\ Posting.outcome = "sent" /\ Auth(g)
             /\ Todo # << >> /\ Posting.gen = Startup /\ Posting.root = root
  <2>1. mempool # << >>
    BY DEF Mine
  <2> QED BY <2>1, <1>1, <1>2, <1>3 DEF TickIInv, Waiting
<1>17. \A h \in Groups : Auth(h) => /\ up
                                    /\ h \in ElementsOf(GroupOrder) /\ Mirror(h) = leafRows[h]
                                    /\ Settled(h)
  <2> SUFFICES ASSUME NEW h \in Groups, Auth(h)
               PROVE  up /\ h \in ElementsOf(GroupOrder) /\ Mirror(h) = leafRows[h] /\ Settled(h)
    OBVIOUS
  <2>1. up
    BY DEF TickIInv, Process
  <2>2. Pc \notin BootPcs /\ Posting.outcome # "mined"
    BY <2>1, <1>16 DEF BootPcs
  <2> QED BY <2>1, <2>2, AuthIsSettled
<1>18. CASE o = "reverted"
  <2>1. UNCHANGED <<registryVars, ringVars, posted, currentRoot>>
    BY <1>7, <1>18 DEF registryVars, ringVars
  <2>2. Memory'
    <3>1. Pc' # "reading"
      <4>1. CASE up
        BY <4>1, <1>10, <1>16
      <4>2. CASE ~up
        BY <4>2, <1>10 DEF TickIInv, Process
      <4> QED BY <4>1, <4>2
    <3>2. \A h : Settled(h)' <=> Settled(h)
      BY <2>1, <1>8 DEF Settled
    <3> QED BY <3>1, <3>2, <1>8, <1>11, <1>17 DEF Memory
  <2>3. Waiting'
    <3> SUFFICES ASSUME Pc = "waiting"
                 PROVE  Waiting'
      BY <1>10 DEF Waiting
    <3>1. up
      BY NothingSent
    <3>2. Posting'.outcome = "reverted" /\ Posting'.gen = Startup /\ Posting'.root = root
      BY <3>1, <1>9, <1>16, <1>18
    <3>3. Auth(g)' /\ Head(Todo)' = r /\ Todo' # << >>
      BY <3>1, <1>10, <1>11, <1>16
    <3> QED BY <3>2, <3>3, <1>2, <1>3, <1>6, <1>8 DEF Waiting
  <2>4. RegistryTypeOK'
    BY <2>1 DEF TickIInv, RegistryTypeOK, registryVars, ringVars
  <2> QED BY <2>1, <2>2, <2>3, <2>4, <1>8, <1>12, <1>13, <1>14, <1>15, AroundKeeps
<1>19. CASE o = "mined"
  <2>1. AddLeaf(Wallet, g, root)
    BY <1>7, <1>19
  <2>2. /\ leafCount[g] < MaxLeafCount
        /\ posted' = [posted EXCEPT ![g] = Append(posted[g], root)]
        /\ currentRoot' = [currentRoot EXCEPT ![g] = root]
        /\ leafCount' = [leafCount EXCEPT ![g] = leafCount[g] + 1]
    BY <2>1 DEF AddLeaf
  <2>3. /\ posted'[g] = Append(posted[g], root) /\ currentRoot'[g] = root
        /\ leafCount'[g] = leafCount[g] + 1
        /\ \A h \in Groups : h # g => /\ posted'[h] = posted[h] /\ currentRoot'[h] = currentRoot[h]
                                      /\ leafCount'[h] = leafCount[h]
    BY <2>2, <1>5 DEF TickIInv, RegistryTypeOK
  <2>4. PostsOf(g)' /\ Len(leafRows[g]) <= leafCount[g]
    <3>1. RowsTyped /\ PostsTyped /\ PostsOf(g) /\ NewLeaf(g, r)
      BY <1>1, <1>2, <1>5 DEF TickIInv
    <3> QED BY <3>1, <2>3, <1>3, <1>5, <1>8, <1>12, PostedPosts
  <2>5. root \in Roots
    <3>1. PICK n : n = Len(root)
      OBVIOUS
    <3>2. leafRows[g] \in Seq(Requests) /\ Len(leafRows[g]) \in Nat
      BY <1>5 DEF TickIInv, RowsTyped
    <3>3. n = Len(leafRows[g]) + 1
      BY <3>1, <3>2, <1>3, AppendProperties
    <3>4. leafCount[g] \in Nat /\ MaxLeafCount \in Nat
      BY <1>5, RegistryAssumption DEF TickIInv, RegistryTypeOK, RegistryAssumption
    <3>5. n \in 1..MaxLeafCount
      BY <3>2, <3>3, <3>4, <2>2, <2>4
    <3>6. root \in [1..n -> Requests]
      BY <3>1, <1>5
    <3> QED BY <3>5, <3>6, AutoFreshnessAssumption DEF AutoFreshnessAssumption
  <2>6. RegistryTypeOK' /\ RingRecent' /\ PostsTyped'
    BY <2>1, <2>5, <1>5, PostedRing DEF TickIInv
  <2>7. \A h \in Groups : PostsOf(h)'
    <3> TAKE h \in Groups
    <3>1. CASE h = g
      BY <3>1, <2>4
    <3>2. CASE h # g
      <4>1. RowsTyped /\ PostsOf(h)
        BY DEF TickIInv
      <4> QED BY <4>1, <3>2, <2>3, <1>8, <1>12, PostsOfKept
    <3> QED BY <3>1, <3>2
  <2>8. Memory'
    <3>1. Pc' # "reading"
      <4>1. CASE up
        BY <4>1, <1>10, <1>16
      <4>2. CASE ~up
        BY <4>2, <1>10 DEF TickIInv, Process
      <4> QED BY <4>1, <4>2
    <3> SUFFICES ASSUME NEW h \in Groups, Auth(h)'
                 PROVE  /\ h \in ElementsOf(GroupOrder) /\ Mirror(h)' = leafRows'[h]
                        /\ \/ Settled(h)'
                           \/ Pc' = "waiting" /\ h = GroupOf[Head(Todo')] /\ Posting'.outcome = "mined"
      BY <3>1 DEF Memory
    <3>2. Auth(h) /\ Mirror(h)' = Mirror(h)
      BY <1>11
    <3>3. up /\ h \in ElementsOf(GroupOrder) /\ Mirror(h) = leafRows[h] /\ Settled(h)
      BY <3>2, <1>17
    <3>4. CASE h = g
      BY <3>2, <3>3, <3>4, <1>2, <1>8, <1>9, <1>10, <1>16, <1>19
    <3>5. CASE h # g
      BY <3>2, <3>3, <3>5, <2>3, <1>8 DEF Settled
    <3> QED BY <3>4, <3>5
  <2>9. Waiting'
    <3> SUFFICES ASSUME Pc = "waiting"
                 PROVE  Waiting'
      BY <1>10 DEF Waiting
    <3>1. up
      BY NothingSent
    <3>2. Posting'.outcome = "mined" /\ Posting'.gen = Startup /\ Posting'.root = root
      BY <3>1, <1>9, <1>16, <1>19
    <3>3. Auth(g)' /\ Head(Todo)' = r /\ Todo' # << >>
      BY <3>1, <1>10, <1>11, <1>16
    <3>4. posted'[g] # << >>
      <4>1. posted[g] \in Seq(Seq(Requests))
        BY <1>5 DEF TickIInv, PostsTyped
      <4> QED BY <4>1, <2>3, <1>5, AppendProperties
    <3> QED BY <3>2, <3>3, <3>4, <2>3, <1>2, <1>3, <1>6, <1>8 DEF Waiting
  <2> QED BY <2>6, <2>7, <2>8, <2>9, <1>13, <1>14, <1>15 DEF TickIInv
<1> QED BY <1>18, <1>19

-----------------------------------------------------------------------------
LEMMA TickStarts == ASSUME OneTickAtATime, Init PROVE TickIInv
<1> USE Assumptions DEF Init
<1>1. \A S : << >> \in Seq(S)
  OBVIOUS
<1>2. RegistryTypeOK /\ PostsTyped
  <2>1. Deployer \in Accounts /\ 0 \in Slots
    BY RegistryAssumption DEF RegistryAssumption, Slots
  <2>2. /\ registryOwner = Deployer /\ registryPendingOwner = NoAccount
        /\ groupIssuer = [g \in Groups |-> [a \in Accounts |-> FALSE]]
        /\ currentRoot = [g \in Groups |-> NoRoot]
        /\ rootBuffer = [g \in Groups |-> [i \in Slots |-> NoRoot]]
        /\ rootBufferIndex = [g \in Groups |-> 0]
        /\ leafCount = [g \in Groups |-> 0]
        /\ posted = [g \in Groups |-> << >>]
    BY DEF RegistryInit
  <2>3. posted \in [Groups -> Seq(Roots)] /\ posted \in [Groups -> Seq(Seq(Requests))]
    BY <1>1, <2>2
  <2> QED BY <2>1, <2>2, <2>3 DEF RegistryTypeOK, PostsTyped
<1>3. Pc = "idle" /\ ~AtRow /\ \A g \in Groups : ~Auth(g)
  BY DEF Pc, AtRow, Auth
<1>4. TaskTyped
  <2>1. mem \in [Tasks -> [Groups -> GroupState]]
    <3>1. PICK o : o = [authorised |-> FALSE, leaves |-> << >>]
      OBVIOUS
    <3>2. o \in GroupState
      BY <1>1, <3>1 DEF GroupState
    <3>3. mem = [t \in Tasks |-> [g \in Groups |-> o]]
      BY <3>1
    <3> QED BY <3>2, <3>3
  <2>2. job \in [Tasks -> JobType]
    <3>1. NoJob \in JobType
      BY <1>1 DEF NoJob, JobType
    <3> QED BY <3>1
  <2>3. pc \in [Tasks -> Pcs] /\ DOMAIN todo = Tasks
    BY DEF Pcs
  <2> QED BY <1>3, <2>1, <2>2, <2>3 DEF TaskTyped, BootPcs
<1>5. RowsTyped
  <2>1. DOMAIN reviewed = {}
    OBVIOUS
  <2>2. reviewed \in Seq(Requests) /\ leafRows \in [Groups -> Seq(Requests)]
    BY <1>1
  <2> QED BY <2>1, <2>2 DEF RowsTyped
<1>6. Process /\ Memory /\ Pass /\ Waiting /\ Mempool
  BY <1>3 DEF Process, Memory, Pass, Waiting, Mempool
<1>7. \A g \in Groups : posted[g] = << >> /\ leafRows[g] = << >> /\ leafCount[g] = 0 /\ currentRoot[g] = NoRoot
  BY DEF RegistryInit
<1>8. Len(<< >>) = 0
  OBVIOUS
<1>9. \A g \in Groups : PostsOf(g)
  <2> TAKE g \in Groups
  <2>1. PICK p : p = posted[g]
    OBVIOUS
  <2>2. Len(p) = 0 /\ 1..Len(p) = {}
    BY <1>7, <1>8, <2>1
  <2> QED BY <1>7, <2>1, <2>2 DEF PostsOf
<1>10. RingRecent
  <2>1. \A g \in Groups : Len(posted[g]) = 0
    BY <1>7, <1>8
  <2>2. \A g \in Groups : ~(Len(posted[g]) >= 1) /\ ~(Len(posted[g]) >= 2)
    <3>1. ~(0 >= 1) /\ ~(0 >= 2)
      OBVIOUS
    <3> QED BY <2>1, <3>1, Zenon
  <2> QED BY <2>2, Zenon DEF RingRecent
<1> QED BY <1>2, <1>4, <1>5, <1>6, <1>9, <1>10 DEF TickIInv

LEMMA TickTaskStep ==
    ASSUME OneTickAtATime, TickIInv, NEW t \in Tasks, TaskStep(t) PROVE TickIInv'
<1>1. t = Startup
  BY DEF OneTickAtATime
<1> QED BY <1>1, RebuildGroupStep, PublishStateStep, AskRootStep, CompareRootStep, BootedStep,
           TickStep, TickAfterBootStep, EndTickStep, SkipRowStep, SendLeafStep, RecordLeafStep,
           PostRevertedStep DEF TaskStep

LEMMA TickNextStep ==
    ASSUME OneTickAtATime, TickIInv, [Next]_vars PROVE TickIInv'
<1>1. CASE UNCHANGED vars
  <2>1. UNCHANGED <<registryVars, ringVars, dbVars, up, taskVars, mempool>>
    BY <1>1 DEF vars, registryVars
  <2>2. RegistryTypeOK'
    BY <2>1 DEF TickIInv, RegistryTypeOK, registryVars, ringVars
  <2> QED BY <2>1, <2>2, RolesStep
<1> QED BY <1>1, GrantStep, ApproveStep, MineStep, StartStep, CrashStep, TickTaskStep DEF Next

(* The bounds on failing calls and crashes. *)
Budgets == faults \in 0..MaxFaults /\ crashes \in 0..MaxCrashes

LEMMA BudgetsStep == ASSUME Budgets, [Next]_vars PROVE Budgets'
<1>1. MaxFaults \in Nat /\ MaxCrashes \in Nat
  BY AutoFreshnessAssumption DEF AutoFreshnessAssumption
<1>2. ASSUME NEW point, Fault(point) PROVE Budgets'
  BY <1>1, <1>2 DEF Fault, Budgets
<1>3. ASSUME UNCHANGED budgetVars PROVE Budgets'
  BY <1>3 DEF budgetVars, Budgets
<1>4. ASSUME Crash PROVE Budgets'
  BY <1>1, <1>4 DEF Crash, Budgets
<1>5. ASSUME NEW t \in Tasks, TaskStep(t) PROVE Budgets'
  BY <1>2, <1>3, <1>5 DEF TaskStep, RebuildGroup, PublishState, AskRoot, CompareRoot, Booted, Tick,
     TickAfterBoot, EndTick, SkipRow, SendLeaf, RecordLeaf, PostReverted
<1>6. ASSUME NEW g \in Groups, Grant(g) \/ Withdraw(g) PROVE Budgets'
  BY <1>3, <1>6 DEF Grant, Withdraw
<1>7. ASSUME NEW r \in Requests, Approve(r) PROVE Budgets'
  BY <1>3, <1>7 DEF Approve
<1>8. ASSUME Mine \/ Start PROVE Budgets'
  BY <1>3, <1>8 DEF Mine, Start
<1>9. CASE UNCHANGED vars
  BY <1>3, <1>9 DEF vars
<1> QED BY <1>4, <1>5, <1>6, <1>7, <1>8, <1>9 DEF Next

LEMMA TickImpliesLoop ==
    ASSUME OneTickAtATime, TickIInv, Budgets PROVE LoopInv
<1>1. TypeOK
  BY DEF TickIInv, TaskTyped, RowsTyped, Budgets, TypeOK, Pcs
<1>2. ASSUME NEW g \in Groups
      PROVE  /\ \A i, j \in DOMAIN posted[g] :
                   i < j /\ CommitmentOf[LeafOf(posted[g][i])] = CommitmentOf[LeafOf(posted[g][j])]
                       => Len(posted[g][j]) = 1
             /\ \A i \in DOMAIN posted[g] :
                   \/ Len(posted[g][i]) = 1
                   \/ i > 1 /\ SubSeq(posted[g][i], 1, Len(posted[g][i]) - 1) = posted[g][i - 1]
  <2>1. PICK p : p = posted[g]
    OBVIOUS
  <2>2. DOMAIN p = 1..Len(p)
    BY <2>1 DEF TickIInv, PostsTyped
  <2>3. /\ \A i \in 1..Len(p) : LeafOf(p[i]) \in ElementsOf(reviewed) /\ GroupOf[LeafOf(p[i])] = g
        /\ \A i, j \in 1..Len(p) : i < j /\ LeafOf(p[i]) = LeafOf(p[j]) => Len(p[j]) = 1
        /\ \A i \in 1..Len(p) : Len(p[i]) = 1 \/ (i > 1 /\ SubSeq(p[i], 1, Len(p[i]) - 1) = p[i - 1])
    <3>1. PostsOf(g)
      BY DEF TickIInv
    <3> QED BY <2>1, <3>1 DEF PostsOf
  <2>4. \A i \in 1..Len(p) : LeafOf(p[i]) \in Requests
    BY <2>3, RowsAreRequests DEF TickIInv
  <2>5. \A i, j \in 1..Len(p) : i < j /\ CommitmentOf[LeafOf(p[i])] = CommitmentOf[LeafOf(p[j])]
                                  => Len(p[j]) = 1
    BY <2>3, <2>4 DEF OneTickAtATime
  <2> QED BY <2>1, <2>2, <2>3, <2>5
<1>3. DuplicatesOnlyFirst /\ RootsExtend
  BY <1>2 DEF DuplicatesOnlyFirst, RootsExtend
<1> QED BY <1>1, <1>3 DEF LoopInv

LEMMA TickImpliesServed ==
    ASSUME TickIInv, RootHistorySize > 1 PROVE ServedRootKnown
<1> SUFFICES ASSUME NEW g \in Groups, leafRows[g] # << >> PROVE IsKnownRoot(g, leafRows[g])
  BY DEF ServedRootKnown
<1>1. PICK p : p = posted[g]
  OBVIOUS
<1>2. PICK n : n = Len(p)
  OBVIOUS
<1>3. n \in Nat /\ \A i \in 1..n : p[i] \in Roots
  BY <1>1, <1>2 DEF TickIInv, RegistryTypeOK
<1>4. n > 0 /\ (p[n] = leafRows[g] \/ (n > 1 /\ p[n - 1] = leafRows[g]))
  BY <1>1, <1>2 DEF TickIInv, PostsOf
<1>5. leafRows[g] # NoRoot
  <2>1. n \in 1..n /\ (n > 1 => n - 1 \in 1..n)
    BY <1>3, <1>4
  <2>2. leafRows[g] \in Roots
    BY <2>1, <1>3, <1>4
  <2> QED BY <2>2, RegistryAssumption DEF RegistryAssumption
<1>6. \E k \in Slots : rootBuffer[g][k] = leafRows[g]
  <2>1. /\ n >= 1 => \E j \in Slots : rootBuffer[g][j] = p[n]
        /\ n >= 2 => \E k \in Slots : rootBuffer[g][k] = p[n - 1]
    BY <1>1, <1>2 DEF TickIInv, RingRecent
  <2>2. n >= 1 /\ (n > 1 => n >= 2)
    BY <1>3, <1>4
  <2> QED BY <2>1, <2>2, <1>4
<1> QED BY <1>5, <1>6 DEF IsKnownRoot

(* One tick at a time: every tree that is posted is the one before with one *)
(* leaf added or a first leaf again, and only a first leaf is ever posted   *)
(* twice, whatever crashes and calls fail.                                 *)
THEOREM LoopPostsOnce == OneTickAtATime /\ Spec => []LoopInv
<1> SUFFICES ASSUME OneTickAtATime PROVE Spec => []LoopInv
  OBVIOUS
<1>1. Init => TickIInv /\ Budgets
  <2>1. Init => Budgets
    BY AutoFreshnessAssumption DEF Init, Budgets, AutoFreshnessAssumption
  <2> QED BY <2>1, TickStarts
<1>2. TickIInv /\ Budgets /\ [Next]_vars => (TickIInv /\ Budgets)'
  BY TickNextStep, BudgetsStep
<1>3. TickIInv /\ Budgets => LoopInv
  BY TickImpliesLoop
<1> QED BY <1>1, <1>2, <1>3, PTL DEF Spec

(* One tick at a time, and a ring of at least two slots: the tree that is   *)
(* served has a root the registry accepts.                                 *)
THEOREM ServedIsKnown == OneTickAtATime /\ RootHistorySize > 1 /\ Spec => []ServedRootKnown
<1> SUFFICES ASSUME OneTickAtATime, RootHistorySize > 1 PROVE Spec => []ServedRootKnown
  OBVIOUS
<1>1. Init => TickIInv
  BY TickStarts
<1>2. TickIInv /\ [Next]_vars => TickIInv'
  BY TickNextStep
<1>3. TickIInv => ServedRootKnown
  BY TickImpliesServed
<1> QED BY <1>1, <1>2, <1>3, PTL DEF Spec
====
