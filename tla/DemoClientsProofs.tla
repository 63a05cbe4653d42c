-------------------------- MODULE DemoClientsProofs --------------------------
(***************************************************************************)
(* What the clients of a group hold and know, for any commitments, wallets,*)
(* chunk and page sizes, root windows and bounds: a proof the gate or the  *)
(* airdrop accepts is one over a group the contract had, by one of its     *)
(* members; and what the indexer stores and the SDK rebuilds from events   *)
(* is the group of the contract, up to the block they have read.           *)
(***************************************************************************)
EXTENDS DemoClients, SequenceTheorems, FiniteSetTheorems, WellFoundedInduction, TLAPS

-----------------------------------------------------------------------------
(* Numbers and functions computed step by step.                            *)

LEMMA LeastElement ==
    ASSUME NEW T, T \subseteq Nat, T # {}
    PROVE  \E n \in T : \A m \in T : n <= m
<1> DEFINE R == OpToRel(<, Nat)
<1>1. IsWellFoundedOn(R, Nat)
  BY NatLessThanWellFounded
<1>2. \A x, y \in Nat : x < y => <<x, y>> \in R
  BY DEF OpToRel
<1> HIDE DEF R
<1>3. PICK n \in T : \A y \in T : ~ (<<y, n>> \in R)
  BY <1>1, WFMin
<1>4. \A m \in T : ~ (m < n)
  BY <1>2, <1>3
<1> QED BY <1>4, <1>3

LEMMA UpTo ==
    ASSUME NEW n \in Nat, NEW T, 0 \in T, \A m \in 0..(n - 1) : m \in T => m + 1 \in T
    PROVE  \A l \in 0..n : l \in T
<1> DEFINE Bad == {l \in 0..n : l \notin T}
<1>1. ASSUME Bad # {} PROVE FALSE
  <2>1. PICK m \in Bad : \A k \in Bad : m <= k
    <3>1. Bad \subseteq Nat
      OBVIOUS
    <3> HIDE DEF Bad
    <3> QED BY <1>1, <3>1, LeastElement
  <2>2. m \in 1..n /\ m \notin T
    BY <2>1
  <2>3. m - 1 \in 0..n /\ m - 1 \in 0..(n - 1) /\ (m - 1) + 1 = m /\ ~ (m <= m - 1)
    BY <2>2
  <2>4. m - 1 \notin Bad
    <3> HIDE DEF Bad
    <3> QED BY <2>1, <2>3
  <2> QED BY <2>2, <2>3, <2>4
<1> QED BY <1>1

LEMMA OneMore ==
    ASSUME NEW n \in Nat
    PROVE  /\ \A k \in 1..(n + 1) : k \in 1..n \/ k = n + 1
           /\ n + 1 \in 1..(n + 1)
           /\ \A k \in 1..n : k \in 1..(n + 1) /\ k < n + 1 /\ ~ (n + 1 < k)
           /\ ~ (n + 1 < n + 1)
OBVIOUS

LEMMA LeastOf ==
    ASSUME NEW I, I \subseteq Nat, NEW k \in I, \A j \in I : k <= j
    PROVE  (CHOOSE x \in I : \A y \in I : x <= y) = k
<1> DEFINE c == CHOOSE x \in I : \A y \in I : x <= y
<1>1. c \in I /\ c <= k /\ k <= c /\ c \in Nat /\ k \in Nat
  OBVIOUS
<1> HIDE DEF c
<1>2. c = k
  BY <1>1
<1> QED BY <1>2 DEF c

(* A function each of whose values is computed from the one before exists. *)
Computed(f, n, V, start, step) ==
    /\ f \in [0..n -> V] /\ f[0] = start
    /\ \A i \in 1..n : f[i] = step[i][f[i - 1]]

LEMMA StepsExist ==
    ASSUME NEW n \in Nat, NEW V, NEW start \in V, NEW step \in [1..n -> [V -> V]]
    PROVE  \E f : Computed(f, n, V, start, step)
<1> DEFINE Is(f, m) == /\ f \in [0..m -> V] /\ f[0] = start
                       /\ \A i \in 1..m : f[i] = step[i][f[i - 1]]
           Built == {m \in 0..n : \E f : Is(f, m)}
<1>1. 0 \in Built
  <2> DEFINE f == [i \in 0..0 |-> start]
  <2>1. f \in [0..0 -> V] /\ f[0] = start /\ 1..0 = {} /\ 0 \in 0..n
    OBVIOUS
  <2> HIDE DEF f
  <2>2. Is(f, 0)
    BY <2>1
  <2> QED BY <2>1, <2>2
<1>2. ASSUME NEW m \in 0..(n - 1), m \in Built PROVE m + 1 \in Built
  <2>1. PICK f : Is(f, m)
    BY <1>2
  <2>2. m \in 0..m /\ m + 1 \in 0..n /\ m + 1 \in 1..n /\ m + 1 \notin 0..m /\ (m + 1) - 1 = m
    OBVIOUS
  <2>3. PICK v : v = step[m + 1][f[m]]
    OBVIOUS
  <2>4. v \in V
    BY <2>1, <2>2, <2>3
  <2> DEFINE g == [i \in 0..(m + 1) |-> IF i = m + 1 THEN v ELSE f[i]]
  <2>5. \A i \in 0..(m + 1) : i = m + 1 \/ i \in 0..m
    OBVIOUS
  <2>6. g \in [0..(m + 1) -> V]
    BY <2>1, <2>4, <2>5
  <2>7. \A i \in 0..m : g[i] = f[i]
    BY <2>2
  <2>8. g[m + 1] = v
    OBVIOUS
  <2> HIDE DEF g
  <2>9. \A i \in 1..(m + 1) : g[i] = step[i][g[i - 1]]
    <3> TAKE i \in 1..(m + 1)
    <3>1. CASE i = m + 1
      BY <2>2, <2>3, <2>7, <2>8, <3>1
    <3>2. CASE i # m + 1
      <4>1. i \in 1..m /\ i \in 0..m /\ i - 1 \in 0..m
        BY <3>2
      <4> QED BY <2>1, <2>7, <4>1
    <3> QED BY <3>1, <3>2
  <2>10. g[0] = start
    BY <2>1, <2>7
  <2>11. Is(g, m + 1)
    BY <2>6, <2>9, <2>10
  <2> QED BY <2>2, <2>11
<1>3. \A m \in 0..n : m \in Built
  <2> HIDE DEF Built
  <2> QED BY <1>1, <1>2, UpTo
<1>4. n \in Built
  BY <1>3
<1> QED BY <1>4 DEF Computed


(* One that goes on agrees with the one it goes on from.                   *)
LEMMA GoesOn ==
    ASSUME NEW n \in Nat, NEW m \in Nat, n <= m, NEW V, NEW start, NEW step, NEW further,
           NEW f, Computed(f, n, V, start, step), NEW g, Computed(g, m, V, start, further),
           \A i \in 1..n : \A v \in V : further[i][v] = step[i][v]
    PROVE  \A i \in 0..n : g[i] = f[i]
<1> DEFINE Same == {i \in 0..n : g[i] = f[i]}
<1>1. 0 \in Same
  BY DEF Computed
<1>2. ASSUME NEW i \in 0..(n - 1), i \in Same PROVE i + 1 \in Same
  <2>1. i \in 0..n /\ i + 1 \in 1..n /\ i + 1 \in 1..m /\ i + 1 \in 0..n /\ (i + 1) - 1 = i
    OBVIOUS
  <2>2. f[i] \in V
    BY <2>1 DEF Computed
  <2>3. f[i + 1] = step[i + 1][f[i]] /\ g[i + 1] = further[i + 1][g[i]]
    <3>1. \A k \in 1..n : f[k] = step[k][f[k - 1]]
      BY DEF Computed
    <3>2. \A k \in 1..m : g[k] = further[k][g[k - 1]]
      BY DEF Computed
    <3> QED BY <2>1, <3>1, <3>2
  <2>4. g[i + 1] = f[i + 1]
    BY <1>2, <2>1, <2>2, <2>3
  <2> QED BY <2>1, <2>4
<1>3. \A i \in 0..n : i \in Same
  <2> HIDE DEF Same
  <2> QED BY <1>1, <1>2, UpTo
<1> QED BY <1>3

-----------------------------------------------------------------------------
(* The tree of a sequence of events.                                       *)

GroupEvent == [kind : {Issued, Revoked}, commitment : Commitments, block : Nat]
Leaf == Commitments \cup {None}
Leaves == Seq(Leaf)

(* A commitment is removed where it first occurs, if it does.              *)
LEMMA RemovalIs ==
    ASSUME NEW leaves \in Leaves, NEW c
    PROVE  \/ c \notin ToSet(leaves) /\ RemoveMember(leaves, c) = leaves /\ PositionOf(leaves, c) = 0
           \/ \E k \in 1..Len(leaves) :
                 /\ leaves[k] = c /\ \A j \in 1..Len(leaves) : j < k => leaves[j] # c
                 /\ PositionOf(leaves, c) = k
                 /\ RemoveMember(leaves, c) = [leaves EXCEPT ![k] = None]
<1> DEFINE I == {i \in 1..Len(leaves) : leaves[i] = c}
<1>1. Len(leaves) \in Nat /\ DOMAIN leaves = 1..Len(leaves)
  BY DEF Leaves
<1>2. CASE I = {}
  <2>1. c \notin ToSet(leaves)
    BY <1>1, <1>2 DEF ToSet
  <2>2. PositionOf(leaves, c) = 0
    BY <1>2 DEF PositionOf, SelectInSeq
  <2> QED BY <2>1, <2>2 DEF RemoveMember
<1>3. CASE I # {}
  <2>1. I \subseteq Nat
    BY <1>1
  <2>2. PICK k \in I : \A j \in I : k <= j
    <3> HIDE DEF I
    <3> QED BY <1>3, <2>1, LeastElement
  <2>3. (CHOOSE x \in I : \A y \in I : x <= y) = k
    <3> HIDE DEF I
    <3> QED BY <2>1, <2>2, LeastOf
  <2>4. PositionOf(leaves, c) = k
    <3>1. SelectInSeq(leaves, LAMBDA leaf : leaf = c) = IF I # {} THEN Min(I) ELSE 0
      BY DEF SelectInSeq
    <3>2. Min(I) = CHOOSE x \in I : \A y \in I : x <= y
      BY DEF Min
    <3> QED BY <1>3, <2>3, <3>1, <3>2 DEF PositionOf
  <2>5. k \in 1..Len(leaves) /\ leaves[k] = c /\ k # 0
    BY <1>1, <2>2
  <2>6. \A j \in 1..Len(leaves) : j < k => leaves[j] # c
    BY <1>1, <2>2, <2>5
  <2>7. RemoveMember(leaves, c) = [leaves EXCEPT ![k] = None]
    BY <2>4, <2>5 DEF RemoveMember
  <2> QED BY <2>4, <2>5, <2>6, <2>7
<1> QED BY <1>2, <1>3

LEMMA StillLeaves ==
    ASSUME NEW leaves \in Leaves, NEW e \in GroupEvent
    PROVE  ApplyToTree(leaves, e) \in Leaves
<1>1. CASE e.kind = Issued
  <2>1. e.commitment \in Leaf
    BY DEF GroupEvent, Leaf
  <2> QED BY <1>1, <2>1, AppendProperties DEF ApplyToTree, Leaves
<1>2. CASE e.kind # Issued
  <2>1. RemoveMember(leaves, e.commitment) \in Leaves
    <3>1. CASE RemoveMember(leaves, e.commitment) = leaves
      BY <3>1
    <3>2. CASE \E k \in 1..Len(leaves) : RemoveMember(leaves, e.commitment) = [leaves EXCEPT ![k] = None]
      <4>1. None \in Leaf
        BY DEF Leaf
      <4> QED BY <3>2, <4>1, ExceptSeq DEF Leaves
    <3> QED BY <3>1, <3>2, RemovalIs
  <2> QED BY <1>2, <2>1 DEF ApplyToTree
<1> QED BY <1>1, <1>2

TreeSteps(events) == [i \in 1..Len(events) |-> [leaves \in Leaves |-> ApplyToTree(leaves, events[i])]]

LEMMA TreeComputed ==
    ASSUME NEW events \in Seq(GroupEvent)
    PROVE  \E f : Computed(f, Len(events), Leaves, <<>>, TreeSteps(events)) /\ Tree(events) = f[Len(events)]
<1> DEFINE n == Len(events)
           t == CHOOSE f : f = [i \in 0..n |-> IF i = 0 THEN <<>> ELSE ApplyToTree(f[i - 1], events[i])]
<1>1. n \in Nat /\ \A i \in 1..n : events[i] \in GroupEvent
  OBVIOUS
<1>2. << >> \in Leaves
  BY DEF Leaves
<1>3. TreeSteps(events) \in [1..n -> [Leaves -> Leaves]]
  BY <1>1, StillLeaves DEF TreeSteps
<1> HIDE DEF n
<1>4. PICK f : Computed(f, n, Leaves, <<>>, TreeSteps(events))
  BY <1>1, <1>2, <1>3, StepsExist
<1>5. /\ f \in [0..n -> Leaves] /\ f[0] = <<>>
      /\ \A i \in 1..n : f[i] = TreeSteps(events)[i][f[i - 1]]
  BY <1>4 DEF Computed
<1>6. \A i \in 1..n : f[i - 1] \in Leaves /\ f[i] = ApplyToTree(f[i - 1], events[i])
  <2> TAKE i \in 1..n
  <2>1. i - 1 \in 0..n
    BY <1>1
  <2> QED BY <1>5, <2>1 DEF TreeSteps, n
<1>7. \A i \in 0..n : f[i] = IF i = 0 THEN <<>> ELSE ApplyToTree(f[i - 1], events[i])
  <2> TAKE i \in 0..n
  <2>1. i = 0 \/ i \in 1..n
    BY <1>1
  <2> QED BY <1>5, <1>6, <2>1
<1>8. f = [i \in 0..n |-> IF i = 0 THEN <<>> ELSE ApplyToTree(f[i - 1], events[i])]
  BY <1>5, <1>7
<1>9. t = [i \in 0..n |-> IF i = 0 THEN <<>> ELSE ApplyToTree(t[i - 1], events[i])]
  BY <1>8
<1>10. Tree(events) = t[n]
  BY DEF Tree, n
<1> HIDE DEF t
<1> DEFINE Same == {i \in 0..n : t[i] = f[i]}
<1>11. 0 \in Same
  <2>1. t[0] = <<>> /\ 0 \in 0..n
    BY <1>1, <1>9
  <2> QED BY <1>5, <2>1
<1>12. ASSUME NEW i \in 0..(n - 1), i \in Same PROVE i + 1 \in Same
  <2>1. i + 1 \in 1..n /\ i + 1 \in 0..n /\ (i + 1) - 1 = i /\ i + 1 # 0
    BY <1>1
  <2>2. t[i + 1] = ApplyToTree(t[i], events[i + 1])
    BY <1>9, <2>1
  <2> QED BY <1>6, <1>12, <2>1, <2>2
<1>13. \A i \in 0..n : i \in Same
  <2> HIDE DEF Same
  <2> QED BY <1>1, <1>11, <1>12, UpTo
<1>14. t[n] = f[n]
  BY <1>1, <1>13
<1> QED BY <1>4, <1>10, <1>14 DEF n

LEMMA EmptyTree == Tree(<<>>) = <<>>
<1>1. << >> \in Seq(GroupEvent) /\ Len(<<>>) = 0
  OBVIOUS
<1>2. PICK f : Computed(f, 0, Leaves, <<>>, TreeSteps(<<>>)) /\ Tree(<<>>) = f[0]
  BY <1>1, TreeComputed
<1> QED BY <1>2 DEF Computed

LEMMA TreeTyped == ASSUME NEW events \in Seq(GroupEvent) PROVE Tree(events) \in Leaves
<1>1. PICK f : Computed(f, Len(events), Leaves, <<>>, TreeSteps(events)) /\ Tree(events) = f[Len(events)]
  BY TreeComputed
<1>2. Len(events) \in 0..Len(events)
  OBVIOUS
<1> QED BY <1>1, <1>2 DEF Computed

LEMMA TreeGrows ==
    ASSUME NEW events \in Seq(GroupEvent), NEW e \in GroupEvent
    PROVE  Tree(Append(events, e)) = ApplyToTree(Tree(events), e)
<1>1. PICK more : more = Append(events, e)
  OBVIOUS
<1>2. PICK n \in Nat : n = Len(events)
  OBVIOUS
<1>3. /\ more \in Seq(GroupEvent) /\ Len(more) = n + 1 /\ more[n + 1] = e
      /\ \A i \in 1..n : more[i] = events[i]
  BY <1>1, <1>2
<1>4. PICK f : Computed(f, n, Leaves, <<>>, TreeSteps(events)) /\ Tree(events) = f[n]
  BY <1>2, TreeComputed
<1>5. PICK g : Computed(g, n + 1, Leaves, <<>>, TreeSteps(more)) /\ Tree(more) = g[n + 1]
  BY <1>3, TreeComputed
<1>6. \A i \in 1..n : \A v \in Leaves : TreeSteps(more)[i][v] = TreeSteps(events)[i][v]
  BY <1>2, <1>3, OneMore DEF TreeSteps
<1>7. \A i \in 0..n : g[i] = f[i]
  <2>1. n \in Nat /\ n + 1 \in Nat /\ n <= n + 1
    OBVIOUS
  <2> QED BY <1>4, <1>5, <1>6, <2>1, GoesOn
<1>8. n \in 0..n /\ n + 1 \in 1..(n + 1) /\ (n + 1) - 1 = n
  OBVIOUS
<1>9. g[n] = f[n] /\ f[n] \in Leaves
  BY <1>4, <1>7, <1>8 DEF Computed
<1>10. g[n + 1] = TreeSteps(more)[n + 1][g[n]]
  <2>1. \A i \in 1..(n + 1) : g[i] = TreeSteps(more)[i][g[i - 1]]
    BY <1>5 DEF Computed
  <2> QED BY <1>8, <2>1
<1>11. TreeSteps(more)[n + 1][f[n]] = ApplyToTree(f[n], e)
  BY <1>3, <1>8, <1>9 DEF TreeSteps
<1> QED BY <1>1, <1>4, <1>5, <1>9, <1>10, <1>11

-----------------------------------------------------------------------------
(* The log of the group.                                                   *)

LogSound ==
    /\ log \in Seq(GroupEvent) /\ head \in Nat
    /\ \A i \in DOMAIN log : log[i].block <= head
    /\ \A i, j \in DOMAIN log : i <= j => log[i].block <= log[j].block

(* A step of the chain: nothing, or a block of events at the end.          *)
Mined ==
    \E events \in Seq(GroupEvent) :
        /\ head' = head + 1 /\ log' = log \o events
        /\ \A i \in DOMAIN events : events[i].block = head + 1

ChainStep == UNCHANGED <<log, head>> \/ Mined

LEMMA LogFacts ==
    ASSUME LogSound
    PROVE  /\ log \in Seq(GroupEvent) /\ DOMAIN log = 1..Len(log) /\ Len(log) \in Nat /\ head \in Nat
           /\ \A i \in DOMAIN log : log[i].block \in Nat /\ log[i].block <= head
           /\ \A i, j \in DOMAIN log : i <= j => log[i].block <= log[j].block
<1>1. log \in Seq(GroupEvent) /\ DOMAIN log = 1..Len(log) /\ Len(log) \in Nat
  BY DEF LogSound
<1>2. \A i \in DOMAIN log : log[i] \in GroupEvent
  BY <1>1, ElementOfSeq
<1>3. \A i \in DOMAIN log : log[i].block \in Nat
  BY <1>2 DEF GroupEvent
<1> QED BY <1>1, <1>3 DEF LogSound

LEMMA LogStep ==
    ASSUME LogSound, ChainStep
    PROVE  /\ LogSound' /\ head <= head'
           /\ \A n \in DOMAIN log : n \in DOMAIN log' /\ log'[n] = log[n]
           /\ \A n \in DOMAIN log' : n > Len(log) => log'[n].block = head' /\ head' = head + 1
           /\ \A n \in 1..Len(log) : n \in 1..Len(log') /\ SubSeq(log', 1, n) = SubSeq(log, 1, n)
<1>0. log \in Seq(GroupEvent) /\ head \in Nat /\ DOMAIN log = 1..Len(log) /\ Len(log) \in Nat
  BY LogFacts
<1>1. CASE UNCHANGED <<log, head>>
  BY <1>0, <1>1 DEF LogSound
<1>2. CASE Mined
  <2> PICK events \in Seq(GroupEvent) :
          /\ head' = head + 1 /\ log' = log \o events
          /\ \A i \in DOMAIN events : events[i].block = head + 1
    BY <1>2 DEF Mined
  <2>1. /\ log' \in Seq(GroupEvent) /\ Len(log') = Len(log) + Len(events)
        /\ \A i \in 1..Len(log') : log'[i] = IF i <= Len(log) THEN log[i] ELSE events[i - Len(log)]
    BY <1>0, ConcatProperties
  <2>2. DOMAIN log' = 1..Len(log') /\ DOMAIN events = 1..Len(events) /\ Len(events) \in Nat
    BY <2>1
  <2>3. \A n \in DOMAIN log : n \in DOMAIN log' /\ log'[n] = log[n]
    BY <1>0, <2>1, <2>2
  <2>4. \A n \in DOMAIN log' : n > Len(log) => log'[n].block = head' /\ head' = head + 1
    <3> SUFFICES ASSUME NEW n \in DOMAIN log', n > Len(log)
                 PROVE  log'[n].block = head'
      OBVIOUS
    <3>1. n - Len(log) \in DOMAIN events /\ log'[n] = events[n - Len(log)]
      BY <1>0, <2>1, <2>2
    <3> QED BY <3>1
  <2>5. \A n \in 1..Len(log) : n \in 1..Len(log') /\ SubSeq(log', 1, n) = SubSeq(log, 1, n)
    <3> SUFFICES ASSUME NEW n \in 1..Len(log)
                 PROVE  n \in 1..Len(log') /\ SubSeq(log', 1, n) = SubSeq(log, 1, n)
      OBVIOUS
    <3>1. n \in 1..Len(log')
      BY <1>0, <2>1, <2>2
    <3>2. SubSeq(log \o events, 1, n) = SubSeq(log, 1, n)
      BY <1>0, SubSeqOfConcat1
    <3> QED BY <3>1, <3>2
  <2>6. \A i \in DOMAIN log' : log'[i].block <= head'
    <3> SUFFICES ASSUME NEW i \in DOMAIN log'
                 PROVE  log'[i].block <= head'
      OBVIOUS
    <3>1. CASE i \in DOMAIN log
      <4>1. log[i].block <= head /\ log[i].block \in Nat
        BY <3>1, LogFacts
      <4>2. log'[i].block = log[i].block
        BY <2>3, <3>1
      <4> QED BY <1>0, <4>1, <4>2
    <3>2. CASE i \notin DOMAIN log
      BY <1>0, <2>2, <2>4, <3>2
    <3> QED BY <3>1, <3>2
  <2>7. \A i, j \in DOMAIN log' : i <= j => log'[i].block <= log'[j].block
    <3> SUFFICES ASSUME NEW i \in DOMAIN log', NEW j \in DOMAIN log', i <= j
                 PROVE  log'[i].block <= log'[j].block
      OBVIOUS
    <3>1. CASE j \in DOMAIN log
      <4>1. i \in DOMAIN log
        BY <1>0, <2>2, <3>1
      <4> QED BY <2>3, <3>1, <4>1 DEF LogSound
    <3>2. CASE j \notin DOMAIN log
      <4>1. log'[j].block = head'
        BY <1>0, <2>2, <2>4, <3>2
      <4> QED BY <2>6, <4>1
    <3> QED BY <3>1, <3>2
  <2>8. head' \in Nat /\ head <= head'
    BY <1>0
  <2> QED BY <2>1, <2>3, <2>4, <2>5, <2>6, <2>7, <2>8 DEF LogSound
<1> QED BY <1>1, <1>2 DEF ChainStep

(* A root the contract accepts was that of the group after some event, the *)
(* next of which is at most a window ago.                                  *)
LEMMA AcceptedWas ==
    ASSUME LogSound, NEW tree, RootAccepted(tree)
    PROVE  \E n \in 1..Len(log) : /\ tree = Tree(SubSeq(log, 1, n))
                                  /\ n < Len(log) => log[n + 1].block + RootWindow >= head
<1>0. log \in Seq(GroupEvent) /\ head \in Nat /\ DOMAIN log = 1..Len(log) /\ Len(log) \in Nat
  BY LogFacts
<1>1. CASE tree = OnChain /\ tree # <<>>
  <2>1. log # <<>>
    BY <1>1, EmptyTree DEF OnChain
  <2>2. Len(log) \in 1..Len(log)
    BY <1>0, <2>1, EmptySeq
  <2>3. SubSeq(log, 1, Len(log)) = log
    BY <1>0, SubSeqFull
  <2>4. tree = Tree(SubSeq(log, 1, Len(log)))
    BY <1>1, <2>3 DEF OnChain
  <2> DEFINE n == Len(log)
  <2>5. n \in 1..Len(log) /\ tree = Tree(SubSeq(log, 1, n)) /\ ~(n < Len(log))
    BY <1>0, <2>2, <2>4
  <2> HIDE DEF n
  <2> QED BY <2>5
<1>2. CASE \E n \in 1..Len(log) : /\ tree = Tree(SubSeq(log, 1, n))
                                  /\ log[n].block + RootWindow >= head
  <2> PICK n \in 1..Len(log) : tree = Tree(SubSeq(log, 1, n)) /\ log[n].block + RootWindow >= head
    BY <1>2
  <2>1. ASSUME n < Len(log)
        PROVE  log[n + 1].block + RootWindow >= head
    <3>1. n \in DOMAIN log /\ n + 1 \in DOMAIN log /\ n <= n + 1
      BY <1>0, <2>1
    <3>2. log[n].block <= log[n + 1].block /\ log[n].block \in Nat /\ log[n + 1].block \in Nat
      BY <3>1, LogFacts
    <3>3. RootWindow \in Nat /\ log[n].block + RootWindow >= head
      BY GroupMembersAssumption
    <3> DEFINE earlier == log[n].block
               later == log[n + 1].block
    <3>4. earlier \in Nat /\ later \in Nat /\ earlier <= later /\ earlier + RootWindow >= head
      BY <3>2, <3>3
    <3> HIDE DEF earlier, later
    <3>5. later + RootWindow >= head
      BY <1>0, <3>3, <3>4
    <3> QED BY <3>5 DEF later
  <2> QED BY <2>1
<1> QED BY <1>1, <1>2 DEF RootAccepted

-----------------------------------------------------------------------------
(* The SDK: a proof is made for a member of the tree it is made over.      *)

SdkSound ==
    /\ {"as", "pc", "result"} \subseteq DOMAIN sdk
    /\ sdk.pc \in {"proved", "verified"} => sdk.as \in ToSet(sdk.result)
    /\ GateOpensForMembers

LEMMA SdkStep ==
    ASSUME LogSound, ChainStep, SdkSound,
           \/ UNCHANGED sdk
           \/ /\ {"as", "pc", "result"} \subseteq DOMAIN sdk'
              /\ \/ sdk'.pc \notin {"proved", "verified"}
                 \/ sdk'.pc = "proved" /\ sdk'.as \in ToSet(sdk'.result)
           \/ /\ {"as", "pc", "result"} \subseteq DOMAIN sdk'
              /\ sdk.pc = "proved" /\ RootAccepted(sdk.result)
              /\ sdk'.as = sdk.as /\ sdk'.result = sdk.result /\ sdk'.pc = "verified"
    PROVE  SdkSound'
<1>1. \A n \in 1..Len(log) : n \in 1..Len(log') /\ SubSeq(log', 1, n) = SubSeq(log, 1, n)
  BY LogStep
<1>2. CASE UNCHANGED sdk
  <2>1. GateOpensForMembers'
    BY <1>1, <1>2 DEF SdkSound, GateOpensForMembers
  <2> QED BY <1>2, <2>1 DEF SdkSound
<1>3. CASE /\ {"as", "pc", "result"} \subseteq DOMAIN sdk'
           /\ \/ sdk'.pc \notin {"proved", "verified"}
              \/ sdk'.pc = "proved" /\ sdk'.as \in ToSet(sdk'.result)
  BY <1>3 DEF SdkSound, GateOpensForMembers
<1>4. CASE /\ {"as", "pc", "result"} \subseteq DOMAIN sdk'
           /\ sdk.pc = "proved" /\ RootAccepted(sdk.result)
           /\ sdk'.as = sdk.as /\ sdk'.result = sdk.result /\ sdk'.pc = "verified"
  <2>1. sdk.as \in ToSet(sdk.result)
    BY <1>4 DEF SdkSound
  <2>2. PICK n \in 1..Len(log) : sdk.result = Tree(SubSeq(log, 1, n))
    BY <1>4, AcceptedWas
  <2>3. n \in 1..Len(log') /\ sdk'.result = Tree(SubSeq(log', 1, n))
    BY <1>1, <1>4, <2>2
  <2>4. sdk'.as \in ToSet(sdk'.result)
    BY <1>4, <2>1
  <2>5. GateOpensForMembers'
    BY <2>3, <2>4 DEF GateOpensForMembers
  <2> QED BY <1>4, <2>4, <2>5 DEF SdkSound
<1> QED BY <1>2, <1>3, <1>4

(* The calls of the SDK.                                                   *)
LEMMA SdkKeeps ==
    ASSUME LogSound, SdkSound, UNCHANGED <<log, head>>,
           \/ \E call, c : StartCall(call, c)
           \/ \E kind \in {Issued, Revoked} : ReadLatest(kind)
           \/ ListMembers \/ GenerateProof \/ CallFails \/ GateVerifies
    PROVE  SdkSound'
<1>1. ChainStep
  BY DEF ChainStep
<1>2. {"as", "pc", "result"} \subseteq DOMAIN sdk
  BY DEF SdkSound
<1>3. CASE \E call, c : StartCall(call, c)
  <2> PICK call, c : StartCall(call, c)
    BY <1>3
  <2>1. {"as", "pc", "result"} \subseteq DOMAIN sdk' /\ sdk'.pc = "scan"
    BY DEF StartCall, NoCall
  <2> QED BY <1>1, <2>1, SdkStep
<1>4. CASE \E kind \in {Issued, Revoked} : ReadLatest(kind)
  <2> PICK kind \in {Issued, Revoked} : ReadLatest(kind)
    BY <1>4
  <2>1. {"as", "pc", "result"} \subseteq DOMAIN sdk' /\ sdk'.pc = "scan"
    BY <1>2 DEF ReadLatest
  <2> QED BY <1>1, <2>1, SdkStep
<1>5. CASE ListMembers
  <2>1. {"as", "pc", "result"} \subseteq DOMAIN sdk' /\ sdk'.pc = "listed"
    BY <1>2, <1>5 DEF ListMembers
  <2> QED BY <1>1, <2>1, SdkStep
<1>6. CASE GenerateProof
  <2> PICK tree : sdk' = [sdk EXCEPT !.pc = IF sdk.as \notin ToSet(tree) THEN "failed" ELSE "proved",
                                     !.result = tree]
    BY <1>6 DEF GenerateProof
  <2>1. /\ {"as", "pc", "result"} \subseteq DOMAIN sdk'
        /\ sdk'.as = sdk.as /\ sdk'.result = tree
        /\ sdk'.pc = IF sdk.as \notin ToSet(tree) THEN "failed" ELSE "proved"
    BY <1>2
  <2>2. CASE sdk.as \in ToSet(tree)
    BY <1>1, <2>1, <2>2, SdkStep
  <2>3. CASE sdk.as \notin ToSet(tree)
    <3>1. sdk'.pc \notin {"proved", "verified"}
      BY <2>1, <2>3
    <3> QED BY <1>1, <2>1, <3>1, SdkStep
  <2> QED BY <2>2, <2>3
<1>7. CASE CallFails
  <2>1. {"as", "pc", "result"} \subseteq DOMAIN sdk' /\ sdk'.pc = "failed"
    BY <1>2, <1>7 DEF CallFails
  <2> QED BY <1>1, <2>1, SdkStep
<1>8. CASE GateVerifies
  <2>1. /\ {"as", "pc", "result"} \subseteq DOMAIN sdk'
        /\ sdk.pc = "proved" /\ sdk'.as = sdk.as /\ sdk'.result = sdk.result
        /\ sdk'.pc = IF RootAccepted(sdk.result) THEN "verified" ELSE "failed"
    BY <1>2, <1>8 DEF GateVerifies
  <2>2. CASE RootAccepted(sdk.result)
    BY <1>1, <2>1, <2>2, SdkStep
  <2>3. CASE ~RootAccepted(sdk.result)
    <3>1. sdk'.pc \notin {"proved", "verified"}
      BY <2>1, <2>3
    <3> QED BY <1>1, <2>1, <3>1, SdkStep
  <2> QED BY <2>2, <2>3
<1> QED BY <1>3, <1>4, <1>5, <1>6, <1>7, <1>8

-----------------------------------------------------------------------------
(* The airdrop.                                                            *)

ClaimsSound ==
    /\ currentRound \in Nat
    /\ AirdropBacked
    /\ \A k \in claims : k.at \in Nat /\ k.at <= head

(* What the group was at a claim it stays, and the events since came in a  *)
(* later block.                                                            *)
LEMMA ClaimsKept ==
    ASSUME LogSound, ChainStep, ClaimsSound, UNCHANGED claims, currentRound' \in Nat
    PROVE  ClaimsSound'
<1>1. /\ head <= head' /\ LogSound'
      /\ \A n \in DOMAIN log : n \in DOMAIN log' /\ log'[n] = log[n]
      /\ \A n \in DOMAIN log' : n > Len(log) => log'[n].block = head' /\ head' = head + 1
      /\ \A n \in 1..Len(log) : n \in 1..Len(log') /\ SubSeq(log', 1, n) = SubSeq(log, 1, n)
  BY LogStep
<1>2. /\ head \in Nat /\ DOMAIN log = 1..Len(log) /\ Len(log) \in Nat
      /\ head' \in Nat /\ DOMAIN log' = 1..Len(log') /\ Len(log') \in Nat
  <2>1. LogSound' => head' \in Nat /\ DOMAIN log' = 1..Len(log') /\ Len(log') \in Nat
    BY DEF LogSound
  <2> QED BY <1>1, <2>1, LogFacts
<1>3. \A k \in claims : k.at \in Nat /\ k.at <= head'
  BY <1>1, <1>2 DEF ClaimsSound
<1>4. ASSUME NEW k \in claims
      PROVE  /\ k.nullifier.scope = k.round
             /\ \E n \in 1..Len(log') :
                    /\ k.nullifier.of \in ToSet(Tree(SubSeq(log', 1, n)))
                    /\ n < Len(log') => log'[n + 1].block + RootWindow >= k.at
  <2>1. PICK n \in 1..Len(log) :
            /\ k.nullifier.of \in ToSet(Tree(SubSeq(log, 1, n)))
            /\ n < Len(log) => log[n + 1].block + RootWindow >= k.at
    BY DEF ClaimsSound, AirdropBacked
  <2>2. n \in 1..Len(log') /\ k.nullifier.of \in ToSet(Tree(SubSeq(log', 1, n)))
    BY <1>1, <2>1
  <2>3. ASSUME n < Len(log')
        PROVE  log'[n + 1].block + RootWindow >= k.at
    <3>1. CASE n < Len(log)
      <4>1. n + 1 \in DOMAIN log
        BY <1>2, <3>1
      <4>2. log'[n + 1] = log[n + 1]
        BY <1>1, <4>1
      <4> QED BY <2>1, <3>1, <4>2
    <3>2. CASE ~(n < Len(log))
      <4>1. n + 1 \in DOMAIN log' /\ n + 1 > Len(log)
        BY <1>2, <2>3, <3>2
      <4>2. log'[n + 1].block = head'
        BY <1>1, <4>1
      <4> QED BY <1>2, <1>3, <4>2, GroupMembersAssumption
    <3> QED BY <3>1, <3>2
  <2>4. k.nullifier.scope = k.round
    BY DEF ClaimsSound, AirdropBacked
  <2> QED BY <2>2, <2>3, <2>4
<1>5. \A j, k \in claims : j.round = k.round /\ j.nullifier = k.nullifier => j = k
  BY DEF ClaimsSound, AirdropBacked
<1>6. AirdropBacked'
  BY <1>4, <1>5 DEF AirdropBacked
<1> QED BY <1>3, <1>6 DEF ClaimsSound

LEMMA CliClaimsKeeps ==
    ASSUME LogSound, SdkSound, ClaimsSound, CliClaims
    PROVE  ClaimsSound'
<1> DEFINE claim == [round |-> currentRound, nullifier |-> Nullifier(cli.round, sdk.as),
                     tree |-> sdk.result, at |-> head]
<1>1. /\ claims' = claims \cup {claim} /\ UNCHANGED <<log, head, currentRound>>
      /\ cli.round = currentRound /\ ~ClaimedInRound(currentRound, sdk.as)
      /\ RootAccepted(sdk.result) /\ sdk.pc = "proved"
  BY DEF CliClaims, AirdropAccepts
<1>2. /\ claim.round = currentRound /\ claim.nullifier = Nullifier(currentRound, sdk.as)
      /\ claim.at = head /\ claim.nullifier.scope = claim.round /\ claim.nullifier.of = sdk.as
  BY <1>1 DEF Nullifier
<1> HIDE DEF claim
<1>3. head \in Nat
  BY LogFacts
<1>4. PICK n \in 1..Len(log) : /\ sdk.result = Tree(SubSeq(log, 1, n))
                               /\ n < Len(log) => log[n + 1].block + RootWindow >= head
  BY <1>1, AcceptedWas
<1>5. claim.nullifier.of \in ToSet(Tree(SubSeq(log, 1, n)))
  BY <1>1, <1>2, <1>4 DEF SdkSound
<1>6. \A k \in claims : ~(k.round = claim.round /\ k.nullifier = claim.nullifier)
  BY <1>1, <1>2 DEF ClaimedInRound
<1>7. \A j, k \in claims' : j.round = k.round /\ j.nullifier = k.nullifier => j = k
  BY <1>1, <1>6 DEF ClaimsSound, AirdropBacked
<1>8. ASSUME NEW k \in claims'
      PROVE  /\ k.nullifier.scope = k.round
             /\ \E m \in 1..Len(log) :
                    /\ k.nullifier.of \in ToSet(Tree(SubSeq(log, 1, m)))
                    /\ m < Len(log) => log[m + 1].block + RootWindow >= k.at
  <2>1. CASE k \in claims
    BY <2>1 DEF ClaimsSound, AirdropBacked
  <2>2. CASE k = claim
    BY <1>2, <1>4, <1>5, <2>2
  <2> QED BY <1>1, <2>1, <2>2
<1>9. AirdropBacked'
  BY <1>1, <1>7, <1>8 DEF AirdropBacked
<1>10. \A k \in claims' : k.at \in Nat /\ k.at <= head'
  BY <1>1, <1>2, <1>3 DEF ClaimsSound
<1> QED BY <1>1, <1>9, <1>10 DEF ClaimsSound

-----------------------------------------------------------------------------
(* The browser and the example program: whom they ask credentials for.     *)

StoreSound ==
    /\ identities \in [Wallets -> Commitments \cup {NoIdentity}]
    /\ activeWallet \in Wallets \cup {NoWallet}
    /\ legacy \in [identity : Commitments \cup {NoIdentity}, wallet : Wallets \cup {NoWallet}]

PageSound ==
    /\ {"identity", "step", "pc", "wallet"} \subseteq DOMAIN page
    /\ page.step # 0 => page.identity \in Commitments
    /\ page.pc # "idle" => page.step # 0
    /\ page.pc = "issuing" => page.wallet \in Wallets

CliSound ==
    /\ cli \in [pc : {"idle", "issuing", "issued", "proving"}, wallet : Wallets \cup {NoWallet}, round : Nat]
    /\ cli.pc # "idle" => cli.wallet \in Wallets

ClientsSound ==
    /\ StoreSound /\ PageSound /\ CliSound
    /\ submitted \subseteq [wallet : Wallets, of : Commitments]

LEMMA MigratedSound ==
    ASSUME StoreSound
    PROVE  /\ Migrated \in [Wallets -> Commitments \cup {NoIdentity}]
           /\ Loaded \in Commitments \cup {NoIdentity}
<1>1. Migrated \in [Wallets -> Commitments \cup {NoIdentity}]
  BY DEF StoreSound, Migrated
<1>2. CASE activeWallet = NoWallet
  BY <1>1, <1>2 DEF Loaded, StoredFor
<1>3. CASE activeWallet # NoWallet
  <2>1. activeWallet \in Wallets
    BY <1>3 DEF StoreSound
  <2> QED BY <1>1, <1>3, <2>1 DEF Loaded, StoredFor
<1> QED BY <1>1, <1>2, <1>3

LEMMA NoLegacySound ==
    NoLegacy \in [identity : Commitments \cup {NoIdentity}, wallet : Wallets \cup {NoWallet}]
BY DEF NoLegacy

(* An event of a known commitment, in a block of its own.                  *)
LEMMA MinedAlone ==
    ASSUME LogSound, NEW kind \in {Issued, Revoked}, NEW c \in Commitments,
           MineBlock(<<[kind |-> kind, commitment |-> c, block |-> head + 1]>>)
    PROVE  ChainStep
<1> DEFINE e == [kind |-> kind, commitment |-> c, block |-> head + 1]
<1>1. head \in Nat
  BY LogFacts
<1>2. e \in GroupEvent /\ e.block = head + 1
  BY <1>1 DEF GroupEvent
<1>3. head' = head + 1 /\ log' = log \o <<e>>
  BY DEF MineBlock
<1> HIDE DEF e
<1>4. <<e>> \in Seq(GroupEvent) /\ \A i \in DOMAIN <<e>> : <<e>>[i].block = head + 1
  BY <1>2
<1>5. Mined
  BY <1>3, <1>4 DEF Mined
<1> QED BY <1>5 DEF ChainStep

LEMMA SelfIssueMines ==
    ASSUME LogSound, NEW w, NEW c \in Commitments, SelfIssue(w, c)
    PROVE  ChainStep /\ UNCHANGED sdk
<1>1. MineBlock(<<[kind |-> Issued, commitment |-> c, block |-> head + 1]>>)
  BY DEF SelfIssue
<1>2. Issued \in {Issued, Revoked}
  OBVIOUS
<1>3. ChainStep
  BY <1>1, <1>2, MinedAlone
<1> QED BY <1>1, <1>3 DEF MineBlock

LEMMA TransactionIsEvent ==
    ASSUME LogSound, NEW c \in Traded, NEW leaves
    PROVE  /\ Transaction(c, head + 1, leaves) \in GroupEvent
           /\ Transaction(c, head + 1, leaves).block = head + 1
<1>1. head + 1 \in Nat
  BY LogFacts
<1> QED BY <1>1, DemoClientsAssumption DEF Transaction, GroupEvent

LEMMA TransactionsMine ==
    ASSUME LogSound, OneTransaction \/ TwoTransactions
    PROVE  ChainStep /\ UNCHANGED sdk
<1>1. CASE OneTransaction
  <2> PICK c \in Traded : MineBlock(<<Transaction(c, head + 1, OnChain)>>)
    BY <1>1 DEF OneTransaction
  <2> DEFINE e == Transaction(c, head + 1, OnChain)
  <2>1. e \in GroupEvent /\ e.block = head + 1
    BY TransactionIsEvent
  <2>2. head' = head + 1 /\ log' = log \o <<e>> /\ UNCHANGED sdk
    BY DEF MineBlock
  <2> HIDE DEF e
  <2>3. <<e>> \in Seq(GroupEvent) /\ \A i \in DOMAIN <<e>> : <<e>>[i].block = head + 1
    BY <2>1
  <2> QED BY <2>2, <2>3 DEF Mined, ChainStep
<1>2. CASE TwoTransactions
  <2> PICK c \in Traded, d \in Traded :
          MineBlock(<<Transaction(c, head + 1, OnChain),
                      Transaction(d, head + 1, ApplyToTree(OnChain, Transaction(c, head + 1, OnChain)))>>)
    BY <1>2 DEF TwoTransactions
  <2> DEFINE e == Transaction(c, head + 1, OnChain)
             f == Transaction(d, head + 1, ApplyToTree(OnChain, Transaction(c, head + 1, OnChain)))
  <2>1. e \in GroupEvent /\ e.block = head + 1 /\ f \in GroupEvent /\ f.block = head + 1
    BY TransactionIsEvent
  <2>2. head' = head + 1 /\ log' = log \o <<e, f>> /\ UNCHANGED sdk
    BY DEF MineBlock
  <2> HIDE DEF e, f
  <2>3. <<e, f>> \in Seq(GroupEvent) /\ \A i \in DOMAIN <<e, f>> : <<e, f>>[i].block = head + 1
    BY <2>1
  <2> QED BY <2>2, <2>3 DEF Mined, ChainStep
<1> QED BY <1>1, <1>2

-----------------------------------------------------------------------------
DemoIInv == LogSound /\ SdkSound /\ ClaimsSound /\ ClientsSound

LEMMA DemoInitSound == ASSUME DemoInit PROVE DemoIInv
<1>1. LogSound
  BY DEF DemoInit, LogSound
<1>2. SdkSound
  BY DEF DemoInit, SdkSound, NoCall, GateOpensForMembers
<1>3. ClaimsSound
  BY DEF DemoInit, ClaimsSound, AirdropBacked
<1>4. StoreSound
  <2>1. identities \in [Wallets -> Commitments \cup {NoIdentity}] /\ activeWallet \in Wallets \cup {NoWallet}
    BY DEF DemoInit, StoreInit
  <2>2. CASE legacy = NoLegacy
    BY <2>1, <2>2, NoLegacySound DEF StoreSound
  <2>3. CASE \E w \in LegacyWallets, tag \in LegacyWallets \cup {NoWallet} :
                 legacy = [identity |-> IdentityOf[w], wallet |-> tag]
    <3> PICK w \in LegacyWallets, tag \in LegacyWallets \cup {NoWallet} :
                 legacy = [identity |-> IdentityOf[w], wallet |-> tag]
      BY <2>3
    <3>1. IdentityOf[w] \in Commitments /\ tag \in Wallets \cup {NoWallet}
      BY IdentityStoreAssumption, DemoClientsAssumption
    <3> QED BY <2>1, <3>1 DEF StoreSound
  <2> QED BY <2>2, <2>3 DEF DemoInit, StoreInit
<1>5. PageSound
  BY DEF DemoInit, FreshPage, PageSound
<1>6. CliSound
  BY DEF DemoInit, CliIdle, CliSound
<1>7. submitted \subseteq [wallet : Wallets, of : Commitments]
  BY DEF DemoInit
<1> QED BY <1>1, <1>2, <1>3, <1>4, <1>5, <1>6, <1>7 DEF DemoIInv, ClientsSound

(* A step that leaves the clients alone.                                   *)
GroupStep ==
    \/ OneTransaction \/ TwoTransactions
    \/ StartPass \/ SyncRange \/ StoreNext \/ NextChunk \/ EndPass \/ FailPass \/ Crash
    \/ \E call, c : StartCall(call, c)
    \/ \E kind \in {Issued, Revoked} : ReadLatest(kind)
    \/ ListMembers \/ GenerateProof \/ CallFails \/ GateVerifies

LEMMA GroupKeeps ==
    ASSUME DemoIInv, GroupStep, UNCHANGED clientVars
    PROVE  DemoIInv'
<1>1. ClientsSound'
  BY DEF DemoIInv, ClientsSound, StoreSound, PageSound, CliSound, clientVars
<1>2. ChainStep /\ SdkSound'
  <2>1. CASE OneTransaction \/ TwoTransactions
    BY <2>1, TransactionsMine, SdkStep DEF DemoIInv
  <2>2. CASE StartPass \/ SyncRange \/ StoreNext \/ NextChunk \/ EndPass \/ FailPass \/ Crash
    <3>1. UNCHANGED <<log, head>> /\ UNCHANGED sdk
      BY <2>2 DEF StartPass, SyncRange, StoreNext, NextChunk, EndPass, FailPass, Crash
    <3>2. ChainStep
      BY <3>1 DEF ChainStep
    <3> QED BY <3>1, <3>2, SdkStep DEF DemoIInv
  <2>3. CASE \/ \E call, c : StartCall(call, c)
             \/ \E kind \in {Issued, Revoked} : ReadLatest(kind)
             \/ ListMembers \/ GenerateProof \/ CallFails \/ GateVerifies
    <3>1. UNCHANGED <<log, head>>
      BY <2>3 DEF StartCall, ReadLatest, ListMembers, GenerateProof, CallFails, GateVerifies
    <3>2. SdkSound'
      BY <2>3, <3>1, SdkKeeps DEF DemoIInv
    <3> QED BY <3>1, <3>2 DEF ChainStep
  <2> QED BY <2>1, <2>2, <2>3 DEF GroupStep
<1>3. LogSound'
  BY <1>2, LogStep DEF DemoIInv
<1>4. UNCHANGED claims /\ currentRound' \in Nat
  BY DEF DemoIInv, ClaimsSound, clientVars
<1>5. ClaimsSound'
  BY <1>2, <1>4, ClaimsKept DEF DemoIInv
<1> QED BY <1>1, <1>2, <1>3, <1>5 DEF DemoIInv

(* A step that claims nothing and leaves the SDK alone.                    *)
LEMMA ClientStep ==
    ASSUME DemoIInv, ChainStep, UNCHANGED <<sdk, claims>>, currentRound' \in Nat, ClientsSound'
    PROVE  DemoIInv'
<1>1. LogSound'
  BY LogStep DEF DemoIInv
<1>2. SdkSound'
  BY SdkStep DEF DemoIInv
<1>3. ClaimsSound'
  BY ClaimsKept DEF DemoIInv
<1> QED BY <1>1, <1>2, <1>3 DEF DemoIInv

LEMMA ProveOverSound ==
    ASSUME PageSound, page.step # 0, NEW members, NEW w, page' = ProveOver(members, w)
    PROVE  PageSound'
<1>0. {"identity", "step", "pc", "wallet"} \subseteq DOMAIN page /\ page.identity \in Commitments
  BY DEF PageSound
<1>1. CASE page.identity \notin ToSet(members)
  <2>1. page' = [page EXCEPT !.pc = "idle", !.seen = 0]
    BY <1>1 DEF ProveOver
  <2> QED BY <1>0, <2>1 DEF PageSound
<1>2. CASE page.identity \in ToSet(members)
  <2>1. PICK proof : page' = [page EXCEPT !.pc = "proving", !.wallet = w, !.seen = 0, !.proof = proof]
    BY <1>2 DEF ProveOver
  <2> QED BY <1>0, <2>1 DEF PageSound
<1> QED BY <1>1, <1>2

LEMMA PageKeeps ==
    ASSUME DemoIInv, PageNext
    PROVE  DemoIInv'
<1> USE DEF UnchangedChain, UnchangedStore, UnchangedContracts
<1>0. /\ LogSound /\ StoreSound /\ PageSound /\ CliSound /\ currentRound \in Nat
      /\ submitted \subseteq [wallet : Wallets, of : Commitments]
      /\ {"identity", "step", "pc", "wallet"} \subseteq DOMAIN page
  BY DEF DemoIInv, ClientsSound, ClaimsSound, PageSound
<1>1. CASE Mount
  <2>1. UNCHANGED <<log, head, sdk, claims, currentRound, cli>> /\ identities' = Migrated
        /\ legacy' = NoLegacy /\ activeWallet' = activeWallet
    BY <1>1 DEF Mount, LoadIdentity
  <2>2. StoreSound'
    BY <1>0, <2>1, MigratedSound, NoLegacySound DEF StoreSound
  <2>3. PageSound'
    <3>1. CASE Loaded = NoIdentity
      BY <1>1, <3>1 DEF Mount, FreshPage, PageSound
    <3>2. CASE Loaded # NoIdentity
      <4>1. Loaded \in Commitments
        BY <1>0, <3>2, MigratedSound
      <4>2. page' = [FreshPage EXCEPT !.identity = Loaded, !.step = 1]
        BY <1>1, <3>2 DEF Mount
      <4> QED BY <4>1, <4>2 DEF FreshPage, PageSound
    <3> QED BY <3>1, <3>2
  <2>4. submitted' \subseteq [wallet : Wallets, of : Commitments]
    BY <1>0, <1>1 DEF Mount, PageSound
  <2> QED BY <1>0, <2>1, <2>2, <2>3, <2>4, ClientStep DEF ClientsSound, CliSound, ChainStep
<1>2. CASE \E w \in Wallets : HandleConnect(w)
  <2> PICK w \in Wallets : HandleConnect(w)
    BY <1>2
  <2>1. /\ UNCHANGED <<log, head, sdk, claims, currentRound, cli, submitted>>
        /\ identities' = [Migrated EXCEPT ![w] = IdentityOf[w]]
        /\ legacy' = NoLegacy /\ activeWallet' = w
        /\ page.step = 0 /\ page' = [page EXCEPT !.identity = IdentityOf[w], !.step = 1]
    BY DEF HandleConnect, CreateIdentity
  <2>2. IdentityOf[w] \in Commitments
    BY DemoClientsAssumption
  <2>3. StoreSound'
    BY <1>0, <2>1, <2>2, MigratedSound, NoLegacySound DEF StoreSound
  <2>4. PageSound'
    BY <1>0, <2>1, <2>2 DEF PageSound
  <2> QED BY <1>0, <2>1, <2>3, <2>4, ClientStep DEF ClientsSound, CliSound, ChainStep
<1>3. CASE PageIssues
  <2>1. SelfIssue(page.wallet, page.identity) /\ page.identity \in Commitments
    BY <1>0, <1>3 DEF PageIssues, PageSound
  <2>2. ChainStep /\ UNCHANGED sdk
    BY <1>0, <2>1, SelfIssueMines
  <2>3. /\ UNCHANGED <<claims, currentRound, cli, submitted, identities, activeWallet, legacy>>
        /\ page' = [page EXCEPT !.pc = "idle", !.wallet = NoWallet, !.step = 2]
    BY <1>3 DEF PageIssues
  <2>4. PageSound'
    BY <1>0, <2>1, <2>3 DEF PageSound
  <2> QED BY <1>0, <2>2, <2>3, <2>4, ClientStep DEF ClientsSound, CliSound, StoreSound
<1>4. CASE \E tx \in submitted : SubmittedIsMined(tx)
  <2> PICK tx \in submitted : SubmittedIsMined(tx)
    BY <1>4
  <2>1. SelfIssue(tx.wallet, tx.of) /\ tx.of \in Commitments
    BY <1>0 DEF SubmittedIsMined
  <2>2. ChainStep /\ UNCHANGED sdk
    BY <1>0, <2>1, SelfIssueMines
  <2>3. /\ UNCHANGED <<page, claims, currentRound, cli, identities, activeWallet, legacy>>
        /\ submitted' \subseteq submitted
    BY DEF SubmittedIsMined
  <2> QED BY <1>0, <2>2, <2>3, ClientStep DEF ClientsSound, CliSound, StoreSound, PageSound
<1>5. CASE \/ IssueReverts \/ EndProof \/ ReadIssuedEvents
           \/ \E w \in Wallets : \/ HandleIssueCredential(w) \/ LoadFromIndexer(w)
                                 \/ ReadRevokedEvents(w) \/ HandleMint(w)
  <2>1. UNCHANGED <<log, head, sdk, claims, currentRound, cli, submitted,
                    identities, activeWallet, legacy>>
    BY <1>5 DEF IssueReverts, EndProof, ReadIssuedEvents, HandleIssueCredential, LoadFromIndexer,
                ReadRevokedEvents, HandleMint
  <2>2. PageSound'
    <3>1. CASE IssueReverts
      <4> PICK step \in {1, 2} :
              page' = [page EXCEPT !.pc = "idle", !.wallet = NoWallet, !.step = step]
        BY <3>1 DEF IssueReverts
      <4>1. page.step # 0
        BY <1>0, <3>1 DEF IssueReverts, PageSound
      <4> QED BY <1>0, <4>1 DEF PageSound
    <3>2. CASE EndProof
      <4>1. page.step # 0
        BY <1>0, <3>2 DEF EndProof, PageSound
      <4> QED BY <1>0, <3>2, <4>1 DEF EndProof, PageSound
    <3>3. CASE ReadIssuedEvents
      BY <1>0, <3>3 DEF ReadIssuedEvents, PageSound
    <3>4. CASE \E w \in Wallets : HandleIssueCredential(w)
      BY <1>0, <3>4 DEF HandleIssueCredential, PageSound
    <3>5. CASE \E w \in Wallets : LoadFromIndexer(w) \/ ReadRevokedEvents(w)
      <4>1. page.step # 0
        BY <1>0, <3>5 DEF LoadFromIndexer, ReadRevokedEvents, PageSound
      <4>2. PICK members, w : page' = ProveOver(members, w)
        BY <3>5 DEF LoadFromIndexer, ReadRevokedEvents
      <4> QED BY <1>0, <4>1, <4>2, ProveOverSound
    <3>6. CASE \E w \in Wallets : HandleMint(w)
      <4> PICK w \in Wallets : HandleMint(w)
        BY <3>6
      <4>1. /\ page.step = 3
            /\ \/ page' = [page EXCEPT !.step = 4, !.refused = "no"]
               \/ \E reason : page' = [page EXCEPT !.refused = reason]
        BY DEF HandleMint
      <4>2. CASE page' = [page EXCEPT !.step = 4, !.refused = "no"]
        BY <1>0, <4>1, <4>2 DEF PageSound
      <4>3. CASE \E reason : page' = [page EXCEPT !.refused = reason]
        BY <1>0, <4>1, <4>3 DEF PageSound
      <4> QED BY <4>1, <4>2, <4>3
    <3> QED BY <1>5, <3>1, <3>2, <3>3, <3>4, <3>5, <3>6
  <2> QED BY <1>0, <2>1, <2>2, ClientStep DEF ClientsSound, CliSound, StoreSound, ChainStep
<1> QED BY <1>1, <1>2, <1>3, <1>4, <1>5 DEF PageNext

LEMMA CliKeeps ==
    ASSUME DemoIInv, CliNext
    PROVE  DemoIInv'
<1> USE DEF UnchangedContracts, UnchangedStore
<1>0. /\ LogSound /\ SdkSound /\ StoreSound /\ PageSound /\ ClaimsSound /\ currentRound \in Nat
      /\ cli \in [pc : {"idle", "issuing", "issued", "proving"}, wallet : Wallets \cup {NoWallet},
                  round : Nat]
      /\ cli.pc # "idle" => cli.wallet \in Wallets
      /\ submitted \subseteq [wallet : Wallets, of : Commitments]
  BY DEF DemoIInv, ClientsSound, ClaimsSound, CliSound
<1>1. UNCHANGED <<page, submitted, identities, activeWallet, legacy, currentRound>>
  BY DEF CliNext, CliIssues, CliReadsRound, CliClaims, CliEnds, CliStart
<1>2. StoreSound' /\ PageSound' /\ submitted' \subseteq [wallet : Wallets, of : Commitments]
  BY <1>0, <1>1 DEF StoreSound, PageSound
<1>3. CASE CliIssues
  <2>1. SelfIssue(cli.wallet, CliIdentity[cli.wallet]) /\ CliIdentity[cli.wallet] \in Commitments
    BY <1>0, <1>3, DemoClientsAssumption DEF CliIssues
  <2>2. ChainStep /\ UNCHANGED sdk
    BY <1>0, <2>1, SelfIssueMines
  <2>3. UNCHANGED claims /\ cli' = [cli EXCEPT !.pc = "issued"] /\ cli.pc = "issuing"
    BY <1>3 DEF CliIssues
  <2>4. CliSound'
    BY <1>0, <2>3 DEF CliSound
  <2> QED BY <1>0, <1>1, <1>2, <2>2, <2>3, <2>4, ClientStep DEF ClientsSound
<1>4. CASE CliReadsRound \/ CliEnds \/ CliClaims \/ \E w \in Wallets : CliStart(w)
  <2>1. UNCHANGED <<log, head>>
    BY <1>4 DEF CliReadsRound, CliEnds, CliClaims, CliStart
  <2>2. ChainStep
    BY <2>1 DEF ChainStep
  <2>3. LogSound'
    BY <1>0, <2>2, LogStep
  <2>4. ClaimsSound'
    <3>1. CASE CliClaims
      BY <1>0, <3>1, CliClaimsKeeps
    <3>2. CASE CliReadsRound \/ CliEnds \/ \E w \in Wallets : CliStart(w)
      <4>1. UNCHANGED claims
        BY <3>2 DEF CliReadsRound, CliEnds, CliStart
      <4> QED BY <1>0, <1>1, <2>2, <4>1, ClaimsKept
    <3> QED BY <1>4, <3>1, <3>2
  <2>5. CliSound' /\ SdkSound'
    <3>1. CASE CliReadsRound
      <4>1. cli' = [cli EXCEPT !.pc = "proving", !.round = currentRound] /\ cli.pc = "issued"
        BY <3>1 DEF CliReadsRound
      <4>2. {"as", "pc", "result"} \subseteq DOMAIN sdk' /\ sdk'.pc = "scan"
        BY <3>1 DEF CliReadsRound, Prove, NoCall
      <4> QED BY <1>0, <2>2, <4>1, <4>2, SdkStep DEF CliSound
    <3>2. CASE CliEnds \/ CliClaims
      <4>1. cli' = CliIdle /\ sdk' = NoCall
        BY <3>2 DEF CliEnds, CliClaims
      <4>2. {"as", "pc", "result"} \subseteq DOMAIN sdk' /\ sdk'.pc = "ready"
        BY <4>1 DEF NoCall
      <4> QED BY <1>0, <2>2, <4>1, <4>2, SdkStep DEF CliSound, CliIdle
    <3>3. CASE \E w \in Wallets : CliStart(w)
      <4> PICK w \in Wallets : CliStart(w)
        BY <3>3
      <4>1. CliSound'
        BY <1>0 DEF CliStart, CliSound
      <4>2. \/ UNCHANGED sdk
            \/ {"as", "pc", "result"} \subseteq DOMAIN sdk' /\ sdk'.pc = "scan"
        BY DEF CliStart, Prove, NoCall
      <4> QED BY <1>0, <2>2, <4>1, <4>2, SdkStep
    <3> QED BY <1>4, <3>1, <3>2, <3>3
  <2> QED BY <1>2, <2>3, <2>4, <2>5 DEF DemoIInv, ClientsSound
<1> QED BY <1>3, <1>4 DEF CliNext

LEMMA RoundKeeps ==
    ASSUME DemoIInv, StartNewRound
    PROVE  DemoIInv'
<1>1. /\ UNCHANGED <<log, head, sdk, claims, page, submitted, cli, identities, activeWallet, legacy>>
      /\ currentRound' = currentRound + 1
  BY DEF StartNewRound, UnchangedChain, UnchangedStore
<1>2. currentRound' \in Nat
  BY <1>1 DEF DemoIInv, ClaimsSound
<1>3. ClientsSound'
  BY <1>1 DEF DemoIInv, ClientsSound, StoreSound, PageSound, CliSound
<1> QED BY <1>1, <1>2, <1>3, ClientStep DEF ChainStep

LEMMA DemoStep ==
    ASSUME DemoIInv, [DemoNext]_demoVars
    PROVE  DemoIInv'
<1>1. CASE DemoNext
  <2>1. \/ GroupStep /\ UNCHANGED clientVars
        \/ PageNext \/ CliNext \/ StartNewRound
    BY <1>1 DEF DemoNext, GroupStep
  <2> QED BY <2>1, GroupKeeps, PageKeeps, CliKeeps, RoundKeeps
<1>2. CASE UNCHANGED demoVars
  <2>1. /\ UNCHANGED <<log, head, sdk, claims, page, submitted, cli, identities, activeWallet, legacy>>
        /\ currentRound' = currentRound
    BY <1>2 DEF demoVars
  <2>2. currentRound' \in Nat
    BY <2>1 DEF DemoIInv, ClaimsSound
  <2>3. ClientsSound'
    BY <2>1 DEF DemoIInv, ClientsSound, StoreSound, PageSound, CliSound
  <2> QED BY <2>1, <2>2, <2>3, ClientStep DEF ChainStep
<1> QED BY <1>1, <1>2

(* The log of the group only grows, a proof is held only for a member of   *)
(* the tree it was made over, and the clients ask for known identities.    *)
THEOREM DemoInvariance == DemoSpec => []DemoIInv
<1>1. DemoInit => DemoIInv
  BY DemoInitSound
<1>2. DemoIInv /\ [DemoNext]_demoVars => DemoIInv'
  BY DemoStep
<1> QED BY <1>1, <1>2, PTL DEF DemoSpec

(* HSKPassportGate opens only for a tree the contract had, with the        *)
(* identity that proved in it, wherever blocks fell between its two scans. *)
THEOREM GateForMembersOnly == DemoSpec => []GateOpensForMembers
<1>1. DemoIInv => GateOpensForMembers
  BY DEF DemoIInv, SdkSound
<1> QED BY <1>1, DemoInvariance, PTL

(* KYCGatedAirdrop pays an identity once per round, and only one that was  *)
(* in the group at most a root window before.                              *)
THEOREM AirdropForMembersOnly == DemoSpec => []AirdropBacked
<1>1. DemoIInv => AirdropBacked
  BY DEF DemoIInv, ClaimsSound
<1> QED BY <1>1, DemoInvariance, PTL

-----------------------------------------------------------------------------
(* What a query finds.                                                     *)

FoundBy(f, kind, from, to) ==
    /\ f \in [0..Len(log) -> Seq(GroupEvent)] /\ f[0] = <<>>
    /\ \A i \in 1..Len(log) :
          f[i] = IF Matches(log[i], kind, from, to) THEN Append(f[i - 1], log[i]) ELSE f[i - 1]

LEMMA TheSame ==
    ASSUME NEW n \in Nat, NEW f, NEW g, g[0] = f[0], \A i \in 1..n : g[i - 1] = f[i - 1] => g[i] = f[i]
    PROVE  \A i \in 0..n : g[i] = f[i]
<1> DEFINE Same == {i \in 0..n : g[i] = f[i]}
<1>1. 0 \in Same
  OBVIOUS
<1>2. ASSUME NEW i \in 0..(n - 1), i \in Same PROVE i + 1 \in Same
  <2>1. i + 1 \in 1..n /\ i + 1 \in 0..n /\ (i + 1) - 1 = i
    OBVIOUS
  <2>2. g[(i + 1) - 1] = f[(i + 1) - 1] => g[i + 1] = f[i + 1]
    BY <2>1
  <2> QED BY <1>2, <2>1, <2>2
<1>3. \A i \in 0..n : i \in Same
  <2> HIDE DEF Same
  <2> QED BY <1>1, <1>2, UpTo
<1> QED BY <1>3

LEMMA QueryFound ==
    ASSUME LogSound, NEW kind, NEW from, NEW to
    PROVE  \E f : FoundBy(f, kind, from, to) /\ Query(kind, from, to) = f[Len(log)]
<1> DEFINE n == Len(log)
           t == CHOOSE f : f = [i \in 0..n |-> IF i = 0 THEN <<>>
                    ELSE IF Matches(log[i], kind, from, to) THEN Append(f[i - 1], log[i]) ELSE f[i - 1]]
           step == [i \in 1..n |-> [v \in Seq(GroupEvent) |->
                    IF Matches(log[i], kind, from, to) THEN Append(v, log[i]) ELSE v]]
<1>1. n \in Nat /\ \A i \in 1..n : log[i] \in GroupEvent
  <2>1. log \in Seq(GroupEvent)
    BY DEF LogSound
  <2> QED BY <2>1
<1>2. << >> \in Seq(GroupEvent)
  OBVIOUS
<1>3. ASSUME NEW i \in 1..n, NEW v \in Seq(GroupEvent)
      PROVE  (IF Matches(log[i], kind, from, to) THEN Append(v, log[i]) ELSE v) \in Seq(GroupEvent)
  BY <1>1
<1>4. step \in [1..n -> [Seq(GroupEvent) -> Seq(GroupEvent)]]
  BY <1>3
<1>5. \A i \in 1..n : \A v \in Seq(GroupEvent) :
          step[i][v] = IF Matches(log[i], kind, from, to) THEN Append(v, log[i]) ELSE v
  OBVIOUS
<1> HIDE DEF n, step
<1>6. PICK f : Computed(f, n, Seq(GroupEvent), <<>>, step)
  BY <1>1, <1>2, <1>4, StepsExist
<1>7. f \in [0..n -> Seq(GroupEvent)] /\ f[0] = <<>> /\ \A i \in 1..n : f[i] = step[i][f[i - 1]]
  BY <1>6 DEF Computed
<1>8. \A i \in 1..n : f[i] = IF Matches(log[i], kind, from, to) THEN Append(f[i - 1], log[i]) ELSE f[i - 1]
  <2> TAKE i \in 1..n
  <2>1. i - 1 \in 0..n
    BY <1>1
  <2>2. f[i - 1] \in Seq(GroupEvent)
    BY <1>7, <2>1
  <2> QED BY <1>5, <1>7, <2>2
<1>9. \A i \in 0..n : i = 0 \/ i \in 1..n
  BY <1>1
<1>10. f = [i \in 0..n |-> IF i = 0 THEN <<>>
                ELSE IF Matches(log[i], kind, from, to) THEN Append(f[i - 1], log[i]) ELSE f[i - 1]]
  <2>1. \A i \in 0..n : f[i] = IF i = 0 THEN <<>>
                ELSE IF Matches(log[i], kind, from, to) THEN Append(f[i - 1], log[i]) ELSE f[i - 1]
    BY <1>7, <1>8, <1>9
  <2> QED BY <1>7, <2>1
<1>11. t = [i \in 0..n |-> IF i = 0 THEN <<>>
                ELSE IF Matches(log[i], kind, from, to) THEN Append(t[i - 1], log[i]) ELSE t[i - 1]]
  BY <1>10
<1>12. Query(kind, from, to) = t[n]
  BY DEF Query, n
<1> HIDE DEF t
<1>13. t[0] = f[0] /\ \A i \in 1..n : t[i - 1] = f[i - 1] => t[i] = f[i]
  <2>1. t[0] = <<>>
    BY <1>1, <1>11
  <2>2. ASSUME NEW i \in 1..n, t[i - 1] = f[i - 1] PROVE t[i] = f[i]
    <3>1. i \in 0..n /\ i # 0
      BY <1>1
    <3>2. t[i] = IF Matches(log[i], kind, from, to) THEN Append(t[i - 1], log[i]) ELSE t[i - 1]
      BY <1>11, <3>1
    <3> QED BY <1>8, <2>2, <3>2
  <2> QED BY <1>7, <2>1, <2>2
<1>14. t[n] = f[n]
  <2>1. n \in 0..n
    BY <1>1
  <2>2. \A i \in 0..n : t[i] = f[i]
    BY <1>1, <1>13, TheSame
  <2> QED BY <2>1, <2>2
<1>15. FoundBy(f, kind, from, to)
  BY <1>7, <1>8 DEF FoundBy, n
<1> QED BY <1>12, <1>14, <1>15 DEF n

(* The events up to the n-th that match, in their order.                   *)
OnlyMatches(events, n, kind, from, to) ==
    \A p \in 1..Len(events) : \E i \in 1..n : events[p] = log[i] /\ Matches(log[i], kind, from, to)
AllMatches(events, n, kind, from, to) ==
    \A i \in 1..n : Matches(log[i], kind, from, to) => \E p \in 1..Len(events) : events[p] = log[i]
Before(e, f, n, kind, from, to) ==
    \E i \in 1..n : \E j \in 1..n :
        /\ i < j /\ e = log[i] /\ f = log[j]
        /\ Matches(log[i], kind, from, to) /\ Matches(log[j], kind, from, to)
InOrder(events, n, kind, from, to) ==
    \A p, q \in 1..Len(events) : p < q => Before(events[p], events[q], n, kind, from, to)
FoundUpTo(events, n, kind, from, to) ==
    /\ OnlyMatches(events, n, kind, from, to) /\ AllMatches(events, n, kind, from, to)
    /\ InOrder(events, n, kind, from, to)

LEMMA BeforeStill ==
    ASSUME NEW e, NEW f, NEW n \in Nat, NEW kind, NEW from, NEW to, Before(e, f, n, kind, from, to)
    PROVE  Before(e, f, n + 1, kind, from, to)
<1>1. \A i \in 1..n : i \in 1..(n + 1)
  OBVIOUS
<1> QED BY <1>1 DEF Before

LEMMA FoundOnce ==
    ASSUME NEW events \in Seq(GroupEvent), NEW n \in Nat, NEW kind, NEW from, NEW to,
           FoundUpTo(events, n, kind, from, to), log[n + 1] \in GroupEvent,
           NEW next, next = IF Matches(log[n + 1], kind, from, to) THEN Append(events, log[n + 1]) ELSE events
    PROVE  FoundUpTo(next, n + 1, kind, from, to)
<1> DEFINE M(i) == Matches(log[i], kind, from, to)
           B(e, f, m) == Before(e, f, m, kind, from, to)
<1>1. /\ \A i \in 1..(n + 1) : i \in 1..n \/ i = n + 1
      /\ n + 1 \in 1..(n + 1) /\ \A i \in 1..n : i \in 1..(n + 1) /\ i < n + 1
  BY OneMore
<1>2. /\ \A p \in 1..Len(events) : \E i \in 1..n : events[p] = log[i] /\ M(i)
      /\ \A i \in 1..n : M(i) => \E p \in 1..Len(events) : events[p] = log[i]
  BY DEF FoundUpTo, OnlyMatches, AllMatches
<1>3. \A p, q \in 1..Len(events) : p < q => B(events[p], events[q], n)
  BY DEF FoundUpTo, InOrder
<1>4. \A p, q \in 1..Len(events) : p < q => B(events[p], events[q], n + 1)
  BY <1>3, BeforeStill
<1>5. CASE ~ M(n + 1)
  <2>1. next = events
    BY <1>5
  <2> HIDE DEF M, B
  <2>2. /\ \A p \in 1..Len(next) : \E i \in 1..(n + 1) : next[p] = log[i] /\ M(i)
        /\ \A i \in 1..(n + 1) : M(i) => \E p \in 1..Len(next) : next[p] = log[i]
    BY <1>1, <1>2, <1>5, <2>1
  <2>3. \A p, q \in 1..Len(next) : p < q => B(next[p], next[q], n + 1)
    BY <1>4, <2>1
  <2> QED BY <2>2, <2>3 DEF M, B, FoundUpTo, OnlyMatches, AllMatches, InOrder
<1>6. CASE M(n + 1)
  <2>1. PICK m \in Nat : m = Len(events)
    OBVIOUS
  <2>2. /\ Len(next) = m + 1 /\ next[m + 1] = log[n + 1] /\ \A p \in 1..m : next[p] = events[p]
    BY <1>6, <2>1
  <2>3. /\ \A p \in 1..(m + 1) : p \in 1..m \/ p = m + 1
        /\ m + 1 \in 1..(m + 1) /\ \A p \in 1..m : p \in 1..(m + 1) /\ ~ (m + 1 < p)
        /\ ~ (m + 1 < m + 1)
    BY OneMore
  <2> HIDE DEF M, B
  <2>4. \A p \in 1..(m + 1) : \E i \in 1..(n + 1) : next[p] = log[i] /\ M(i)
    BY <1>1, <1>2, <1>6, <2>1, <2>2, <2>3
  <2>5. \A i \in 1..(n + 1) : M(i) => \E p \in 1..(m + 1) : next[p] = log[i]
    <3> SUFFICES ASSUME NEW i \in 1..(n + 1), M(i) PROVE \E p \in 1..(m + 1) : next[p] = log[i]
      OBVIOUS
    <3>1. CASE i \in 1..n
      <4>1. PICK p \in 1..m : events[p] = log[i]
        BY <1>2, <2>1, <3>1
      <4> QED BY <2>2, <2>3, <4>1
    <3>2. CASE i = n + 1
      BY <2>2, <2>3, <3>2
    <3> QED BY <1>1, <3>1, <3>2
  <2>6. ASSUME NEW p \in 1..(m + 1), NEW q \in 1..(m + 1), p < q
        PROVE  B(next[p], next[q], n + 1)
    <3>1. p \in 1..m
      BY <2>3, <2>6
    <3>2. CASE q \in 1..m
      BY <1>4, <2>1, <2>2, <2>6, <3>1, <3>2
    <3>3. CASE q = m + 1
      <4>1. PICK i \in 1..n : events[p] = log[i] /\ M(i)
        BY <1>2, <2>1, <3>1
      <4>2. i < n + 1 /\ i \in 1..(n + 1) /\ next[p] = log[i] /\ next[q] = log[n + 1]
        BY <1>1, <2>2, <3>1, <3>3, <4>1
      <4> QED BY <1>1, <1>6, <4>1, <4>2 DEF B, M, Before
    <3> QED BY <2>3, <3>2, <3>3
  <2>7. OnlyMatches(next, n + 1, kind, from, to)
    BY <2>2, <2>4 DEF M, OnlyMatches
  <2>8. AllMatches(next, n + 1, kind, from, to)
    BY <2>2, <2>5 DEF M, AllMatches
  <2>9. InOrder(next, n + 1, kind, from, to)
    BY <2>2, <2>6 DEF B, InOrder
  <2> QED BY <2>7, <2>8, <2>9 DEF FoundUpTo
<1> QED BY <1>5, <1>6

LEMMA FoundEach ==
    ASSUME LogSound, NEW f, NEW kind, NEW from, NEW to, FoundBy(f, kind, from, to)
    PROVE  \A n \in 0..Len(log) : f[n] \in Seq(GroupEvent) /\ FoundUpTo(f[n], n, kind, from, to)
<1> DEFINE T == {n \in 0..Len(log) : FoundUpTo(f[n], n, kind, from, to)}
<1>1. Len(log) \in Nat /\ log \in Seq(GroupEvent)
  BY DEF LogSound
<1>2. f \in [0..Len(log) -> Seq(GroupEvent)]
  BY DEF FoundBy
<1>3. 0 \in T
  <2>1. f[0] = <<>> /\ Len(<<>>) = 0 /\ 0 \in 0..Len(log) /\ 1..0 = {}
    BY <1>1 DEF FoundBy
  <2> QED BY <2>1 DEF FoundUpTo, OnlyMatches, AllMatches, InOrder
<1>4. ASSUME NEW n \in 0..(Len(log) - 1), n \in T PROVE n + 1 \in T
  <2>1. n \in Nat /\ n \in 0..Len(log) /\ n + 1 \in 1..Len(log) /\ n + 1 \in 0..Len(log) /\ (n + 1) - 1 = n
    BY <1>1
  <2>2. f[n + 1] = IF Matches(log[n + 1], kind, from, to) THEN Append(f[n], log[n + 1]) ELSE f[n]
    BY <2>1 DEF FoundBy
  <2>3. f[n] \in Seq(GroupEvent) /\ log[n + 1] \in GroupEvent
    BY <1>1, <1>2, <2>1
  <2>4. FoundUpTo(f[n + 1], n + 1, kind, from, to)
    BY <1>4, <2>1, <2>2, <2>3, FoundOnce
  <2> QED BY <2>1, <2>4
<1>5. \A n \in 0..Len(log) : n \in T
  <2> HIDE DEF T
  <2> QED BY <1>1, <1>3, <1>4, UpTo
<1> QED BY <1>2, <1>5

LEMMA QueryIs ==
    ASSUME LogSound, NEW kind, NEW from, NEW to
    PROVE  /\ Query(kind, from, to) \in Seq(GroupEvent)
           /\ FoundUpTo(Query(kind, from, to), Len(log), kind, from, to)
<1>1. PICK f : FoundBy(f, kind, from, to) /\ Query(kind, from, to) = f[Len(log)]
  BY QueryFound
<1>2. Len(log) \in 0..Len(log)
  BY LogFacts
<1> QED BY <1>1, <1>2, FoundEach

-----------------------------------------------------------------------------
(* The events up to a block are the first of the log.                      *)

Cut(b) == Cardinality({i \in DOMAIN log : log[i].block <= b})

LEMMA CutIs ==
    ASSUME LogSound, NEW b \in Int
    PROVE  Cut(b) \in 0..Len(log) /\ \A i \in 1..Len(log) : i <= Cut(b) <=> log[i].block <= b
<1> DEFINE T == {i \in DOMAIN log : log[i].block <= b}
           Later == {i \in 1..Len(log) : log[i].block > b}
<1>1. PICK n \in Nat : n = Len(log)
  BY LogFacts
<1>2. /\ DOMAIN log = 1..n /\ \A i \in 1..n : log[i].block \in Nat
      /\ \A i, j \in 1..n : i <= j => log[i].block <= log[j].block
  BY <1>1, LogFacts
<1>3. \E m \in 0..n : \A i \in 1..n : i <= m <=> log[i].block <= b
  <2>1. CASE Later = {}
    <3>1. \A i \in 1..n : i <= n /\ log[i].block <= b
      BY <1>1, <1>2, <2>1
    <3>2. n \in 0..n
      OBVIOUS
    <3> QED BY <3>1, <3>2
  <2>2. CASE Later # {}
    <3>1. Later \subseteq Nat
      OBVIOUS
    <3>2. PICK k \in Later : \A j \in Later : k <= j
      <4> HIDE DEF Later
      <4> QED BY <2>2, <3>1, LeastElement
    <3>3. k \in 1..n /\ log[k].block > b
      BY <1>1, <3>2
    <3>4. k - 1 \in 0..n
      BY <3>3
    <3>5. ASSUME NEW i \in 1..n PROVE i <= k - 1 <=> log[i].block <= b
      <4>1. CASE i <= k - 1
        <5>1. ~ (k <= i)
          BY <3>3, <4>1
        <5>2. ~ (log[i].block > b)
          BY <1>1, <3>2, <5>1
        <5> QED BY <1>2, <4>1, <5>2
      <4>2. CASE ~ (i <= k - 1)
        <5>1. k <= i
          BY <3>3, <4>2
        <5>2. log[k].block <= log[i].block /\ log[i].block \in Nat /\ log[k].block \in Nat
          BY <1>2, <3>3, <5>1
        <5> QED BY <3>3, <4>2, <5>2
      <4> QED BY <4>1, <4>2
    <3> QED BY <3>4, <3>5
  <2> QED BY <2>1, <2>2
<1>4. PICK m \in 0..n : \A i \in 1..n : i <= m <=> log[i].block <= b
  BY <1>3
<1>5. T = 1..m
  <2>1. \A i \in 1..m : i \in 1..n /\ i <= m
    OBVIOUS
  <2>2. \A i \in 1..n : i <= m => i \in 1..m
    OBVIOUS
  <2> QED BY <1>2, <1>4, <2>1, <2>2
<1>6. Cardinality(1..m) = m
  BY FS_Interval
<1> QED BY <1>1, <1>4, <1>5, <1>6 DEF Cut

LEMMA CutNone == ASSUME LogSound, \A i \in DOMAIN log : log[i].block >= 1 PROVE Cut(0) = 0
<1>1. Cut(0) \in 0..Len(log) /\ \A i \in 1..Len(log) : i <= Cut(0) <=> log[i].block <= 0
  BY CutIs
<1>2. PICK n \in Nat : n = Len(log)
  BY LogFacts
<1>3. PICK c : c = Cut(0)
  OBVIOUS
<1>4. c \in 0..n /\ \A i \in 1..n : i <= c <=> log[i].block <= 0
  BY <1>1, <1>2, <1>3
<1>5. CASE c # 0
  <2>1. c \in 1..n /\ c <= c
    BY <1>4, <1>5
  <2>2. c \in DOMAIN log
    BY <1>2, <2>1, LogFacts
  <2>3. log[c].block \in Nat /\ log[c].block >= 1
    BY <2>2, LogFacts
  <2>4. log[c].block <= 0
    BY <1>4, <2>1
  <2> QED BY <2>3, <2>4
<1> QED BY <1>3, <1>5

LEMMA CutRises == ASSUME LogSound, NEW a \in Int, NEW b \in Int, a <= b PROVE Cut(a) <= Cut(b)
<1>1. /\ Cut(a) \in 0..Len(log) /\ \A i \in 1..Len(log) : i <= Cut(a) <=> log[i].block <= a
      /\ Cut(b) \in 0..Len(log) /\ \A i \in 1..Len(log) : i <= Cut(b) <=> log[i].block <= b
  BY CutIs
<1>2. PICK n \in Nat : n = Len(log)
  BY LogFacts
<1>3. PICK c, d : c = Cut(a) /\ d = Cut(b)
  OBVIOUS
<1>4. /\ c \in 0..n /\ \A i \in 1..n : i <= c <=> log[i].block <= a
      /\ d \in 0..n /\ \A i \in 1..n : i <= d <=> log[i].block <= b
  BY <1>1, <1>2, <1>3
<1>5. CASE c \in 1..n
  <2>1. log[c].block <= a
    BY <1>4, <1>5
  <2>2. c \in DOMAIN log
    BY <1>2, <1>5, LogFacts
  <2>3. log[c].block \in Nat
    BY <2>2, LogFacts
  <2>4. log[c].block <= b
    BY <2>1, <2>3
  <2> QED BY <1>3, <1>4, <1>5, <2>4
<1> QED BY <1>3, <1>4, <1>5

LEMMA UpToIs == ASSUME NEW b PROVE EventsUpTo(b) = SubSeq(log, 1, Cut(b))
BY DEF EventsUpTo, Cut

(* The log grows behind the block.                                         *)
LEMMA CutKept ==
    ASSUME LogSound, ChainStep, NEW b \in Int, b <= head
    PROVE  Cut(b)' = Cut(b) /\ EventsUpTo(b)' = EventsUpTo(b)
<1>1. /\ LogSound' /\ head <= head'
      /\ \A n \in DOMAIN log : n \in DOMAIN log' /\ log'[n] = log[n]
      /\ \A n \in DOMAIN log' : n > Len(log) => log'[n].block = head' /\ head' = head + 1
      /\ \A n \in 1..Len(log) : n \in 1..Len(log') /\ SubSeq(log', 1, n) = SubSeq(log, 1, n)
  BY LogStep
<1>2. PICK n \in Nat : n = Len(log)
  BY LogFacts
<1>3. DOMAIN log = 1..n /\ head \in Nat /\ DOMAIN log' = 1..Len(log') /\ Len(log') \in Nat
  <2>1. LogSound' => DOMAIN log' = 1..Len(log') /\ Len(log') \in Nat
    BY DEF LogSound
  <2> QED BY <1>1, <1>2, <2>1, LogFacts
<1>4. {i \in DOMAIN log' : log'[i].block <= b} = {i \in DOMAIN log : log[i].block <= b}
  <2>1. ASSUME NEW i \in DOMAIN log', i \notin DOMAIN log PROVE ~ (log'[i].block <= b)
    <3>1. i > n
      BY <1>3, <2>1
    <3>2. log'[i].block = head + 1
      BY <1>1, <1>2, <3>1
    <3> QED BY <1>3, <3>2
  <2> QED BY <1>1, <2>1
<1>5. Cut(b)' = Cut(b)
  BY <1>4 DEF Cut
<1>6. PICK c : c = Cut(b)
  OBVIOUS
<1>7. c \in 0..n
  BY <1>2, <1>6, CutIs
<1>8. SubSeq(log', 1, c) = SubSeq(log, 1, c)
  <2>1. CASE c = 0
    BY <2>1, SubSeqEmpty
  <2>2. CASE c # 0
    BY <1>1, <1>2, <1>7, <2>2
  <2> QED BY <2>1, <2>2
<1> QED BY <1>5, <1>6, <1>8, UpToIs DEF EventsUpTo, Cut

-----------------------------------------------------------------------------
(* What the pages of a scan read together.                                 *)

LEMMA AppendConcat ==
    ASSUME NEW S, NEW s \in Seq(S), NEW t \in Seq(S), NEW e \in S
    PROVE  s \o Append(t, e) = Append(s \o t, e)
<1>1. Append(t, e) = t \o <<e>> /\ <<e>> \in Seq(S)
  BY AppendIsConcat
<1>2. s \o t \in Seq(S)
  BY ConcatProperties
<1>3. Append(s \o t, e) = (s \o t) \o <<e>>
  BY <1>2, AppendIsConcat
<1> QED BY <1>1, <1>3, ConcatAssociative

(* The place reached at the i-th event by one who reads those from a to b. *)
Clamp(i, a, b) == IF i <= a THEN a ELSE IF i <= b THEN i ELSE b

LEMMA ClampIs ==
    ASSUME NEW n \in Nat, NEW a \in 0..n, NEW b \in a..n
    PROVE  /\ Clamp(0, a, b) = a /\ Clamp(n, a, b) = b
           /\ \A i \in 0..(n - 1) :
                 /\ i + 1 <= a \/ i + 1 > b => Clamp(i + 1, a, b) = Clamp(i, a, b)
                 /\ i + 1 > a /\ i + 1 <= b => /\ Clamp(i + 1, a, b) = i + 1 /\ Clamp(i, a, b) = i
BY DEF Clamp

LEMMA PageRead ==
    ASSUME LogSound, NEW kind, NEW F, FoundBy(F, kind, 0, head), NEW a \in Nat, NEW b \in Nat, a <= b
    PROVE  F[Cut(a)] \o Query(kind, a + 1, b) = F[Cut(b)]
<1>1. PICK f : FoundBy(f, kind, a + 1, b) /\ Query(kind, a + 1, b) = f[Len(log)]
  BY QueryFound
<1>2. PICK n \in Nat : n = Len(log)
  BY LogFacts
<1>3. PICK c, d : c = Cut(a) /\ d = Cut(b)
  OBVIOUS
<1>4. /\ c \in 0..n /\ \A i \in 1..n : i <= c <=> log[i].block <= a
      /\ d \in c..n /\ \A i \in 1..n : i <= d <=> log[i].block <= b
  <2>1. c \in 0..n /\ \A i \in 1..n : i <= c <=> log[i].block <= a
    <3>1. a \in Int
      OBVIOUS
    <3> QED BY <1>2, <1>3, <3>1, CutIs
  <2>2. d \in 0..n /\ \A i \in 1..n : i <= d <=> log[i].block <= b
    <3>1. b \in Int
      OBVIOUS
    <3> QED BY <1>2, <1>3, <3>1, CutIs
  <2>3. c <= d
    BY <1>3, CutRises
  <2> QED BY <2>1, <2>2, <2>3
<1>5. head \in Nat /\ \A i \in 1..n : log[i].block \in Nat /\ log[i].block <= head /\ log[i] \in GroupEvent
  BY <1>2, LogFacts, ElementOfSeq
<1>6. /\ f \in [0..n -> Seq(GroupEvent)] /\ f[0] = <<>>
      /\ \A i \in 1..n : f[i] = IF Matches(log[i], kind, a + 1, b) THEN Append(f[i - 1], log[i]) ELSE f[i - 1]
  BY <1>1, <1>2 DEF FoundBy
<1>7. /\ F \in [0..n -> Seq(GroupEvent)]
      /\ \A i \in 1..n : F[i] = IF Matches(log[i], kind, 0, head) THEN Append(F[i - 1], log[i]) ELSE F[i - 1]
  BY <1>2 DEF FoundBy
<1>8. \A i \in 1..n : Matches(log[i], kind, 0, head) <=> log[i].kind = kind
  BY <1>5 DEF Matches
<1>9. \A i \in 1..n : Matches(log[i], kind, a + 1, b) <=> log[i].kind = kind /\ i > c /\ i <= d
  <2> TAKE i \in 1..n
  <2>1. PICK m \in Nat : m = log[i].block
    BY <1>5
  <2>2. m >= a + 1 <=> i > c
    BY <1>4, <2>1
  <2>3. m <= b <=> i <= d
    BY <1>4, <2>1
  <2> QED BY <2>1, <2>2, <2>3 DEF Matches
<1> DEFINE T == {i \in 0..n : F[c] \o f[i] = F[Clamp(i, c, d)]}
<1>10. /\ Clamp(0, c, d) = c /\ Clamp(n, c, d) = d
       /\ \A i \in 0..(n - 1) :
             /\ i + 1 <= c \/ i + 1 > d => Clamp(i + 1, c, d) = Clamp(i, c, d)
             /\ i + 1 > c /\ i + 1 <= d => /\ Clamp(i + 1, c, d) = i + 1 /\ Clamp(i, c, d) = i
  BY <1>4, ClampIs
<1>11. F[c] \in Seq(GroupEvent)
  BY <1>4, <1>7
<1>12. 0 \in T
  <2>1. F[c] \o <<>> = F[c]
    BY <1>11, ConcatEmptySeq
  <2>2. F[c] \o f[0] = F[Clamp(0, c, d)]
    BY <1>6, <1>10, <2>1
  <2>3. 0 \in 0..n
    OBVIOUS
  <2> QED BY <2>2, <2>3
<1>13. ASSUME NEW i \in 0..(n - 1), i \in T PROVE i + 1 \in T
  <2>1. i \in 0..n /\ i + 1 \in 1..n /\ i + 1 \in 0..n /\ (i + 1) - 1 = i /\ i \in Nat
    OBVIOUS
  <2>2. f[i] \in Seq(GroupEvent) /\ log[i + 1] \in GroupEvent
    BY <1>5, <1>6, <2>1
  <2>3. CASE i + 1 > c /\ i + 1 <= d
    <3>1. Clamp(i + 1, c, d) = i + 1 /\ Clamp(i, c, d) = i
      BY <1>10, <2>3
    <3>2. F[c] \o f[i] = F[i]
      BY <1>13, <3>1
    <3>3. CASE log[i + 1].kind = kind
      <4>1. f[i + 1] = Append(f[i], log[i + 1]) /\ F[i + 1] = Append(F[i], log[i + 1])
        BY <1>6, <1>7, <1>8, <1>9, <2>1, <2>3, <3>3
      <4>2. F[c] \o Append(f[i], log[i + 1]) = Append(F[c] \o f[i], log[i + 1])
        <5>1. PICK x \in Seq(GroupEvent), y \in Seq(GroupEvent), e \in GroupEvent :
                  x = F[c] /\ y = f[i] /\ e = log[i + 1]
          BY <1>11, <2>2
        <5>2. x \o Append(y, e) = Append(x \o y, e)
          BY AppendConcat
        <5> QED BY <5>1, <5>2
      <4>3. F[c] \o f[i + 1] = F[Clamp(i + 1, c, d)]
        BY <3>1, <3>2, <4>1, <4>2
      <4> QED BY <2>1, <4>3
    <3>4. CASE log[i + 1].kind # kind
      <4>1. f[i + 1] = f[i] /\ F[i + 1] = F[i]
        BY <1>6, <1>7, <1>8, <1>9, <2>1, <3>4
      <4> QED BY <2>1, <3>1, <3>2, <4>1
    <3> QED BY <3>3, <3>4
  <2>4. CASE ~ (i + 1 > c /\ i + 1 <= d)
    <3>1. i + 1 <= c \/ i + 1 > d
      BY <1>4, <2>1, <2>4
    <3>2. Clamp(i + 1, c, d) = Clamp(i, c, d)
      BY <1>10, <3>1
    <3>3. f[i + 1] = f[i]
      BY <1>6, <1>9, <2>1, <2>4
    <3> QED BY <1>13, <2>1, <3>2, <3>3
  <2> QED BY <2>3, <2>4
<1>14. \A i \in 0..n : i \in T
  <2> HIDE DEF T
  <2> QED BY <1>12, <1>13, UpTo
<1>15. F[c] \o f[n] = F[d]
  <2>1. n \in 0..n
    OBVIOUS
  <2>2. F[c] \o f[n] = F[Clamp(n, c, d)]
    BY <1>14, <2>1
  <2> QED BY <1>10, <2>2
<1> QED BY <1>1, <1>2, <1>3, <1>15

LEMMA PagesCover ==
    ASSUME NEW p \in Nat \ {0}, NEW latest \in Nat, NEW q, q = (latest + p - 1) \div p
    PROVE  /\ q \in Nat /\ latest <= q * p
           /\ \A k \in 0..q : k < q => k * p < latest
<1> DEFINE a == latest + p - 1
<1>1. q \in Int /\ q * p <= a /\ a < q * p + p
  OBVIOUS
<1>2. a \in Nat
  OBVIOUS
<1>3. q >= 0
  <2>1. CASE q < 0
    <3>1. (q + 1) * p <= 0
      BY <1>1, <2>1
    <3> QED BY <1>1, <1>2, <3>1
  <2> QED BY <1>1, <2>1
<1>4. latest <= q * p
  BY <1>1
<1>5. ASSUME NEW k \in 0..q, k < q PROVE k * p < latest
  <2>1. (k + 1) * p <= q * p
    BY <1>1, <1>5
  <2>2. k * p + p <= latest + p - 1
    BY <1>1, <2>1
  <2>3. k * p \in Int
    BY <1>1
  <2> QED BY <2>2, <2>3
<1> QED BY <1>1, <1>3, <1>4, <1>5

PagedBy(r, q, kind, latest) ==
    /\ r \in [0..q -> Seq(GroupEvent)] /\ r[0] = <<>>
    /\ \A k \in 1..q : r[k] = r[k - 1] \o Query(kind, (k - 1) * PageSize + 1, PageEnd(k, latest))

LEMMA PagesRead ==
    ASSUME LogSound, NEW kind, NEW latest \in Nat, NEW q \in Nat, q = (latest + PageSize - 1) \div PageSize
    PROVE  \E r : PagedBy(r, q, kind, latest) /\ QueryFilterPaged(kind, latest) = r[q]
<1> DEFINE t == CHOOSE r : r = [k \in 0..q |-> IF k = 0 THEN <<>>
                    ELSE r[k - 1] \o Query(kind, (k - 1) * PageSize + 1, PageEnd(k, latest))]
           step == [k \in 1..q |-> [v \in Seq(GroupEvent) |->
                    v \o Query(kind, (k - 1) * PageSize + 1, PageEnd(k, latest))]]
<1>1. << >> \in Seq(GroupEvent)
  OBVIOUS
<1>2. ASSUME NEW k \in 1..q, NEW v \in Seq(GroupEvent)
      PROVE  v \o Query(kind, (k - 1) * PageSize + 1, PageEnd(k, latest)) \in Seq(GroupEvent)
  BY QueryIs, ConcatProperties
<1>3. step \in [1..q -> [Seq(GroupEvent) -> Seq(GroupEvent)]]
  BY <1>2
<1>4. \A k \in 1..q : \A v \in Seq(GroupEvent) :
          step[k][v] = v \o Query(kind, (k - 1) * PageSize + 1, PageEnd(k, latest))
  OBVIOUS
<1> HIDE DEF step
<1>5. PICK r : Computed(r, q, Seq(GroupEvent), <<>>, step)
  BY <1>1, <1>3, StepsExist
<1>6. r \in [0..q -> Seq(GroupEvent)] /\ r[0] = <<>> /\ \A k \in 1..q : r[k] = step[k][r[k - 1]]
  BY <1>5 DEF Computed
<1>7. \A k \in 1..q : r[k] = r[k - 1] \o Query(kind, (k - 1) * PageSize + 1, PageEnd(k, latest))
  <2> TAKE k \in 1..q
  <2>1. k - 1 \in 0..q
    OBVIOUS
  <2>2. r[k - 1] \in Seq(GroupEvent)
    BY <1>6, <2>1
  <2> QED BY <1>4, <1>6, <2>2
<1>8. \A k \in 0..q : k = 0 \/ k \in 1..q
  OBVIOUS
<1>9. r = [k \in 0..q |-> IF k = 0 THEN <<>>
               ELSE r[k - 1] \o Query(kind, (k - 1) * PageSize + 1, PageEnd(k, latest))]
  <2>1. \A k \in 0..q : r[k] = IF k = 0 THEN <<>>
               ELSE r[k - 1] \o Query(kind, (k - 1) * PageSize + 1, PageEnd(k, latest))
    BY <1>6, <1>7, <1>8
  <2> QED BY <1>6, <2>1
<1>10. t = [k \in 0..q |-> IF k = 0 THEN <<>>
               ELSE t[k - 1] \o Query(kind, (k - 1) * PageSize + 1, PageEnd(k, latest))]
  BY <1>9
<1>11. QueryFilterPaged(kind, latest) = t[q]
  BY DEF QueryFilterPaged
<1> HIDE DEF t
<1>12. t[0] = r[0] /\ \A k \in 1..q : t[k - 1] = r[k - 1] => t[k] = r[k]
  <2>1. t[0] = <<>>
    BY <1>10
  <2>2. ASSUME NEW k \in 1..q, t[k - 1] = r[k - 1] PROVE t[k] = r[k]
    <3>1. k \in 0..q /\ k # 0
      OBVIOUS
    <3>2. t[k] = t[k - 1] \o Query(kind, (k - 1) * PageSize + 1, PageEnd(k, latest))
      BY <1>10, <3>1
    <3> QED BY <1>7, <2>2, <3>2
  <2> QED BY <1>6, <2>1, <2>2
<1>13. t[q] = r[q]
  <2>1. q \in 0..q
    OBVIOUS
  <2>2. \A k \in 0..q : t[k] = r[k]
    BY <1>12, TheSame
  <2> QED BY <2>1, <2>2
<1>14. PagedBy(r, q, kind, latest)
  BY <1>6, <1>7 DEF PagedBy
<1> QED BY <1>11, <1>13, <1>14

Dated == \A i \in DOMAIN log : log[i].block >= 1

(* A scan finds what there is of a kind up to its latest block.            *)
LEMMA ScanIs ==
    ASSUME LogSound, Dated, NEW kind, NEW F, FoundBy(F, kind, 0, head), NEW latest \in Nat
    PROVE  QueryFilterPaged(kind, latest) = F[Cut(latest)]
<1>0. \A a, b \in Nat : a <= b => F[Cut(a)] \o Query(kind, a + 1, b) = F[Cut(b)]
  <2> TAKE a, b \in Nat
  <2> HAVE a <= b
  <2> QED BY PageRead
<1>1. PICK p \in Nat \ {0} : p = PageSize
  BY GroupMembersAssumption
<1>2. PICK q : q = (latest + p - 1) \div p
  OBVIOUS
<1>3. q \in Nat /\ latest <= q * p /\ \A k \in 0..q : k < q => k * p < latest
  BY <1>2, PagesCover
<1>4. PICK r : PagedBy(r, q, kind, latest) /\ QueryFilterPaged(kind, latest) = r[q]
  <2>1. q = (latest + PageSize - 1) \div PageSize /\ q \in Nat
    BY <1>1, <1>2, <1>3
  <2> QED BY <2>1, PagesRead
<1>5. /\ r[0] = <<>>
      /\ \A k \in 1..q : r[k] = r[k - 1] \o Query(kind, (k - 1) * p + 1, PageEnd(k, latest))
  BY <1>1, <1>4 DEF PagedBy
<1>6. /\ PageEnd(0, latest) = 0 /\ PageEnd(q, latest) = latest
      /\ \A k \in 0..(q - 1) : /\ PageEnd(k, latest) = k * p /\ k * p \in Nat
                               /\ PageEnd(k + 1, latest) \in Nat /\ k * p <= PageEnd(k + 1, latest)
  <2>1. PageEnd(0, latest) = 0
    <3>1. 0 * p = 0
      BY <1>1
    <3> QED BY <1>1, <3>1 DEF PageEnd
  <2>2. PageEnd(q, latest) = latest
    <3>1. q * p \in Nat
      BY <1>3
    <3> QED BY <1>1, <1>3, <3>1 DEF PageEnd
  <2>3. ASSUME NEW k \in 0..(q - 1)
        PROVE  /\ PageEnd(k, latest) = k * p /\ k * p \in Nat
               /\ PageEnd(k + 1, latest) \in Nat /\ k * p <= PageEnd(k + 1, latest)
    <3>1. k \in 0..q /\ k < q /\ k \in Nat /\ k + 1 \in Nat
      BY <1>3
    <3>2. k * p < latest
      BY <1>3, <3>1
    <3>3. k * p \in Nat /\ (k + 1) * p \in Nat /\ k * p <= (k + 1) * p
      BY <3>1
    <3> QED BY <1>1, <3>2, <3>3 DEF PageEnd
  <2> QED BY <2>1, <2>2, <2>3
<1> DEFINE T == {k \in 0..q : r[k] = F[Cut(PageEnd(k, latest))]}
<1>7. 0 \in T
  <2>1. Cut(0) = 0
    BY CutNone DEF Dated
  <2> QED BY <1>3, <1>5, <1>6, <2>1 DEF FoundBy
<1>8. ASSUME NEW k \in 0..(q - 1), k \in T PROVE k + 1 \in T
  <2>1. k + 1 \in 1..q /\ k + 1 \in 0..q /\ (k + 1) - 1 = k
    BY <1>3
  <2>2. PICK a \in Nat, b \in Nat : a = k * p /\ b = PageEnd(k + 1, latest) /\ a <= b
    BY <1>6
  <2>3. F[Cut(a)] \o Query(kind, a + 1, b) = F[Cut(b)]
    BY <1>0, <2>2
  <2>4. r[k + 1] = r[k] \o Query(kind, a + 1, b)
    BY <1>5, <2>1, <2>2
  <2>5. r[k] = F[Cut(a)]
    BY <1>6, <1>8, <2>2
  <2>6. r[k + 1] = F[Cut(b)]
    BY <2>3, <2>4, <2>5
  <2> QED BY <2>1, <2>2, <2>6
<1>9. \A k \in 0..q : k \in T
  <2> HIDE DEF T
  <2> QED BY <1>3, <1>7, <1>8, UpTo
<1>10. r[q] = F[Cut(PageEnd(q, latest))]
  BY <1>3, <1>9
<1> QED BY <1>4, <1>6, <1>10

-----------------------------------------------------------------------------
(* Who is in the group.                                                    *)

Member(c, leaves) == c \in ToSet(leaves)

LEMMA MemberIs ==
    ASSUME NEW leaves \in Leaves, NEW c
    PROVE  Member(c, leaves) <=> \E k \in 1..Len(leaves) : leaves[k] = c
<1>1. DOMAIN leaves = 1..Len(leaves)
  BY DEF Leaves
<1> QED BY <1>1 DEF Member, ToSet

LEMMA MemberStep ==
    ASSUME NEW leaves \in Leaves, NEW e \in GroupEvent, NEW d \in Commitments
    PROVE  /\ Member(d, ApplyToTree(leaves, e)) =>
                  Member(d, leaves) \/ (e.kind = Issued /\ e.commitment = d)
           /\ Member(d, leaves) /\ ~ (e.kind # Issued /\ e.commitment = d) => Member(d, ApplyToTree(leaves, e))
           /\ e.kind = Issued /\ e.commitment = d => Member(d, ApplyToTree(leaves, e))
<1>1. PICK next \in Leaves : next = ApplyToTree(leaves, e)
  BY StillLeaves
<1>2. /\ Member(d, next) <=> \E k \in 1..Len(next) : next[k] = d
      /\ Member(d, leaves) <=> \E k \in 1..Len(leaves) : leaves[k] = d
  BY MemberIs
<1>3. PICK n \in Nat : n = Len(leaves)
  BY DEF Leaves
<1>4. CASE e.kind = Issued
  <2>1. next = Append(leaves, e.commitment)
    BY <1>1, <1>4 DEF ApplyToTree
  <2>2. leaves \in Seq(Leaf) /\ e.commitment \in Leaf
    BY DEF Leaves, GroupEvent, Leaf
  <2>3. /\ Len(next) = n + 1 /\ \A i \in 1..n : next[i] = leaves[i]
        /\ next[n + 1] = e.commitment
    BY <1>3, <2>1, <2>2, AppendProperties
  <2>4. \A k \in 1..(n + 1) : k \in 1..n \/ k = n + 1
    BY OneMore
  <2>5. n + 1 \in 1..(n + 1) /\ \A k \in 1..n : k \in 1..(n + 1)
    BY OneMore
  <2>6. Member(d, next) <=> \E k \in 1..(n + 1) : next[k] = d
    BY <1>2, <2>3
  <2>7. Member(d, leaves) <=> \E k \in 1..n : leaves[k] = d
    BY <1>2, <1>3
  <2>8. Member(d, next) => Member(d, leaves) \/ e.commitment = d
    BY <2>3, <2>4, <2>6, <2>7
  <2>9. Member(d, leaves) \/ e.commitment = d => Member(d, next)
    BY <2>3, <2>5, <2>6, <2>7
  <2> QED BY <1>1, <1>4, <2>8, <2>9, Zenon
<1>5. CASE e.kind # Issued
  <2>1. next = RemoveMember(leaves, e.commitment)
    BY <1>1, <1>5 DEF ApplyToTree
  <2>2. d # None
    BY GroupMembersAssumption
  <2>3. CASE next = leaves /\ ~ Member(e.commitment, leaves)
    BY <1>1, <1>5, <2>3, Zenon
  <2>4. ASSUME NEW k \in 1..Len(leaves), leaves[k] = e.commitment, next = [leaves EXCEPT ![k] = None]
        PROVE  /\ Member(d, next) => Member(d, leaves)
               /\ Member(d, leaves) /\ e.commitment # d => Member(d, next)
    <3>1. Len(next) = n /\ \A j \in 1..n : next[j] = IF j = k THEN None ELSE leaves[j]
      <4>1. leaves \in Seq(Leaf) /\ None \in Leaf
        BY DEF Leaves, Leaf
      <4> QED BY <1>3, <2>4, <4>1, ExceptSeq
    <3>2. Member(d, next) <=> \E j \in 1..n : next[j] = d
      BY <1>2, <3>1
    <3>3. Member(d, leaves) <=> \E j \in 1..n : leaves[j] = d
      BY <1>2, <1>3
    <3> QED BY <2>2, <2>4, <3>1, <3>2, <3>3
  <2>5. \/ next = leaves /\ ~ Member(e.commitment, leaves)
        \/ \E k \in 1..Len(leaves) : leaves[k] = e.commitment /\ next = [leaves EXCEPT ![k] = None]
    BY <2>1, RemovalIs DEF Member
  <2>6. CASE \E k \in 1..Len(leaves) : leaves[k] = e.commitment /\ next = [leaves EXCEPT ![k] = None]
    BY <1>1, <1>5, <2>4, <2>6, Zenon
  <2> QED BY <2>3, <2>5, <2>6
<1> QED BY <1>4, <1>5

(* The group after the n-th event.                                         *)
GroupAt(n) == Tree(SubSeq(log, 1, n))

LEMMA GroupStart == GroupAt(0) = <<>>
<1>1. SubSeq(log, 1, 0) = <<>>
  BY SubSeqEmpty
<1> QED BY <1>1, EmptyTree DEF GroupAt

LEMMA PrefixGrows ==
    ASSUME NEW S, NEW s \in Seq(S), NEW n \in 0..(Len(s) - 1)
    PROVE  SubSeq(s, 1, n + 1) = Append(SubSeq(s, 1, n), s[n + 1]) /\ SubSeq(s, 1, n) \in Seq(S)
<1>1. 1 \in 1..Len(s) /\ n + 1 \in 1..Len(s) /\ (n + 1) - 1 = n
  OBVIOUS
<1>2. SubSeq(s, 1, n + 1) = SubSeq(s, 1, (n + 1) - 1) \o <<s[n + 1]>>
  BY <1>1, SubSeqRecursiveSecond
<1>3. SubSeq(s, 1, n) \in Seq(S) /\ s[n + 1] \in S
  <2>1. \A i \in 1..n : s[i] \in S
    BY ElementOfSeq
  <2>2. 1 \in Int /\ n \in Int
    OBVIOUS
  <2> QED BY <1>1, <2>1, <2>2, SubSeqProperties, ElementOfSeq
<1>4. Append(SubSeq(s, 1, n), s[n + 1]) = SubSeq(s, 1, n) \o <<s[n + 1]>>
  BY <1>3, AppendIsConcat
<1> QED BY <1>1, <1>2, <1>3, <1>4

LEMMA GroupGrows ==
    ASSUME LogSound, NEW n \in 0..(Len(log) - 1)
    PROVE  /\ GroupAt(n + 1) = ApplyToTree(GroupAt(n), log[n + 1])
           /\ GroupAt(n) \in Leaves /\ log[n + 1] \in GroupEvent
<1>1. log \in Seq(GroupEvent) /\ Len(log) \in Nat
  BY LogFacts
<1>2. log[n + 1] \in GroupEvent
  BY <1>1, ElementOfSeq
<1>3. SubSeq(log, 1, n + 1) = Append(SubSeq(log, 1, n), log[n + 1]) /\ SubSeq(log, 1, n) \in Seq(GroupEvent)
  BY <1>1, PrefixGrows
<1> QED BY <1>2, <1>3, TreeGrows, TreeTyped DEF GroupAt

IssuedAt(c, i) == log[i].kind = Issued /\ log[i].commitment = c
RevokedAt(c, i) == log[i].kind # Issued /\ log[i].commitment = c

(* An issued credential is active until it is revoked.                     *)
LEMMA ActiveStays ==
    ASSUME LogSound, NEW c \in Commitments, NEW i \in 1..Len(log), IssuedAt(c, i),
           NEW n \in i..Len(log), \A j \in (i + 1)..n : ~ RevokedAt(c, j)
    PROVE  Member(c, GroupAt(n))
<1>1. Len(log) \in Nat
  BY LogFacts
<1> DEFINE T == {m \in 0..n : m < i \/ Member(c, GroupAt(m))}
<1>2. 0 \in T
  BY <1>1
<1>3. ASSUME NEW m \in 0..(n - 1), m \in T PROVE m + 1 \in T
  <2>1. m \in 0..(Len(log) - 1) /\ m + 1 \in 0..n /\ m \in Nat /\ i \in Nat
    BY <1>1
  <2>2. /\ GroupAt(m + 1) = ApplyToTree(GroupAt(m), log[m + 1])
        /\ GroupAt(m) \in Leaves /\ log[m + 1] \in GroupEvent
    BY <2>1, GroupGrows
  <2>3. CASE m + 1 < i
    BY <2>1, <2>3
  <2>4. CASE m + 1 = i
    <3>1. Member(c, GroupAt(m + 1))
      BY <2>2, <2>4, MemberStep DEF IssuedAt
    <3> QED BY <2>1, <3>1
  <2>5. CASE m + 1 > i
    <3>1. Member(c, GroupAt(m))
      BY <1>3, <2>1, <2>5
    <3>2. ~ RevokedAt(c, m + 1)
      BY <2>1, <2>5
    <3>3. Member(c, GroupAt(m + 1))
      BY <2>2, <3>1, <3>2, MemberStep DEF RevokedAt
    <3> QED BY <2>1, <3>3
  <2> QED BY <2>1, <2>3, <2>4, <2>5
<1>4. \A m \in 0..n : m \in T
  <2> HIDE DEF T
  <2>1. n \in Nat
    BY <1>1
  <2> QED BY <1>2, <1>3, <2>1, UpTo
<1>5. n \in 0..n /\ ~ (n < i)
  BY <1>1
<1> QED BY <1>4, <1>5

LEMMA MemberWasIssued ==
    ASSUME LogSound, NEW c \in Commitments, NEW n \in 0..Len(log), Member(c, GroupAt(n))
    PROVE  \E i \in 1..n : IssuedAt(c, i)
<1>1. Len(log) \in Nat /\ n \in Nat
  BY LogFacts
<1> DEFINE T == {m \in 0..n : Member(c, GroupAt(m)) => \E i \in 1..m : IssuedAt(c, i)}
<1>2. 0 \in T
  <2>1. ~ Member(c, GroupAt(0))
    <3>1. GroupAt(0) = <<>> /\ DOMAIN <<>> = {}
      BY GroupStart
    <3> QED BY <3>1 DEF Member, ToSet
  <2> QED BY <1>1, <2>1
<1>3. ASSUME NEW m \in 0..(n - 1), m \in T PROVE m + 1 \in T
  <2>1. m \in 0..(Len(log) - 1) /\ m + 1 \in 0..n /\ m \in Nat
    BY <1>1
  <2>2. m + 1 \in 1..(m + 1) /\ \A i \in 1..m : i \in 1..(m + 1)
    BY <2>1
  <2>3. /\ GroupAt(m + 1) = ApplyToTree(GroupAt(m), log[m + 1])
        /\ GroupAt(m) \in Leaves /\ log[m + 1] \in GroupEvent
    BY <2>1, GroupGrows
  <2>4. ASSUME Member(c, GroupAt(m + 1)) PROVE \E i \in 1..(m + 1) : IssuedAt(c, i)
    <3>1. Member(c, GroupAt(m)) \/ IssuedAt(c, m + 1)
      BY <2>3, <2>4, MemberStep DEF IssuedAt
    <3>2. CASE Member(c, GroupAt(m))
      <4>1. \E i \in 1..m : IssuedAt(c, i)
        BY <1>3, <3>2
      <4> QED BY <2>2, <4>1
    <3> QED BY <2>2, <3>1, <3>2
  <2> QED BY <2>1, <2>4
<1>4. \A m \in 0..n : m \in T
  <2> HIDE DEF T
  <2> QED BY <1>1, <1>2, <1>3, UpTo
<1>5. n \in 0..n
  BY <1>1
<1> QED BY <1>4, <1>5

-----------------------------------------------------------------------------
(* The contract issues what is not in the group and revokes what is.       *)

LawfulEvent(e, leaves) == IF e.kind = Issued THEN ~ Member(e.commitment, leaves) ELSE Member(e.commitment, leaves)
Lawful == \A n \in 1..Len(log) : LawfulEvent(log[n], GroupAt(n - 1))

ChainLaw == LogSound /\ log \in Seq(Event) /\ head \in 0..MaxBlocks /\ Lawful

LEMMA EventIs ==
    /\ Event \subseteq GroupEvent
    /\ \A e \in Event : e.block \in Nat /\ e.block >= 1 /\ e.block <= MaxBlocks
<1>1. \A b \in 1..MaxBlocks : b \in Nat /\ b >= 1 /\ b <= MaxBlocks
  BY GroupMembersAssumption
<1>2. Event \subseteq GroupEvent
  BY <1>1 DEF Event, GroupEvent
<1>3. \A e \in Event : e.block \in 1..MaxBlocks
  BY DEF Event
<1> QED BY <1>1, <1>2, <1>3

LEMMA LawDates == ASSUME ChainLaw PROVE Dated /\ LogSound
<1>1. log \in Seq(Event) /\ DOMAIN log = 1..Len(log)
  BY LogFacts DEF ChainLaw
<1>2. \A i \in DOMAIN log : log[i] \in Event
  BY <1>1, ElementOfSeq
<1> QED BY <1>2, EventIs DEF ChainLaw, Dated

LEMMA KindIs == ASSUME LogSound, NEW i \in 1..Len(log) PROVE log[i].kind = Issued \/ log[i].kind = Revoked
<1>1. log[i] \in GroupEvent
  BY LogFacts, ElementOfSeq
<1> QED BY <1>1 DEF GroupEvent

(* Between two issuances of a commitment it is revoked.                    *)
LEMMA RevokedBetween ==
    ASSUME LogSound, Lawful, NEW c \in Commitments, NEW i \in 1..Len(log), NEW j \in 1..Len(log),
           i < j, IssuedAt(c, i), IssuedAt(c, j)
    PROVE  \E k \in (i + 1)..(j - 1) : RevokedAt(c, k)
<1>1. j - 1 \in i..Len(log)
  BY LogFacts
<1>2. ~ Member(c, GroupAt(j - 1))
  BY DEF Lawful, LawfulEvent, IssuedAt
<1> QED BY <1>1, <1>2, ActiveStays

(* What is revoked was issued before.                                      *)
LEMMA IssuedBefore ==
    ASSUME LogSound, Lawful, NEW c \in Commitments, NEW j \in 1..Len(log), RevokedAt(c, j)
    PROVE  \E i \in 1..(j - 1) : IssuedAt(c, i)
<1>1. j - 1 \in 0..Len(log)
  BY LogFacts
<1>2. Member(c, GroupAt(j - 1))
  BY DEF Lawful, LawfulEvent, RevokedAt
<1> QED BY <1>1, <1>2, MemberWasIssued

(* A block of lawful events.                                               *)
LawfulMined ==
    \E events \in Seq(Event) :
        /\ head < MaxBlocks /\ head' = head + 1 /\ log' = log \o events
        /\ \A k \in 1..Len(events) : /\ events[k].block = head + 1
                                     /\ LawfulEvent(events[k], Tree(log \o SubSeq(events, 1, k - 1)))

LawStep == UNCHANGED <<log, head>> \/ LawfulMined

LEMMA PrefixOfConcat ==
    ASSUME NEW S, NEW s \in Seq(S), NEW t \in Seq(S), NEW n \in 0..Len(t)
    PROVE  SubSeq(s \o t, 1, Len(s) + n) = s \o SubSeq(t, 1, n)
<1>1. s \o t \in Seq(S) /\ Len(s \o t) = Len(s) + Len(t) /\ Len(s) \in Nat /\ Len(t) \in Nat
      /\ \A i \in 1..(Len(s) + Len(t)) : (s \o t)[i] = IF i <= Len(s) THEN s[i] ELSE t[i - Len(s)]
  BY ConcatProperties
<1>2. PICK a \in Nat, b \in Nat : a = Len(s) /\ b = Len(t)
  BY <1>1
<1>3. PICK st \in Seq(S) : st = s \o t
  BY <1>1
<1>4. /\ Len(st) = a + b
      /\ \A i \in 1..(a + b) : st[i] \in S /\ st[i] = IF i <= a THEN s[i] ELSE t[i - a]
  BY <1>1, <1>2, <1>3, ElementOfSeq
<1>5. n \in 0..b /\ \A i \in 1..b : t[i] \in S
  BY <1>2, ElementOfSeq
<1>6. PICK tn : tn = SubSeq(t, 1, n)
  OBVIOUS
<1>7. tn \in Seq(S) /\ Len(tn) = n /\ \A i \in 1..n : tn[i] = t[i]
  <2>1. 1 \in Int /\ n \in Int /\ \A i \in 1..n : t[i] \in S
    BY <1>5
  <2>2. /\ SubSeq(t, 1, n) \in Seq(S) /\ Len(SubSeq(t, 1, n)) = IF 1 <= n THEN n - 1 + 1 ELSE 0
        /\ \A i \in 1..(n - 1 + 1) : SubSeq(t, 1, n)[i] = t[1 + i - 1]
    BY <2>1, SubSeqProperties
  <2>3. n - 1 + 1 = n /\ (~ (1 <= n) => n = 0) /\ \A i \in 1..n : 1 + i - 1 = i
    BY <1>5
  <2> QED BY <1>6, <2>2, <2>3
<1>8. PICK u : u = SubSeq(st, 1, a + n)
  OBVIOUS
<1>9. u \in Seq(S) /\ Len(u) = a + n /\ \A i \in 1..(a + n) : u[i] = st[i]
  <2>1. 1 \in Int /\ a + n \in Int /\ \A i \in 1..(a + n) : st[i] \in S
    BY <1>4, <1>5
  <2>2. /\ SubSeq(st, 1, a + n) \in Seq(S)
        /\ Len(SubSeq(st, 1, a + n)) = IF 1 <= a + n THEN a + n - 1 + 1 ELSE 0
        /\ \A i \in 1..(a + n - 1 + 1) : SubSeq(st, 1, a + n)[i] = st[1 + i - 1]
    BY <2>1, SubSeqProperties
  <2>3. /\ a + n - 1 + 1 = a + n /\ (~ (1 <= a + n) => a + n = 0)
        /\ \A i \in 1..(a + n) : 1 + i - 1 = i
    BY <1>5
  <2> QED BY <1>8, <2>2, <2>3
<1>10. PICK v : v = s \o tn
  OBVIOUS
<1>11. v \in Seq(S) /\ Len(v) = a + n /\ \A i \in 1..(a + n) : v[i] = IF i <= a THEN s[i] ELSE tn[i - a]
  BY <1>2, <1>7, <1>10, ConcatProperties
<1>12. \A i \in 1..(a + n) : u[i] = v[i]
  <2> TAKE i \in 1..(a + n)
  <2>1. i \in 1..(a + b)
    BY <1>5
  <2>2. CASE i <= a
    BY <1>4, <1>9, <1>11, <2>1, <2>2
  <2>3. CASE ~ (i <= a)
    <3>1. i - a \in 1..n
      BY <2>3
    <3> QED BY <1>4, <1>7, <1>9, <1>11, <2>1, <2>3, <3>1
  <2> QED BY <2>2, <2>3
<1>13. u = v
  BY <1>9, <1>11, <1>12, SeqEqual
<1> QED BY <1>2, <1>3, <1>6, <1>8, <1>10, <1>13

LEMMA LawKept ==
    ASSUME ChainLaw, LawStep
    PROVE  ChainLaw' /\ ChainStep
<1>1. CASE UNCHANGED <<log, head>>
  BY <1>1 DEF ChainLaw, LogSound, Lawful, GroupAt, ChainStep
<1>2. CASE LawfulMined
  <2> PICK events \in Seq(Event) :
        /\ head < MaxBlocks /\ head' = head + 1 /\ log' = log \o events
        /\ \A k \in 1..Len(events) : /\ events[k].block = head + 1
                                     /\ LawfulEvent(events[k], Tree(log \o SubSeq(events, 1, k - 1)))
    BY <1>2 DEF LawfulMined
  <2>1. /\ LogSound /\ log \in Seq(Event) /\ head \in 0..MaxBlocks
        /\ log \in Seq(GroupEvent) /\ events \in Seq(GroupEvent)
    BY EventIs, SeqMonotonic, LogFacts DEF ChainLaw
  <2>2. ChainStep
    <3>1. DOMAIN events = 1..Len(events)
      BY <2>1, LenProperties
    <3>2. Mined
      BY <2>1, <3>1 DEF Mined
    <3> QED BY <3>2 DEF ChainStep
  <2>3. LogSound' /\ \A n \in 1..Len(log) : n \in 1..Len(log') /\ SubSeq(log', 1, n) = SubSeq(log, 1, n)
    BY <2>1, <2>2, LogStep
  <2>4. PICK a \in Nat, b \in Nat : a = Len(log) /\ b = Len(events)
    BY <2>1
  <2>5. /\ log' \in Seq(Event) /\ Len(log') = a + b
        /\ \A i \in 1..(a + b) : log'[i] = IF i <= a THEN log[i] ELSE events[i - a]
    BY <2>1, <2>4, ConcatProperties
  <2>6. head' \in 0..MaxBlocks
    BY <2>1, GroupMembersAssumption
  <2>7. Lawful'
    <3>1. ASSUME NEW n \in 1..(a + b)
          PROVE  LawfulEvent(log'[n], Tree(SubSeq(log', 1, n - 1)))
      <4>1. CASE n <= a
        <5>1. n \in 1..a /\ log'[n] = log[n]
          BY <2>5, <4>1
        <5>2. SubSeq(log', 1, n - 1) = SubSeq(log, 1, n - 1)
          <6>1. CASE n = 1
            BY <6>1, SubSeqEmpty
          <6>2. CASE n # 1
            <7>1. n - 1 \in 1..a
              BY <4>1, <6>2
            <7> QED BY <2>3, <2>4, <7>1
          <6> QED BY <6>1, <6>2
        <5>3. LawfulEvent(log[n], Tree(SubSeq(log, 1, n - 1)))
          BY <2>4, <5>1 DEF ChainLaw, Lawful, GroupAt
        <5> QED BY <5>1, <5>2, <5>3
      <4>2. CASE ~ (n <= a)
        <5>1. PICK k : k = n - a
          OBVIOUS
        <5>2. k \in 1..b /\ log'[n] = events[k] /\ k - 1 \in 0..b /\ a + (k - 1) = n - 1
          BY <2>5, <4>2, <5>1
        <5>3. SubSeq(log \o events, 1, Len(log) + (k - 1)) = log \o SubSeq(events, 1, k - 1)
          BY <2>1, <2>4, <5>2, PrefixOfConcat
        <5>4. SubSeq(log', 1, n - 1) = log \o SubSeq(events, 1, k - 1)
          BY <2>4, <5>2, <5>3
        <5>5. LawfulEvent(events[k], Tree(log \o SubSeq(events, 1, k - 1)))
          BY <2>4, <5>2
        <5> QED BY <5>2, <5>4, <5>5
      <4> QED BY <4>1, <4>2
    <3> QED BY <2>5, <3>1 DEF Lawful, GroupAt
  <2> QED BY <2>2, <2>3, <2>5, <2>6, <2>7 DEF ChainLaw
<1> QED BY <1>1, <1>2 DEF LawStep

(* The transactions of the issuers and of DemoIssuer.                      *)
LEMMA OnlyEvent ==
    ASSUME ChainLaw, NEW e, e \in Event, e.block = head + 1, head < MaxBlocks, LawfulEvent(e, OnChain),
           head' = head + 1, log' = log \o <<e>>
    PROVE  LawStep
<1>1. <<e>> \in Seq(Event) /\ Len(<<e>>) = 1 /\ <<e>>[1] = e
  OBVIOUS
<1>2. log \o SubSeq(<<e>>, 1, 0) = log
  <2>1. SubSeq(<<e>>, 1, 0) = <<>>
    BY SubSeqEmpty
  <2> QED BY <2>1, LogFacts, ConcatEmptySeq DEF ChainLaw
<1>3. PICK events \in Seq(Event) : events = <<e>>
  BY <1>1
<1>4. /\ log' = log \o events /\ Len(events) = 1 /\ events[1] = e
      /\ log \o SubSeq(events, 1, 0) = log
  BY <1>1, <1>2, <1>3
<1>5. ASSUME NEW k \in 1..Len(events)
      PROVE  /\ events[k].block = head + 1
             /\ LawfulEvent(events[k], Tree(log \o SubSeq(events, 1, k - 1)))
  <2>1. k = 1 /\ k - 1 = 0
    BY <1>4
  <2> QED BY <1>4, <2>1 DEF OnChain
<1> QED BY <1>4, <1>5 DEF LawStep, LawfulMined

LEMMA TransactionLawful ==
    ASSUME ChainLaw, head < MaxBlocks, NEW c \in Traded, NEW leaves \in Leaves
    PROVE  /\ Transaction(c, head + 1, leaves) \in Event
           /\ Transaction(c, head + 1, leaves).block = head + 1
           /\ LawfulEvent(Transaction(c, head + 1, leaves), leaves)
<1>1. head + 1 \in 1..MaxBlocks
  BY GroupMembersAssumption DEF ChainLaw
<1>2. c \in Commitments
  BY DemoClientsAssumption
<1>3. PICK e : e = Transaction(c, head + 1, leaves)
  OBVIOUS
<1>4. e.block = head + 1 /\ e.commitment = c
  BY <1>3 DEF Transaction
<1>5. e \in Event
  BY <1>1, <1>2, <1>3 DEF Transaction, Event
<1>6. LawfulEvent(e, leaves)
  <2>1. CASE PositionOf(leaves, c) = 0
    <3>1. e.kind = Issued
      BY <1>3, <2>1 DEF Transaction
    <3>2. ~ Member(c, leaves)
      BY <2>1, RemovalIs DEF Member
    <3> QED BY <1>4, <3>1, <3>2 DEF LawfulEvent
  <2>2. CASE PositionOf(leaves, c) # 0
    <3>1. e.kind # Issued
      BY <1>3, <2>2 DEF Transaction, Issued, Revoked
    <3>2. Member(c, leaves)
      BY <2>2, RemovalIs, MemberIs
    <3> QED BY <1>4, <3>1, <3>2 DEF LawfulEvent
  <2> QED BY <2>1, <2>2
<1> QED BY <1>3, <1>4, <1>5, <1>6

LEMMA PairOf == ASSUME NEW S, NEW e \in S, NEW f \in S PROVE <<e, f>> \in Seq(S)
OBVIOUS

LEMMA TransactionsLawful ==
    ASSUME ChainLaw, OneTransaction \/ TwoTransactions
    PROVE  LawStep
<1>1. log \in Seq(GroupEvent) /\ OnChain \in Leaves
  BY LogFacts, TreeTyped DEF ChainLaw, OnChain
<1>2. CASE OneTransaction
  <2> PICK c \in Traded : MineBlock(<<Transaction(c, head + 1, OnChain)>>)
    BY <1>2 DEF OneTransaction
  <2>1. PICK e : e = Transaction(c, head + 1, OnChain)
    OBVIOUS
  <2>2. head < MaxBlocks /\ head' = head + 1 /\ log' = log \o <<e>>
    BY <2>1 DEF MineBlock
  <2>3. e \in Event /\ e.block = head + 1 /\ LawfulEvent(e, OnChain)
    BY <1>1, <2>1, <2>2, TransactionLawful
  <2> QED BY <2>2, <2>3, OnlyEvent
<1>3. CASE TwoTransactions
  <2> PICK c \in Traded, d \in Traded :
          MineBlock(<<Transaction(c, head + 1, OnChain),
                      Transaction(d, head + 1, ApplyToTree(OnChain, Transaction(c, head + 1, OnChain)))>>)
    BY <1>3 DEF TwoTransactions
  <2>1. PICK e : e = Transaction(c, head + 1, OnChain)
    OBVIOUS
  <2>2. PICK leaves : leaves = ApplyToTree(OnChain, e)
    OBVIOUS
  <2>3. PICK f : f = Transaction(d, head + 1, leaves)
    OBVIOUS
  <2>4. head < MaxBlocks /\ head' = head + 1 /\ log' = log \o <<e, f>>
    BY <2>1, <2>2, <2>3 DEF MineBlock
  <2>5. e \in Event /\ e.block = head + 1 /\ LawfulEvent(e, OnChain)
    BY <1>1, <2>1, <2>4, TransactionLawful
  <2>6. leaves \in Leaves /\ e \in GroupEvent
    BY <1>1, <2>2, <2>5, EventIs, StillLeaves
  <2>7. f \in Event /\ f.block = head + 1 /\ LawfulEvent(f, leaves)
    BY <2>3, <2>4, <2>6, TransactionLawful
  <2>8. Tree(Append(log, e)) = leaves
    BY <1>1, <2>2, <2>6, TreeGrows DEF OnChain
  <2>9. log \o <<e>> = Append(log, e)
    BY <1>1, <2>6, AppendIsConcat
  <2>10. PICK events \in Seq(Event) : events = <<e, f>>
    BY <2>5, <2>7, PairOf
  <2>11. /\ log' = log \o events /\ Len(events) = 2 /\ events[1] = e /\ events[2] = f
    BY <2>4, <2>10
  <2>12. log \o SubSeq(events, 1, 0) = log
    <3>1. SubSeq(events, 1, 0) = <<>>
      BY SubSeqEmpty
    <3> QED BY <1>1, <3>1, ConcatEmptySeq
  <2>13. log \o SubSeq(events, 1, 1) = Append(log, e)
    <3>1. SubSeq(events, 1, 1) = <<e>>
      <4>1. 0 \in 0..(Len(events) - 1) /\ 0 + 1 = 1
        BY <2>11
      <4>2. SubSeq(events, 1, 0 + 1) = Append(SubSeq(events, 1, 0), events[0 + 1])
        BY <4>1, PrefixGrows
      <4>3. SubSeq(events, 1, 0) = <<>>
        BY SubSeqEmpty
      <4>4. SubSeq(events, 1, 1) = Append(<<>>, e)
        BY <2>11, <4>1, <4>2, <4>3, Zenon
      <4>5. Append(<<>>, e) = <<e>>
        OBVIOUS
      <4> QED BY <4>4, <4>5
    <3> QED BY <2>9, <3>1, Zenon
  <2>14. ASSUME NEW k \in 1..Len(events)
         PROVE  /\ events[k].block = head + 1
                /\ LawfulEvent(events[k], Tree(log \o SubSeq(events, 1, k - 1)))
    <3>1. CASE k = 1
      <4>1. k - 1 = 0 /\ events[k] = e
        BY <2>11, <3>1
      <4>2. LawfulEvent(events[k], Tree(log \o SubSeq(events, 1, k - 1)))
        BY <2>5, <2>12, <4>1, Zenon DEF OnChain
      <4> QED BY <2>5, <4>1, <4>2
    <3>2. CASE k = 2
      <4>1. k - 1 = 1 /\ events[k] = f
        BY <2>11, <3>2
      <4>2. LawfulEvent(events[k], Tree(log \o SubSeq(events, 1, k - 1)))
        BY <2>7, <2>8, <2>13, <4>1, Zenon
      <4> QED BY <2>7, <4>1, <4>2
    <3>3. k = 1 \/ k = 2
      BY <2>11
    <3> QED BY <3>1, <3>2, <3>3
  <2> QED BY <2>4, <2>11, <2>14 DEF LawStep, LawfulMined
<1> QED BY <1>2, <1>3

LEMMA SelfIssueLawful ==
    ASSUME ChainLaw, NEW w, NEW c \in Commitments, SelfIssue(w, c)
    PROVE  LawStep
<1>1. PICK e : e = [kind |-> Issued, commitment |-> c, block |-> head + 1]
  OBVIOUS
<1>2. head < MaxBlocks /\ head' = head + 1 /\ log' = log \o <<e>> /\ c \notin ActiveOnChain
  BY <1>1 DEF SelfIssue, MineBlock, SelfIssueReverts
<1>3. head + 1 \in 1..MaxBlocks
  BY <1>2, GroupMembersAssumption DEF ChainLaw
<1>4. e \in Event
  BY <1>1, <1>3 DEF Event
<1>5. e.block = head + 1 /\ e.kind = Issued /\ e.commitment = c
  BY <1>1
<1>6. ~ Member(c, OnChain)
  BY <1>2, GroupMembersAssumption DEF ActiveOnChain, Member
<1>7. LawfulEvent(e, OnChain)
  BY <1>5, <1>6 DEF LawfulEvent
<1> QED BY <1>2, <1>4, <1>5, <1>7, OnlyEvent

-----------------------------------------------------------------------------
(* All issuances before all revocations build the same tree.               *)

LEMMA RemoveInAppend ==
    ASSUME NEW leaves \in Leaves, NEW c, Member(c, leaves), NEW d \in Leaf
    PROVE  RemoveMember(Append(leaves, d), c) = Append(RemoveMember(leaves, c), d)
<1>1. PICK n \in Nat : n = Len(leaves)
  BY DEF Leaves
<1>2. PICK k \in 1..n : /\ leaves[k] = c /\ \A j \in 1..n : j < k => leaves[j] # c
                        /\ RemoveMember(leaves, c) = [leaves EXCEPT ![k] = None]
  BY <1>1, RemovalIs DEF Member
<1>3. PICK more : more = Append(leaves, d)
  OBVIOUS
<1>4. /\ more \in Leaves /\ Len(more) = n + 1 /\ more[n + 1] = d
      /\ \A j \in 1..n : more[j] = leaves[j]
  BY <1>1, <1>3, AppendProperties DEF Leaves
<1>5. k \in 1..(n + 1) /\ more[k] = c
  BY <1>2, <1>4
<1>6. Member(c, more)
  BY <1>4, <1>5, MemberIs
<1>7. PICK m \in 1..(n + 1) : /\ more[m] = c /\ \A j \in 1..(n + 1) : j < m => more[j] # c
                              /\ RemoveMember(more, c) = [more EXCEPT ![m] = None]
  BY <1>4, <1>6, RemovalIs DEF Member
<1>8. m = k
  <2>1. ~ (k < m)
    BY <1>5, <1>7
  <2>2. ~ (m < k)
    <3>1. ASSUME m < k PROVE FALSE
      <4>1. m \in 1..n
        BY <3>1
      <4> QED BY <1>2, <1>4, <1>7, <3>1, <4>1
    <3> QED BY <3>1
  <2> QED BY <2>1, <2>2
<1>9. PICK u : u = [more EXCEPT ![k] = None]
  OBVIOUS
<1>10. PICK w : w = [leaves EXCEPT ![k] = None]
  OBVIOUS
<1>11. None \in Leaf
  BY DEF Leaf
<1>12. /\ u \in Seq(Leaf) /\ Len(u) = n + 1
       /\ \A j \in 1..(n + 1) : u[j] = IF j = k THEN None ELSE more[j]
  BY <1>4, <1>5, <1>9, <1>11, ExceptSeq DEF Leaves
<1>13. w \in Seq(Leaf) /\ Len(w) = n /\ \A j \in 1..n : w[j] = IF j = k THEN None ELSE leaves[j]
  BY <1>1, <1>2, <1>10, <1>11, ExceptSeq DEF Leaves
<1>14. PICK v : v = Append(w, d)
  OBVIOUS
<1>15. v \in Seq(Leaf) /\ Len(v) = n + 1 /\ v[n + 1] = d /\ \A j \in 1..n : v[j] = w[j]
  BY <1>13, <1>14, AppendProperties
<1>16. \A j \in 1..(n + 1) : u[j] = v[j]
  <2> TAKE j \in 1..(n + 1)
  <2>1. CASE j \in 1..n
    BY <1>4, <1>12, <1>13, <1>15, <2>1
  <2>2. CASE j = n + 1
    BY <1>2, <1>4, <1>12, <1>15, <2>2
  <2> QED BY <2>1, <2>2
<1>17. u = v
  BY <1>12, <1>15, <1>16, SeqEqual
<1> QED BY <1>2, <1>3, <1>7, <1>8, <1>9, <1>10, <1>14, <1>17

LEMMA MemberOfMore ==
    ASSUME NEW leaves \in Leaves, NEW c, Member(c, leaves), NEW d
    PROVE  Member(c, Append(leaves, d))
<1>1. PICK n \in Nat : n = Len(leaves)
  BY DEF Leaves
<1>2. PICK k \in 1..n : leaves[k] = c
  BY <1>1, MemberIs
<1>3. PICK more : more = Append(leaves, d)
  OBVIOUS
<1>4. DOMAIN more = 1..(n + 1) /\ more[k] = c /\ k \in 1..(n + 1)
  BY <1>1, <1>2, <1>3 DEF Leaves
<1> QED BY <1>3, <1>4 DEF Member, ToSet

LEMMA TreeOfBoth ==
    ASSUME NEW I \in Seq(GroupEvent), NEW R \in Seq(GroupEvent), NEW j \in 0..(Len(R) - 1)
    PROVE  /\ Tree(I \o SubSeq(R, 1, j + 1)) = ApplyToTree(Tree(I \o SubSeq(R, 1, j)), R[j + 1])
           /\ Tree(I \o SubSeq(R, 1, j)) \in Leaves /\ R[j + 1] \in GroupEvent
<1>1. PICK p \in Seq(GroupEvent), e \in GroupEvent :
          p = SubSeq(R, 1, j) /\ e = R[j + 1] /\ SubSeq(R, 1, j + 1) = Append(p, e)
  <2>1. R[j + 1] \in GroupEvent
    BY ElementOfSeq
  <2> QED BY <2>1, PrefixGrows
<1>2. I \o Append(p, e) = Append(I \o p, e) /\ I \o p \in Seq(GroupEvent)
  BY AppendConcat, ConcatProperties
<1>3. Tree(Append(I \o p, e)) = ApplyToTree(Tree(I \o p), e) /\ Tree(I \o p) \in Leaves
  BY <1>2, TreeGrows, TreeTyped
<1> QED BY <1>1, <1>2, <1>3

(* Every revocation finds the leaf it clears.                              *)
Clears(I, R) ==
    \A j \in 1..Len(R) : R[j].kind # Issued /\ Member(R[j].commitment, Tree(I \o SubSeq(R, 1, j - 1)))

LEMMA IssueLast ==
    ASSUME NEW I \in Seq(GroupEvent), NEW R \in Seq(GroupEvent), NEW e \in GroupEvent,
           e.kind = Issued, Clears(I, R)
    PROVE  \A j \in 0..Len(R) :
               Tree(Append(I, e) \o SubSeq(R, 1, j)) = Append(Tree(I \o SubSeq(R, 1, j)), e.commitment)
<1>1. PICK J \in Seq(GroupEvent) : J = Append(I, e)
  BY AppendProperties
<1>2. PICK n \in Nat : n = Len(R)
  OBVIOUS
<1>3. e.commitment \in Leaf
  BY DEF GroupEvent, Leaf
<1> DEFINE T == {j \in 0..n : Tree(J \o SubSeq(R, 1, j)) = Append(Tree(I \o SubSeq(R, 1, j)), e.commitment)}
<1>4. 0 \in T
  <2>1. SubSeq(R, 1, 0) = <<>>
    BY SubSeqEmpty
  <2>2. J \o <<>> = J /\ I \o <<>> = I
    BY ConcatEmptySeq
  <2>3. Tree(J) = ApplyToTree(Tree(I), e)
    BY <1>1, TreeGrows
  <2>4. Tree(J) = Append(Tree(I), e.commitment)
    BY <2>3 DEF ApplyToTree
  <2>5. Tree(J \o SubSeq(R, 1, 0)) = Append(Tree(I \o SubSeq(R, 1, 0)), e.commitment)
    BY <2>1, <2>2, <2>4, Zenon
  <2>6. 0 \in 0..n
    OBVIOUS
  <2> QED BY <2>5, <2>6
<1>5. ASSUME NEW j \in 0..(n - 1), j \in T PROVE j + 1 \in T
  <2>1. j + 1 \in 1..n /\ j + 1 \in 0..n /\ (j + 1) - 1 = j /\ j \in 0..(Len(R) - 1)
    BY <1>2
  <2>2. PICK t \in Leaves, u \in Leaves, r \in GroupEvent :
            /\ t = Tree(I \o SubSeq(R, 1, j)) /\ u = Tree(J \o SubSeq(R, 1, j)) /\ r = R[j + 1]
            /\ Tree(I \o SubSeq(R, 1, j + 1)) = ApplyToTree(t, r)
            /\ Tree(J \o SubSeq(R, 1, j + 1)) = ApplyToTree(u, r)
    <3>1. /\ Tree(I \o SubSeq(R, 1, j + 1)) = ApplyToTree(Tree(I \o SubSeq(R, 1, j)), R[j + 1])
          /\ Tree(I \o SubSeq(R, 1, j)) \in Leaves /\ R[j + 1] \in GroupEvent
      BY <2>1, TreeOfBoth
    <3>2. /\ Tree(J \o SubSeq(R, 1, j + 1)) = ApplyToTree(Tree(J \o SubSeq(R, 1, j)), R[j + 1])
          /\ Tree(J \o SubSeq(R, 1, j)) \in Leaves
      BY <2>1, TreeOfBoth
    <3> QED BY <3>1, <3>2
  <2>3. r.kind # Issued /\ Member(r.commitment, t)
    BY <1>2, <2>1, <2>2 DEF Clears
  <2>4. u = Append(t, e.commitment)
    BY <1>5, <2>2
  <2>5. ApplyToTree(u, r) = RemoveMember(u, r.commitment) /\ ApplyToTree(t, r) = RemoveMember(t, r.commitment)
    BY <2>3 DEF ApplyToTree
  <2>6. RemoveMember(Append(t, e.commitment), r.commitment) = Append(RemoveMember(t, r.commitment), e.commitment)
    BY <1>3, <2>3, RemoveInAppend
  <2>7. Tree(J \o SubSeq(R, 1, j + 1)) = Append(Tree(I \o SubSeq(R, 1, j + 1)), e.commitment)
    BY <2>2, <2>4, <2>5, <2>6, Zenon
  <2> QED BY <2>1, <2>7
<1>6. \A j \in 0..n : j \in T
  <2> HIDE DEF T
  <2> QED BY <1>4, <1>5, UpTo
<1> QED BY <1>1, <1>2, <1>6

LEMMA StillClears ==
    ASSUME NEW I \in Seq(GroupEvent), NEW R \in Seq(GroupEvent), NEW e \in GroupEvent,
           e.kind = Issued, Clears(I, R)
    PROVE  /\ Clears(Append(I, e), R)
           /\ Tree(Append(I, e) \o R) = Append(Tree(I \o R), e.commitment)
<1>1. PICK J \in Seq(GroupEvent) : J = Append(I, e)
  BY AppendProperties
<1>2. \A j \in 0..Len(R) : Tree(J \o SubSeq(R, 1, j)) = Append(Tree(I \o SubSeq(R, 1, j)), e.commitment)
  BY <1>1, IssueLast
<1>3. Len(R) \in 0..Len(R) /\ SubSeq(R, 1, Len(R)) = R
  BY SubSeqFull
<1>4. ASSUME NEW j \in 1..Len(R)
      PROVE  R[j].kind # Issued /\ Member(R[j].commitment, Tree(J \o SubSeq(R, 1, j - 1)))
  <2>1. R[j].kind # Issued /\ Member(R[j].commitment, Tree(I \o SubSeq(R, 1, j - 1)))
    BY DEF Clears
  <2>2. PICK i : i = j - 1
    OBVIOUS
  <2>3. i \in 0..(Len(R) - 1) /\ i \in 0..Len(R)
    BY <2>2
  <2>4. PICK t \in Leaves : t = Tree(I \o SubSeq(R, 1, i))
    BY <2>3, TreeOfBoth
  <2>5. Tree(J \o SubSeq(R, 1, i)) = Append(t, e.commitment)
    BY <1>2, <2>3, <2>4
  <2>6. Member(R[j].commitment, t)
    BY <2>1, <2>2, <2>4
  <2>7. Member(R[j].commitment, Append(t, e.commitment))
    BY <2>6, MemberOfMore
  <2> QED BY <2>1, <2>2, <2>5, <2>7
<1> QED BY <1>1, <1>2, <1>3, <1>4 DEF Clears

LEMMA RevokeLast ==
    ASSUME NEW I \in Seq(GroupEvent), NEW R \in Seq(GroupEvent), NEW e \in GroupEvent,
           e.kind # Issued, Clears(I, R), Member(e.commitment, Tree(I \o R))
    PROVE  /\ Clears(I, Append(R, e))
           /\ Tree(I \o Append(R, e)) = ApplyToTree(Tree(I \o R), e)
<1>1. PICK n \in Nat : n = Len(R)
  OBVIOUS
<1>2. PICK S \in Seq(GroupEvent) : S = Append(R, e)
  BY AppendProperties
<1>3. Len(S) = n + 1 /\ S[n + 1] = e /\ \A i \in 1..n : S[i] = R[i]
  BY <1>1, <1>2, AppendProperties
<1>4. \A i \in 0..n : SubSeq(S, 1, i) = SubSeq(R, 1, i)
  <2> TAKE i \in 0..n
  <2>1. CASE i = 0
    BY <2>1, SubSeqEmpty
  <2>2. CASE i # 0
    <3>1. R \o <<e>> = S /\ <<e>> \in Seq(GroupEvent)
      BY <1>2, AppendIsConcat
    <3>2. 1 \in 1..Len(R) /\ i \in 1..Len(R)
      BY <1>1, <2>2
    <3>3. SubSeq(R \o <<e>>, 1, i) = SubSeq(R, 1, i)
      BY <3>1, <3>2, SubSeqOfConcat1
    <3> QED BY <3>1, <3>3
  <2> QED BY <2>1, <2>2
<1>5. SubSeq(R, 1, n) = R
  BY <1>1, SubSeqFull
<1>6. I \o S = Append(I \o R, e) /\ I \o R \in Seq(GroupEvent)
  BY <1>2, AppendConcat, ConcatProperties
<1>7. Tree(I \o S) = ApplyToTree(Tree(I \o R), e)
  BY <1>6, TreeGrows
<1>8. ASSUME NEW j \in 1..(n + 1)
      PROVE  S[j].kind # Issued /\ Member(S[j].commitment, Tree(I \o SubSeq(S, 1, j - 1)))
  <2>1. PICK i : i = j - 1
    OBVIOUS
  <2>2. i \in 0..n
    BY <2>1
  <2>3. SubSeq(S, 1, j - 1) = SubSeq(R, 1, i)
    BY <1>4, <2>1, <2>2
  <2>4. CASE j \in 1..n
    <3>1. R[j].kind # Issued /\ Member(R[j].commitment, Tree(I \o SubSeq(R, 1, i)))
      BY <1>1, <2>1, <2>4 DEF Clears
    <3> QED BY <1>3, <2>3, <2>4, <3>1
  <2>5. CASE j = n + 1
    <3>1. i = n /\ S[j] = e
      BY <1>3, <2>1, <2>5
    <3> QED BY <1>5, <2>3, <3>1
  <2> QED BY <2>4, <2>5
<1> QED BY <1>2, <1>3, <1>7, <1>8 DEF Clears

LEMMA RebuiltIs ==
    ASSUME LogSound, Lawful, NEW F, FoundBy(F, Issued, 0, head), NEW G, FoundBy(G, Revoked, 0, head)
    PROVE  \A n \in 0..Len(log) : Tree(F[n] \o G[n]) = GroupAt(n)
<1>1. PICK N \in Nat : N = Len(log)
  BY LogFacts
<1>2. head \in Nat /\ \A i \in 1..N : log[i].block \in Nat /\ log[i].block <= head
  BY <1>1, LogFacts
<1>3. \A kind : \A i \in 1..N : Matches(log[i], kind, 0, head) <=> log[i].kind = kind
  BY <1>2 DEF Matches
<1>4. /\ F \in [0..N -> Seq(GroupEvent)] /\ F[0] = <<>>
      /\ \A i \in 1..N : F[i] = IF log[i].kind = Issued THEN Append(F[i - 1], log[i]) ELSE F[i - 1]
  BY <1>1, <1>3 DEF FoundBy
<1>5. /\ G \in [0..N -> Seq(GroupEvent)] /\ G[0] = <<>>
      /\ \A i \in 1..N : G[i] = IF log[i].kind = Revoked THEN Append(G[i - 1], log[i]) ELSE G[i - 1]
  BY <1>1, <1>3 DEF FoundBy
<1> DEFINE T == {n \in 0..N : Tree(F[n] \o G[n]) = GroupAt(n) /\ Clears(F[n], G[n])}
<1>6. 0 \in T
  <2>1. <<>> \o <<>> = <<>> /\ Len(<<>>) = 0 /\ 1..0 = {}
    BY ConcatEmptySeq
  <2>2. Tree(F[0] \o G[0]) = GroupAt(0)
    BY <1>4, <1>5, <2>1, GroupStart, EmptyTree
  <2>3. Clears(F[0], G[0])
    BY <1>5, <2>1 DEF Clears
  <2> QED BY <2>2, <2>3
<1>7. ASSUME NEW n \in 0..(N - 1), n \in T PROVE n + 1 \in T
  <2>1. n \in 0..N /\ n + 1 \in 0..N /\ n + 1 \in 1..N /\ (n + 1) - 1 = n /\ n \in 0..(Len(log) - 1)
    BY <1>1
  <2>2. PICK I \in Seq(GroupEvent), R \in Seq(GroupEvent), t \in Leaves, e \in GroupEvent :
            /\ I = F[n] /\ R = G[n] /\ t = GroupAt(n) /\ e = log[n + 1]
            /\ GroupAt(n + 1) = ApplyToTree(t, e)
    <3>1. /\ GroupAt(n + 1) = ApplyToTree(GroupAt(n), log[n + 1])
          /\ GroupAt(n) \in Leaves /\ log[n + 1] \in GroupEvent
      BY <2>1, GroupGrows
    <3>2. F[n] \in Seq(GroupEvent) /\ G[n] \in Seq(GroupEvent)
      BY <1>4, <1>5, <2>1
    <3> QED BY <3>1, <3>2
  <2>3. Tree(I \o R) = t /\ Clears(I, R)
    BY <1>7, <2>2
  <2>4. Issued # Revoked
    BY DEF Issued, Revoked
  <2>5. CASE e.kind = Issued
    <3>1. F[n + 1] = Append(I, e) /\ G[n + 1] = R
      BY <1>4, <1>5, <2>1, <2>2, <2>4, <2>5
    <3>2. Clears(Append(I, e), R) /\ Tree(Append(I, e) \o R) = Append(t, e.commitment)
      BY <2>3, <2>5, StillClears
    <3>3. GroupAt(n + 1) = Append(t, e.commitment)
      BY <2>2, <2>5 DEF ApplyToTree
    <3> QED BY <2>1, <3>1, <3>2, <3>3
  <2>6. CASE e.kind = Revoked
    <3>1. F[n + 1] = I /\ G[n + 1] = Append(R, e)
      BY <1>4, <1>5, <2>1, <2>2, <2>4, <2>6
    <3>2. e.kind # Issued
      BY <2>4, <2>6
    <3>3. Member(e.commitment, t)
      <4>1. LawfulEvent(log[n + 1], GroupAt((n + 1) - 1))
        BY <1>1, <2>1 DEF Lawful
      <4>2. LawfulEvent(e, t)
        BY <2>1, <2>2, <4>1
      <4> QED BY <3>2, <4>2 DEF LawfulEvent
    <3>4. Clears(I, Append(R, e)) /\ Tree(I \o Append(R, e)) = ApplyToTree(t, e)
      BY <2>3, <3>2, <3>3, RevokeLast
    <3> QED BY <2>1, <2>2, <3>1, <3>4
  <2>7. e.kind = Issued \/ e.kind = Revoked
    BY DEF GroupEvent
  <2> QED BY <2>5, <2>6, <2>7
<1>8. \A n \in 0..N : n \in T
  <2> HIDE DEF T
  <2> QED BY <1>6, <1>7, UpTo
<1> QED BY <1>1, <1>8

LEMMA FiltersExist ==
    ASSUME LogSound, NEW kind
    PROVE  \E F : FoundBy(F, kind, 0, head)
BY QueryFound

(* A tree rebuilt from scans up to the same block is the contract's.       *)
LEMMA RebuildIs ==
    ASSUME LogSound, Dated, Lawful, NEW latest \in Nat
    PROVE  BuildGroup(QueryFilterPaged(Issued, latest), QueryFilterPaged(Revoked, latest)) = Tree(EventsUpTo(latest))
<1>1. PICK F : FoundBy(F, Issued, 0, head)
  BY FiltersExist
<1>2. PICK G : FoundBy(G, Revoked, 0, head)
  BY FiltersExist
<1>3. QueryFilterPaged(Issued, latest) = F[Cut(latest)]
  BY <1>1, ScanIs
<1>4. QueryFilterPaged(Revoked, latest) = G[Cut(latest)]
  BY <1>2, ScanIs
<1>5. Cut(latest) \in 0..Len(log)
  <2>1. latest \in Int
    OBVIOUS
  <2> QED BY <2>1, CutIs
<1>6. Tree(F[Cut(latest)] \o G[Cut(latest)]) = GroupAt(Cut(latest))
  BY <1>1, <1>2, <1>5, RebuiltIs
<1>7. Tree(EventsUpTo(latest)) = GroupAt(Cut(latest))
  BY UpToIs DEF GroupAt
<1> QED BY <1>3, <1>4, <1>6, <1>7 DEF BuildGroup

-----------------------------------------------------------------------------
(* Whom getGroupMembers lists.                                             *)

ListedBy(f, issued, gone) ==
    /\ f \in [0..Len(issued) -> Seq(Commitments)] /\ f[0] = <<>>
    /\ \A n \in 1..Len(issued) :
          f[n] = IF issued[n].commitment \in gone THEN f[n - 1] ELSE Append(f[n - 1], issued[n].commitment)

Gone(revoked) == {revoked[i].commitment : i \in DOMAIN revoked}

LEMMA ListedSteps ==
    ASSUME NEW issued \in Seq(GroupEvent), NEW revoked
    PROVE  \E f : ListedBy(f, issued, Gone(revoked)) /\ GroupMembersOf(issued, revoked) = f[Len(issued)]
<1> DEFINE q == Len(issued)
           gone == Gone(revoked)
           t == CHOOSE f : f = [n \in 0..q |-> IF n = 0 THEN <<>>
                    ELSE IF issued[n].commitment \in gone THEN f[n - 1] ELSE Append(f[n - 1], issued[n].commitment)]
           step == [n \in 1..q |-> [v \in Seq(Commitments) |->
                    IF issued[n].commitment \in gone THEN v ELSE Append(v, issued[n].commitment)]]
<1>1. GroupMembersOf(issued, revoked) = t[q]
  BY DEF GroupMembersOf, Gone
<1>2. q \in Nat /\ \A n \in 1..q : issued[n].commitment \in Commitments
  <2>1. \A n \in 1..q : issued[n] \in GroupEvent
    BY ElementOfSeq
  <2> QED BY <2>1 DEF GroupEvent
<1> HIDE DEF q, gone
<1>3. << >> \in Seq(Commitments)
  OBVIOUS
<1>4. ASSUME NEW n \in 1..q, NEW v \in Seq(Commitments)
      PROVE  (IF issued[n].commitment \in gone THEN v ELSE Append(v, issued[n].commitment)) \in Seq(Commitments)
  BY <1>2, AppendProperties
<1>5. step \in [1..q -> [Seq(Commitments) -> Seq(Commitments)]]
  BY <1>4
<1>6. \A n \in 1..q : \A v \in Seq(Commitments) :
          step[n][v] = IF issued[n].commitment \in gone THEN v ELSE Append(v, issued[n].commitment)
  OBVIOUS
<1> HIDE DEF step
<1>7. PICK f : Computed(f, q, Seq(Commitments), <<>>, step)
  BY <1>2, <1>3, <1>5, StepsExist
<1>8. f \in [0..q -> Seq(Commitments)] /\ f[0] = <<>> /\ \A n \in 1..q : f[n] = step[n][f[n - 1]]
  BY <1>7 DEF Computed
<1>9. \A n \in 1..q : f[n] = IF issued[n].commitment \in gone THEN f[n - 1] ELSE Append(f[n - 1], issued[n].commitment)
  <2> TAKE n \in 1..q
  <2>1. n - 1 \in 0..q
    BY <1>2
  <2>2. f[n - 1] \in Seq(Commitments)
    BY <1>8, <2>1
  <2> QED BY <1>6, <1>8, <2>2
<1>10. \A n \in 0..q : n = 0 \/ n \in 1..q
  BY <1>2
<1>11. f = [n \in 0..q |-> IF n = 0 THEN <<>>
               ELSE IF issued[n].commitment \in gone THEN f[n - 1] ELSE Append(f[n - 1], issued[n].commitment)]
  <2>1. \A n \in 0..q : f[n] = IF n = 0 THEN <<>>
               ELSE IF issued[n].commitment \in gone THEN f[n - 1] ELSE Append(f[n - 1], issued[n].commitment)
    BY <1>8, <1>9, <1>10
  <2> QED BY <1>8, <2>1
<1>12. t = [n \in 0..q |-> IF n = 0 THEN <<>>
               ELSE IF issued[n].commitment \in gone THEN t[n - 1] ELSE Append(t[n - 1], issued[n].commitment)]
  BY <1>11
<1> HIDE DEF t
<1>13. t[0] = f[0] /\ \A n \in 1..q : t[n - 1] = f[n - 1] => t[n] = f[n]
  <2>1. t[0] = <<>>
    BY <1>2, <1>12
  <2>2. \A n \in 1..q : n \in 0..q /\ n # 0
    BY <1>2
  <2> QED BY <1>8, <1>9, <1>12, <2>1, <2>2
<1>14. t[q] = f[q]
  <2>1. q \in 0..q
    BY <1>2
  <2>2. \A n \in 0..q : t[n] = f[n]
    BY <1>2, <1>13, TheSame
  <2> QED BY <2>1, <2>2
<1>15. ListedBy(f, issued, Gone(revoked))
  BY <1>8, <1>9 DEF ListedBy, q, gone
<1> QED BY <1>1, <1>14, <1>15 DEF q

LEMMA ListedAre ==
    ASSUME NEW issued \in Seq(GroupEvent), NEW gone, NEW f, ListedBy(f, issued, gone)
    PROVE  \A n \in 0..Len(issued) : \A p \in 1..Len(f[n]) :
               \E i \in 1..n : f[n][p] = issued[i].commitment /\ f[n][p] \notin gone
<1>1. PICK N \in Nat : N = Len(issued)
  OBVIOUS
<1>2. /\ f \in [0..N -> Seq(Commitments)] /\ f[0] = <<>>
      /\ \A n \in 1..N :
          f[n] = IF issued[n].commitment \in gone THEN f[n - 1] ELSE Append(f[n - 1], issued[n].commitment)
  BY <1>1 DEF ListedBy
<1> DEFINE T == {n \in 0..N : \A p \in 1..Len(f[n]) :
                    \E i \in 1..n : f[n][p] = issued[i].commitment /\ f[n][p] \notin gone}
<1>3. 0 \in T
  <2>1. Len(f[0]) = 0 /\ 1..0 = {} /\ 0 \in 0..N
    BY <1>2
  <2> QED BY <2>1
<1>4. ASSUME NEW n \in 0..(N - 1), n \in T PROVE n + 1 \in T
  <2>1. n \in 0..N /\ n + 1 \in 0..N /\ n + 1 \in 1..N /\ (n + 1) - 1 = n /\ n \in Nat
    OBVIOUS
  <2>2. PICK u, v, c : u \in Seq(Commitments) /\ u = f[n] /\ v = f[n + 1] /\ c = issued[n + 1].commitment
    BY <1>2, <2>1
  <2>3. v = IF c \in gone THEN u ELSE Append(u, c)
    BY <1>2, <2>1, <2>2
  <2>4. \A p \in 1..Len(u) : \E i \in 1..n : u[p] = issued[i].commitment /\ u[p] \notin gone
    BY <1>4, <2>2
  <2>5. n + 1 \in 1..(n + 1) /\ \A i \in 1..n : i \in 1..(n + 1)
    BY <2>1
  <2>6. CASE c \in gone
    BY <2>1, <2>2, <2>3, <2>4, <2>5, <2>6
  <2>7. CASE c \notin gone
    <3>1. PICK m \in Nat : m = Len(u)
      OBVIOUS
    <3>2. Len(v) = m + 1 /\ v[m + 1] = c /\ \A p \in 1..m : v[p] = u[p]
      BY <2>3, <2>7, <3>1
    <3>3. \A p \in 1..(m + 1) : \E i \in 1..(n + 1) : v[p] = issued[i].commitment /\ v[p] \notin gone
      <4> TAKE p \in 1..(m + 1)
      <4>1. CASE p \in 1..m
        <5>1. PICK i \in 1..n : u[p] = issued[i].commitment /\ u[p] \notin gone
          BY <2>4, <3>1, <4>1
        <5> QED BY <2>5, <3>2, <4>1, <5>1
      <4>2. CASE p = m + 1
        BY <2>2, <2>5, <2>7, <3>2, <4>2
      <4> QED BY <4>1, <4>2
    <3>4. \A p \in 1..Len(v) : \E i \in 1..(n + 1) : v[p] = issued[i].commitment /\ v[p] \notin gone
      BY <3>2, <3>3
    <3> QED BY <2>1, <2>2, <3>4
  <2> QED BY <2>6, <2>7
<1>5. \A n \in 0..N : n \in T
  <2> HIDE DEF T
  <2> QED BY <1>3, <1>4, UpTo
<1> QED BY <1>1, <1>5

LEMMA ListedOnce ==
    ASSUME NEW issued \in Seq(GroupEvent), NEW gone, NEW f, ListedBy(f, issued, gone),
           \A i, j \in 1..Len(issued) : i < j /\ issued[i].commitment = issued[j].commitment =>
               issued[i].commitment \in gone
    PROVE  \A n \in 0..Len(issued) : \A p, q \in 1..Len(f[n]) : f[n][p] = f[n][q] => p = q
<1>1. PICK N \in Nat : N = Len(issued)
  OBVIOUS
<1>2. /\ f \in [0..N -> Seq(Commitments)] /\ f[0] = <<>>
      /\ \A n \in 1..N :
          f[n] = IF issued[n].commitment \in gone THEN f[n - 1] ELSE Append(f[n - 1], issued[n].commitment)
  BY <1>1 DEF ListedBy
<1> DEFINE T == {n \in 0..N : \A p, q \in 1..Len(f[n]) : f[n][p] = f[n][q] => p = q}
<1>3. 0 \in T
  <2>1. Len(f[0]) = 0 /\ 1..0 = {} /\ 0 \in 0..N
    BY <1>2
  <2> QED BY <2>1
<1>4. ASSUME NEW n \in 0..(N - 1), n \in T PROVE n + 1 \in T
  <2>1. n \in 0..N /\ n + 1 \in 0..N /\ n + 1 \in 1..N /\ (n + 1) - 1 = n /\ n \in Nat
    OBVIOUS
  <2>2. PICK u, v, c : u \in Seq(Commitments) /\ u = f[n] /\ v = f[n + 1] /\ c = issued[n + 1].commitment
    BY <1>2, <2>1
  <2>3. v = IF c \in gone THEN u ELSE Append(u, c)
    BY <1>2, <2>1, <2>2
  <2>4. \A p, q \in 1..Len(u) : u[p] = u[q] => p = q
    BY <1>4, <2>2
  <2>5. CASE c \in gone
    BY <2>1, <2>2, <2>3, <2>4, <2>5
  <2>6. CASE c \notin gone
    <3>1. PICK m \in Nat : m = Len(u)
      BY <2>2
    <3>2. Len(v) = m + 1 /\ v[m + 1] = c /\ \A p \in 1..m : v[p] = u[p]
      BY <2>3, <2>6, <3>1
    <3>3. \A p \in 1..m : u[p] # c
      <4> TAKE p \in 1..m
      <4>1. PICK i \in 1..n : u[p] = issued[i].commitment
        BY <1>1, <2>1, <2>2, <3>1, ListedAre
      <4>2. i \in 1..N /\ i < n + 1
        BY <2>1
      <4>3. issued[i].commitment = c => c \in gone
        BY <1>1, <2>1, <2>2, <4>2
      <4> QED BY <2>6, <4>1, <4>3
    <3>4. \A p, q \in 1..(m + 1) : v[p] = v[q] => p = q
      <4>1. \A p \in 1..(m + 1) : p \in 1..m \/ p = m + 1
        OBVIOUS
      <4> QED BY <2>4, <3>1, <3>2, <3>3, <4>1
    <3>5. \A p, q \in 1..Len(v) : v[p] = v[q] => p = q
      BY <3>2, <3>4
    <3> QED BY <2>1, <2>2, <3>5
  <2> QED BY <2>5, <2>6
<1>5. \A n \in 0..N : n \in T
  <2> HIDE DEF T
  <2> QED BY <1>3, <1>4, UpTo
<1> QED BY <1>1, <1>5

(* Who is listed from the events of a kind up to the a-th and the b-th of  *)
(* the log.                                                                *)
LEMMA ListedIs ==
    ASSUME LogSound, Lawful, NEW F, FoundBy(F, Issued, 0, head), NEW G, FoundBy(G, Revoked, 0, head),
           NEW a \in 0..Len(log), NEW b \in 0..Len(log), NEW list, list = GroupMembersOf(F[a], G[b])
    PROVE  /\ list \in Seq(Commitments)
           /\ \A p \in 1..Len(list) : /\ \E i \in 1..a : IssuedAt(list[p], i)
                                     /\ \A j \in 1..b : ~ RevokedAt(list[p], j)
           /\ a = b => \A p, q \in 1..Len(list) : list[p] = list[q] => p = q
<1>1. PICK N \in Nat : N = Len(log)
  BY LogFacts
<1>2. PICK I \in Seq(GroupEvent) : I = F[a] /\ FoundUpTo(I, a, Issued, 0, head)
  BY FoundEach
<1>3. PICK R \in Seq(GroupEvent) : R = G[b] /\ FoundUpTo(R, b, Revoked, 0, head)
  BY FoundEach
<1>4. PICK f : ListedBy(f, I, Gone(R)) /\ list = f[Len(I)]
  BY <1>2, <1>3, ListedSteps
<1>5. PICK m \in Nat : m = Len(I)
  OBVIOUS
<1>6. f[m] \in Seq(Commitments) /\ list = f[m] /\ m \in 0..m
  BY <1>4, <1>5 DEF ListedBy
<1>7. \A p \in 1..Len(list) : \E k \in 1..m : list[p] = I[k].commitment /\ list[p] \notin Gone(R)
  BY <1>4, <1>5, <1>6, ListedAre
<1>8. \A k \in 1..m : \E i \in 1..a : I[k] = log[i] /\ log[i].kind = Issued
  BY <1>2, <1>5 DEF FoundUpTo, OnlyMatches, Matches
<1>9. \A c : \A j \in 1..b : RevokedAt(c, j) => c \in Gone(R)
  <2> TAKE c
  <2> TAKE j \in 1..b
  <2> SUFFICES ASSUME RevokedAt(c, j) PROVE c \in Gone(R)
    OBVIOUS
  <2>1. j \in 1..Len(log) /\ j \in DOMAIN log
    BY <1>1, LogFacts
  <2>2. log[j].kind = Revoked /\ log[j].commitment = c
    BY <2>1, KindIs DEF RevokedAt
  <2>3. log[j].block >= 0 /\ log[j].block <= head
    <3>1. log[j].block \in Nat /\ log[j].block <= head
      BY <2>1, LogFacts
    <3> QED BY <3>1
  <2>4. Matches(log[j], Revoked, 0, head)
    BY <2>2, <2>3 DEF Matches
  <2>5. PICK p \in 1..Len(R) : R[p] = log[j]
    BY <1>3, <2>4 DEF FoundUpTo, AllMatches
  <2>6. p \in DOMAIN R /\ R[p].commitment = c
    BY <2>2, <2>5
  <2> QED BY <2>6 DEF Gone
<1>10. ASSUME NEW p \in 1..Len(list)
       PROVE  /\ \E i \in 1..a : IssuedAt(list[p], i)
              /\ \A j \in 1..b : ~ RevokedAt(list[p], j)
  <2>1. PICK k \in 1..m : list[p] = I[k].commitment /\ list[p] \notin Gone(R)
    BY <1>7
  <2>2. PICK i \in 1..a : I[k] = log[i] /\ log[i].kind = Issued
    BY <1>8
  <2>3. IssuedAt(list[p], i)
    BY <2>1, <2>2 DEF IssuedAt
  <2> QED BY <1>9, <2>1, <2>3
<1>11. ASSUME a = b, NEW i \in 1..m, NEW j \in 1..m, i < j, I[i].commitment = I[j].commitment
       PROVE  I[i].commitment \in Gone(R)
  <2>1. PICK x \in 1..a : \E y \in 1..a : /\ x < y /\ I[i] = log[x] /\ I[j] = log[y]
                                          /\ log[x].kind = Issued /\ log[y].kind = Issued
    <3>1. Before(I[i], I[j], a, Issued, 0, head)
      BY <1>2, <1>5, <1>11 DEF FoundUpTo, InOrder
    <3> QED BY <3>1 DEF Before, Matches
  <2>2. PICK y \in 1..a : /\ x < y /\ I[i] = log[x] /\ I[j] = log[y]
                           /\ log[x].kind = Issued /\ log[y].kind = Issued
    BY <2>1
  <2>3. PICK c : c = I[i].commitment
    OBVIOUS
  <2>4. x \in 1..Len(log) /\ y \in 1..Len(log)
    BY <1>1
  <2>5. IssuedAt(c, x) /\ IssuedAt(c, y)
    BY <1>11, <2>2, <2>3 DEF IssuedAt
  <2>6. c \in Commitments
    <3>1. I[i] \in GroupEvent
      BY <1>5, ElementOfSeq
    <3> QED BY <2>3, <3>1 DEF GroupEvent
  <2>7. PICK k \in (x + 1)..(y - 1) : RevokedAt(c, k)
    BY <2>2, <2>4, <2>5, <2>6, RevokedBetween
  <2>8. k \in 1..b
    BY <1>11
  <2> QED BY <1>9, <2>3, <2>7, <2>8
<1>12. ASSUME a = b PROVE \A p, q \in 1..Len(list) : list[p] = list[q] => p = q
  <2>1. \A i, j \in 1..Len(I) : i < j /\ I[i].commitment = I[j].commitment => I[i].commitment \in Gone(R)
    BY <1>5, <1>11, <1>12
  <2>2. \A n \in 0..Len(I) : \A p, q \in 1..Len(f[n]) : f[n][p] = f[n][q] => p = q
    BY <1>4, <2>1, ListedOnce
  <2> QED BY <1>5, <1>6, <2>2
<1> QED BY <1>6, <1>10, <1>12

(* A member listed was in the group after the earlier of the two blocks.   *)
LEMMA ListingIs ==
    ASSUME LogSound, Dated, Lawful, NEW early \in Nat, NEW late \in Nat,
           NEW list, list = GroupMembersOf(QueryFilterPaged(Issued, early), QueryFilterPaged(Revoked, late))
    PROVE  /\ list \in Seq(Commitments)
           /\ early = late => IsInjective(list)
           /\ \A c \in ToSet(list) : \E b \in {early, late} :
                  \E n \in Len(EventsUpTo(b))..Len(log) : c \in ToSet(Tree(SubSeq(log, 1, n)))
<1>1. PICK F : FoundBy(F, Issued, 0, head)
  BY FiltersExist
<1>2. PICK G : FoundBy(G, Revoked, 0, head)
  BY FiltersExist
<1>3. PICK N \in Nat : N = Len(log)
  BY LogFacts
<1>4. \A b \in Nat : Cut(b) \in 0..N /\ Len(EventsUpTo(b)) = Cut(b)
  <2> TAKE b \in Nat
  <2>1. b \in Int
    OBVIOUS
  <2>2. PICK c \in 0..N : c = Cut(b)
    BY <1>3, <2>1, CutIs
  <2>3. Len(SubSeq(log, 1, c)) = c
    <3>1. \A i \in 1..c : log[i] \in GroupEvent
      BY <1>3, LogFacts, ElementOfSeq
    <3>2. 1 \in Int /\ c \in Int
      OBVIOUS
    <3>3. Len(SubSeq(log, 1, c)) = IF 1 <= c THEN c - 1 + 1 ELSE 0
      BY <3>1, <3>2, SubSeqProperties
    <3> QED BY <3>3
  <2> QED BY <2>2, <2>3, UpToIs
<1>5. PICK x \in 0..N, y \in 0..N : x = Cut(early) /\ y = Cut(late)
  BY <1>4
<1>6. list = GroupMembersOf(F[x], G[y])
  <2>1. QueryFilterPaged(Issued, early) = F[x]
    BY <1>1, <1>5, ScanIs
  <2>2. QueryFilterPaged(Revoked, late) = G[y]
    BY <1>2, <1>5, ScanIs
  <2> QED BY <2>1, <2>2
<1>7. /\ list \in Seq(Commitments)
      /\ \A p \in 1..Len(list) : /\ \E i \in 1..x : IssuedAt(list[p], i)
                                /\ \A j \in 1..y : ~ RevokedAt(list[p], j)
      /\ x = y => \A p, q \in 1..Len(list) : list[p] = list[q] => p = q
  <2>1. x \in 0..Len(log) /\ y \in 0..Len(log)
    BY <1>3
  <2> QED BY <1>1, <1>2, <1>6, <2>1, ListedIs
<1>8. DOMAIN list = 1..Len(list)
  BY <1>7
<1>9. early = late => IsInjective(list)
  BY <1>5, <1>7, <1>8 DEF IsInjective
<1>10. ASSUME NEW c \in ToSet(list)
       PROVE  \E b \in {early, late} : \E n \in Len(EventsUpTo(b))..Len(log) : c \in ToSet(Tree(SubSeq(log, 1, n)))
  <2>1. PICK p \in 1..Len(list) : list[p] = c
    BY <1>8 DEF ToSet
  <2>2. PICK i \in 1..x : IssuedAt(c, i)
    BY <1>7, <2>1
  <2>3. \A j \in 1..y : ~ RevokedAt(c, j)
    BY <1>7, <2>1
  <2>4. c \in Commitments /\ i \in 1..Len(log)
    BY <1>3, <1>7, <2>1, ElementOfSeq
  <2>5. ASSUME NEW n \in i..N, \A j \in (i + 1)..n : j \in 1..y
        PROVE  c \in ToSet(Tree(SubSeq(log, 1, n)))
    <3>1. n \in i..Len(log) /\ \A j \in (i + 1)..n : ~ RevokedAt(c, j)
      BY <1>3, <2>3, <2>5
    <3>2. Member(c, GroupAt(n))
      BY <2>2, <2>4, <3>1, ActiveStays
    <3> QED BY <3>2 DEF Member, GroupAt
  <2>6. CASE x <= y
    <3>1. x \in i..N /\ \A j \in (i + 1)..x : j \in 1..y
      BY <2>6
    <3>2. x \in Len(EventsUpTo(early))..Len(log)
      BY <1>3, <1>4, <1>5
    <3> QED BY <2>5, <3>1, <3>2
  <2>7. CASE y < x /\ i <= y
    <3>1. y \in i..N /\ \A j \in (i + 1)..y : j \in 1..y
      BY <2>7
    <3>2. y \in Len(EventsUpTo(late))..Len(log)
      BY <1>3, <1>4, <1>5
    <3> QED BY <2>5, <3>1, <3>2
  <2>8. CASE y < i
    <3>1. i \in i..N /\ \A j \in (i + 1)..i : j \in 1..y
      OBVIOUS
    <3>2. i \in Len(EventsUpTo(late))..Len(log)
      <4>1. Len(EventsUpTo(late)) = y
        BY <1>4, <1>5
      <4>2. i \in y..N
        BY <2>8
      <4> QED BY <1>3, <4>1, <4>2
    <3> QED BY <2>5, <3>1, <3>2
  <2>9. x <= y \/ (y < x /\ i <= y) \/ y < i
    OBVIOUS
  <2> QED BY <2>6, <2>7, <2>8, <2>9
<1> QED BY <1>7, <1>9, <1>10

-----------------------------------------------------------------------------
(* The indexer.                                                            *)

Rows == [Commitments -> [at : 0..MaxBlocks, active : BOOLEAN]]

Stored(e, table) == table[e.commitment] # NoRow /\ (e.kind # Issued => ~ table[e.commitment].active)

DoneTo(b, table) == \A i \in DOMAIN log : log[i].block <= b => Stored(log[i], table)

(* A row names the block of the first issuance.                            *)
RowSound(c, row) ==
    row # NoRow => row.at \in 1..head /\ IssuedBy(c, row.at) /\ ~ IssuedBy(c, row.at - 1)
TableSound(table) == table \in Rows /\ \A c \in Commitments : RowSound(c, table[c])

(* What a range still has to store: events of the log, issuances first and *)
(* in the order of their blocks, and every event not stored yet.           *)
TodoSound(todo, b, table) ==
    /\ \A p \in 1..Len(todo) : \E i \in DOMAIN log : todo[p] = log[i] /\ log[i].block <= b
    /\ \A p, q \in 1..Len(todo) : p < q /\ todo[q].kind = Issued =>
           todo[p].kind = Issued /\ todo[p].block <= todo[q].block
    /\ \A i \in DOMAIN log : log[i].block <= b =>
           Stored(log[i], table) \/ \E p \in 1..Len(todo) : todo[p] = log[i]

IndexSound ==
    /\ TableSound(rows)
    /\ lastBlock \in 0..head /\ DoneTo(lastBlock, rows) /\ syncError \in BOOLEAN
    /\ indexer \in [pc : {"idle", "query", "store"}, from : Nat, latest : Nat, todo : Seq(Event)]
    /\ indexer.pc # "idle" => indexer.latest <= head
    /\ indexer.pc = "query" => indexer.from <= indexer.latest /\ DoneTo(indexer.from - 1, rows)
    /\ indexer.pc = "store" =>
          indexer.from <= indexer.latest + 1 /\ TodoSound(indexer.todo, indexer.from - 1, rows)

LEMMA IndexedIs == ASSUME IndexSound, LogSound PROVE IndexedUpToCursor
<1>1. ASSUME NEW c \in Commitments, IssuedBy(c, lastBlock)
      PROVE  IssuedBy(c, rows[c].at) /\ ~ IssuedBy(c, rows[c].at - 1)
  <2>1. PICK i \in DOMAIN log : log[i].commitment = c /\ log[i].block <= lastBlock
    BY <1>1 DEF IssuedBy
  <2>2. Stored(log[i], rows)
    BY <2>1 DEF IndexSound, DoneTo
  <2>3. rows[c] # NoRow
    BY <2>1, <2>2 DEF Stored
  <2> QED BY <2>3 DEF IndexSound, TableSound, RowSound
<1>2. ASSUME NEW c \in Commitments, RevokedBy(c, lastBlock)
      PROVE  ~ rows[c].active
  <2>1. PICK i \in DOMAIN log : log[i].kind = Revoked /\ log[i].commitment = c /\ log[i].block <= lastBlock
    BY <1>2 DEF RevokedBy
  <2>2. Stored(log[i], rows)
    BY <2>1 DEF IndexSound, DoneTo
  <2>3. log[i].kind # Issued
    BY <2>1 DEF Issued, Revoked
  <2> QED BY <2>1, <2>2, <2>3 DEF Stored
<1> QED BY <1>1, <1>2 DEF IndexedUpToCursor

(* A block behind what was indexed.                                        *)
LEMMA IndexGrows ==
    ASSUME LogSound, ChainStep, IndexSound, UNCHANGED indexVars
    PROVE  IndexSound'
<1>1. /\ LogSound' /\ head <= head'
      /\ \A n \in DOMAIN log : n \in DOMAIN log' /\ log'[n] = log[n]
      /\ \A n \in DOMAIN log' : n > Len(log) => log'[n].block = head' /\ head' = head + 1
  BY LogStep
<1>2. /\ head \in Nat /\ DOMAIN log = 1..Len(log) /\ Len(log) \in Nat
      /\ head' \in Nat /\ DOMAIN log' = 1..Len(log') /\ Len(log') \in Nat
  <2>1. LogSound' => head' \in Nat /\ DOMAIN log' = 1..Len(log') /\ Len(log') \in Nat
    BY DEF LogSound
  <2> QED BY <1>1, <2>1, LogFacts
<1>3. ASSUME NEW b \in Int, b <= head, NEW i \in DOMAIN log', log'[i].block <= b
      PROVE  i \in DOMAIN log /\ log'[i] = log[i]
  <2>1. CASE i > Len(log)
    <3>1. log'[i].block = head + 1
      BY <1>1, <2>1
    <3> QED BY <1>2, <1>3, <3>1
  <2>2. CASE ~ (i > Len(log))
    BY <1>1, <1>2, <2>2
  <2> QED BY <2>1, <2>2
<1>4. ASSUME NEW b \in Int, b <= head, NEW table, DoneTo(b, table) PROVE DoneTo(b, table)'
  <2>1. ASSUME NEW i \in DOMAIN log', log'[i].block <= b PROVE Stored(log'[i], table)
    BY <1>3, <1>4, <2>1 DEF DoneTo
  <2> QED BY <2>1 DEF DoneTo, Stored
<1>5. ASSUME NEW b \in Int, b <= head, NEW table, NEW todo, TodoSound(todo, b, table)
      PROVE  TodoSound(todo, b, table)'
  <2>1. ASSUME NEW p \in 1..Len(todo) PROVE \E i \in DOMAIN log' : todo[p] = log'[i] /\ log'[i].block <= b
    <3>1. PICK i \in DOMAIN log : todo[p] = log[i] /\ log[i].block <= b
      BY <1>5 DEF TodoSound
    <3> QED BY <1>1, <3>1
  <2>2. ASSUME NEW i \in DOMAIN log', log'[i].block <= b
        PROVE  Stored(log'[i], table) \/ \E p \in 1..Len(todo) : todo[p] = log'[i]
    BY <1>3, <1>5, <2>2 DEF TodoSound
  <2>3. \A p, q \in 1..Len(todo) : p < q /\ todo[q].kind = Issued =>
           todo[p].kind = Issued /\ todo[p].block <= todo[q].block
    BY <1>5 DEF TodoSound
  <2> QED BY <2>1, <2>2, <2>3 DEF TodoSound, Stored
<1>6. ASSUME NEW c \in Commitments, NEW b \in Int, b <= head PROVE IssuedBy(c, b)' <=> IssuedBy(c, b)
  <2>1. IssuedBy(c, b) => IssuedBy(c, b)'
    BY <1>1 DEF IssuedBy
  <2>2. IssuedBy(c, b)' => IssuedBy(c, b)
    BY <1>3, <1>6 DEF IssuedBy
  <2> QED BY <2>1, <2>2
<1>7. ASSUME NEW c \in Commitments, NEW row, RowSound(c, row) PROVE RowSound(c, row)'
  <2> SUFFICES ASSUME row # NoRow
               PROVE  row.at \in 1..head' /\ IssuedBy(c, row.at)' /\ ~ IssuedBy(c, row.at - 1)'
    BY DEF RowSound, NoRow
  <2>1. row.at \in 1..head /\ IssuedBy(c, row.at) /\ ~ IssuedBy(c, row.at - 1)
    BY <1>7 DEF RowSound
  <2>2. PICK a \in 1..head : a = row.at
    BY <2>1
  <2>3. a \in Int /\ a - 1 \in Int /\ a <= head /\ a - 1 <= head /\ a \in 1..head'
    BY <1>1, <1>2, <2>2
  <2>4. IssuedBy(c, a)' /\ ~ IssuedBy(c, a - 1)'
    BY <1>6, <2>1, <2>2, <2>3
  <2> QED BY <2>2, <2>3, <2>4
<1>8. PICK table, last, index, failed :
          /\ table = rows /\ last = lastBlock /\ index = indexer /\ failed = syncError
          /\ rows' = table /\ lastBlock' = last /\ indexer' = index /\ syncError' = failed
  BY DEF indexVars
<1>9. /\ TableSound(table)
      /\ last \in 0..head /\ DoneTo(last, table) /\ failed \in BOOLEAN
      /\ index \in [pc : {"idle", "query", "store"}, from : Nat, latest : Nat, todo : Seq(Event)]
      /\ index.pc # "idle" => index.latest <= head
      /\ index.pc = "query" => index.from <= index.latest /\ DoneTo(index.from - 1, table)
      /\ index.pc = "store" =>
            index.from <= index.latest + 1 /\ TodoSound(index.todo, index.from - 1, table)
  BY <1>8 DEF IndexSound
<1>10. TableSound(table)'
  BY <1>7, <1>9 DEF TableSound, Rows
<1>11. last \in 0..head' /\ DoneTo(last, table)'
  <2>1. last \in Int /\ last <= head /\ last \in 0..head'
    BY <1>1, <1>2, <1>9
  <2> QED BY <1>4, <1>9, <2>1
<1>12. PICK from \in Nat, latest \in Nat : from = index.from /\ latest = index.latest
  BY <1>9
<1>13. index.pc # "idle" => latest <= head'
  BY <1>1, <1>2, <1>9, <1>12
<1>14. index.pc = "query" => from <= latest /\ DoneTo(from - 1, table)'
  <2> SUFFICES ASSUME index.pc = "query" PROVE from <= latest /\ DoneTo(from - 1, table)'
    OBVIOUS
  <2>1. from <= latest /\ latest <= head /\ DoneTo(from - 1, table)
    BY <1>9, <1>12
  <2>2. from - 1 \in Int /\ from - 1 <= head
    BY <1>2, <2>1
  <2> QED BY <1>4, <2>1, <2>2
<1>15. index.pc = "store" => from <= latest + 1 /\ TodoSound(index.todo, from - 1, table)'
  <2> SUFFICES ASSUME index.pc = "store"
               PROVE  from <= latest + 1 /\ TodoSound(index.todo, from - 1, table)'
    OBVIOUS
  <2>1. from <= latest + 1 /\ latest <= head /\ TodoSound(index.todo, from - 1, table)
    BY <1>9, <1>12
  <2>2. from - 1 \in Int /\ from - 1 <= head
    BY <1>2, <2>1
  <2> QED BY <1>5, <2>1, <2>2
<1>16. TableSound(rows)' /\ DoneTo(lastBlock, rows)'
  BY <1>8, <1>10, <1>11 DEF TableSound, RowSound, IssuedBy, DoneTo, Stored
<1>17. indexer'.pc = "query" => indexer'.from <= indexer'.latest /\ DoneTo(indexer.from - 1, rows)'
  BY <1>8, <1>12, <1>14 DEF DoneTo, Stored
<1>18. indexer'.pc = "store" => indexer'.from <= indexer'.latest + 1 /\ TodoSound(indexer.todo, indexer.from - 1, rows)'
  BY <1>8, <1>12, <1>15 DEF TodoSound, Stored
<1>19. lastBlock' \in 0..head' /\ syncError' \in BOOLEAN
  BY <1>8, <1>9, <1>11
<1>20. /\ indexer' \in [pc : {"idle", "query", "store"}, from : Nat, latest : Nat, todo : Seq(Event)]
       /\ indexer'.pc # "idle" => indexer'.latest <= head'
  BY <1>8, <1>9, <1>12, <1>13
<1> QED BY <1>16, <1>17, <1>18, <1>19, <1>20 DEF IndexSound

IndexWell(table, last, failed, index) ==
    /\ TableSound(table)
    /\ last \in 0..head /\ DoneTo(last, table) /\ failed \in BOOLEAN
    /\ index \in [pc : {"idle", "query", "store"}, from : Nat, latest : Nat, todo : Seq(Event)]
    /\ index.pc # "idle" => index.latest <= head
    /\ index.pc = "query" => index.from <= index.latest /\ DoneTo(index.from - 1, table)
    /\ index.pc = "store" =>
          index.from <= index.latest + 1 /\ TodoSound(index.todo, index.from - 1, table)

LEMMA IndexNow ==
    ASSUME IndexSound
    PROVE  \E table, last, failed, index :
               /\ table = rows /\ last = lastBlock /\ failed = syncError /\ index = indexer
               /\ IndexWell(table, last, failed, index)
BY DEF IndexSound, IndexWell

LEMMA IndexNext ==
    ASSUME UNCHANGED <<log, head>>, NEW table, NEW last, NEW failed, NEW index,
           IndexWell(table, last, failed, index),
           rows' = table, lastBlock' = last, syncError' = failed, indexer' = index
    PROVE  IndexSound'
<1>1. TableSound(rows)'
  BY DEF IndexWell, TableSound, RowSound, IssuedBy
<1>2. DoneTo(lastBlock, rows)' /\ lastBlock' \in 0..head' /\ syncError' \in BOOLEAN
  BY DEF IndexWell, DoneTo, Stored
<1>3. /\ indexer' \in [pc : {"idle", "query", "store"}, from : Nat, latest : Nat, todo : Seq(Event)]
      /\ indexer'.pc # "idle" => indexer'.latest <= head'
  BY DEF IndexWell
<1>4. indexer'.pc = "query" => indexer'.from <= indexer'.latest /\ DoneTo(indexer.from - 1, rows)'
  BY DEF IndexWell, DoneTo, Stored
<1>5. indexer'.pc = "store" =>
          indexer'.from <= indexer'.latest + 1 /\ TodoSound(indexer.todo, indexer.from - 1, rows)'
  BY DEF IndexWell, TodoSound, Stored
<1> QED BY <1>1, <1>2, <1>3, <1>4, <1>5 DEF IndexSound

LEMMA DoneLess ==
    ASSUME LogSound, NEW b \in Int, NEW a \in Int, a <= b, NEW table, DoneTo(b, table)
    PROVE  DoneTo(a, table)
<1> SUFFICES ASSUME NEW i \in DOMAIN log, log[i].block <= a PROVE Stored(log[i], table)
  BY DEF DoneTo
<1>1. log[i].block \in Nat
  BY LogFacts
<1>2. log[i].block <= b
  BY <1>1
<1> QED BY <1>2 DEF DoneTo

LEMMA StartKeeps ==
    ASSUME LogSound, IndexSound, StartPass
    PROVE  IndexSound'
<1>1. PICK table, last, failed, index :
          /\ table = rows /\ last = lastBlock /\ failed = syncError /\ index = indexer
          /\ IndexWell(table, last, failed, index)
  BY IndexNow
<1>2. UNCHANGED <<log, head>> /\ rows' = table /\ lastBlock' = last /\ index.pc = "idle"
  BY <1>1 DEF StartPass
<1>3. head \in Nat /\ last \in 0..head /\ DoneTo(last, table)
  BY <1>1, LogFacts DEF IndexWell
<1>4. CASE lastBlock >= head
  <2>1. syncError' = FALSE /\ indexer' = index
    BY <1>1, <1>4 DEF StartPass
  <2>2. IndexWell(table, last, FALSE, index)
    BY <1>1 DEF IndexWell
  <2> QED BY <1>2, <2>1, <2>2, IndexNext
<1>5. CASE ~ (lastBlock >= head)
  <2>1. PICK new : new = [pc |-> "query", from |-> last, latest |-> head, todo |-> <<>>]
    OBVIOUS
  <2>2. syncError' = failed /\ indexer' = new
    BY <1>1, <1>5, <2>1 DEF StartPass
  <2>3. new.pc = "query" /\ new.from = last /\ new.latest = head
    BY <2>1
  <2>4. new \in [pc : {"idle", "query", "store"}, from : Nat, latest : Nat, todo : Seq(Event)]
    BY <1>3, <2>1
  <2>5. DoneTo(last - 1, table)
    <3>1. last \in Int /\ last - 1 \in Int /\ last - 1 <= last
      BY <1>3
    <3> QED BY <1>3, <3>1, DoneLess
  <2>6. last <= head /\ head <= head
    BY <1>3
  <2>7. IndexWell(table, last, failed, new)
    BY <1>1, <2>3, <2>4, <2>5, <2>6 DEF IndexWell
  <2> QED BY <1>2, <2>2, <2>7, IndexNext
<1> QED BY <1>4, <1>5

LEMMA StopKeeps ==
    ASSUME LogSound, IndexSound, FailPass \/ Crash
    PROVE  IndexSound'
<1>1. PICK table, last, failed, index :
          /\ table = rows /\ last = lastBlock /\ failed = syncError /\ index = indexer
          /\ IndexWell(table, last, failed, index)
  BY IndexNow
<1>2. UNCHANGED <<log, head>> /\ rows' = table /\ lastBlock' = last /\ indexer' = Idle
  BY <1>1 DEF FailPass, Crash
<1>3. syncError' = TRUE \/ syncError' = failed
  BY <1>1 DEF FailPass, Crash
<1>4. PICK s \in BOOLEAN : syncError' = s
  BY <1>1, <1>3 DEF IndexWell
<1>5. Idle.pc = "idle" /\ Idle \in [pc : {"idle", "query", "store"}, from : Nat, latest : Nat, todo : Seq(Event)]
  BY DEF Idle
<1>6. IndexWell(table, last, s, Idle)
  BY <1>1, <1>5 DEF IndexWell
<1> QED BY <1>2, <1>4, <1>6, IndexNext

LEMMA NothingLeft ==
    ASSUME NEW b, NEW table, TodoSound(<<>>, b, table)
    PROVE  DoneTo(b, table)
<1>1. 1..Len(<<>>) = {}
  OBVIOUS
<1> QED BY <1>1 DEF TodoSound, DoneTo

LEMMA ChunkKeeps ==
    ASSUME LogSound, IndexSound, NextChunk
    PROVE  IndexSound'
<1>1. PICK table, last, failed, index :
          /\ table = rows /\ last = lastBlock /\ failed = syncError /\ index = indexer
          /\ IndexWell(table, last, failed, index)
  BY IndexNow
<1>2. /\ UNCHANGED <<log, head>> /\ rows' = table /\ lastBlock' = last /\ syncError' = failed
      /\ index.pc = "store" /\ index.todo = <<>> /\ index.from <= index.latest
      /\ indexer' = [index EXCEPT !.pc = "query"]
  BY <1>1 DEF NextChunk
<1>3. PICK new : new = [index EXCEPT !.pc = "query"]
  OBVIOUS
<1>4. index \in [pc : {"idle", "query", "store"}, from : Nat, latest : Nat, todo : Seq(Event)]
  BY <1>1 DEF IndexWell
<1>5. /\ new \in [pc : {"idle", "query", "store"}, from : Nat, latest : Nat, todo : Seq(Event)]
      /\ new.pc = "query" /\ new.from = index.from /\ new.latest = index.latest
  BY <1>3, <1>4
<1>6. index.latest <= head /\ DoneTo(index.from - 1, table)
  BY <1>1, <1>2, NothingLeft DEF IndexWell
<1>7. IndexWell(table, last, failed, new)
  BY <1>1, <1>2, <1>5, <1>6 DEF IndexWell
<1> QED BY <1>2, <1>3, <1>7, IndexNext

LEMMA EndKeeps ==
    ASSUME LogSound, IndexSound, EndPass
    PROVE  IndexSound'
<1>1. PICK table, last, failed, index :
          /\ table = rows /\ last = lastBlock /\ failed = syncError /\ index = indexer
          /\ IndexWell(table, last, failed, index)
  BY IndexNow
<1>2. /\ UNCHANGED <<log, head>> /\ rows' = table /\ lastBlock' = index.latest /\ syncError' = FALSE
      /\ index.pc = "store" /\ index.todo = <<>> /\ index.from > index.latest /\ indexer' = Idle
  BY <1>1 DEF EndPass
<1>3. PICK from \in Nat, latest \in Nat : from = index.from /\ latest = index.latest
  BY <1>1 DEF IndexWell
<1>4. DoneTo(from - 1, table) /\ latest <= head /\ from > latest
  BY <1>1, <1>2, <1>3, NothingLeft DEF IndexWell
<1>5. from - 1 \in Int /\ latest \in Int /\ latest <= from - 1 /\ latest \in 0..head
  BY <1>4, LogFacts
<1>6. DoneTo(latest, table)
  BY <1>4, <1>5, DoneLess
<1>7. Idle.pc = "idle" /\ Idle \in [pc : {"idle", "query", "store"}, from : Nat, latest : Nat, todo : Seq(Event)]
  BY DEF Idle
<1>8. IndexWell(table, latest, FALSE, Idle)
  BY <1>1, <1>5, <1>6, <1>7 DEF IndexWell
<1> QED BY <1>2, <1>3, <1>8, IndexNext

LEMMA EventsOnly ==
    ASSUME NEW s \in Seq(GroupEvent), \A p \in 1..Len(s) : s[p] \in Event
    PROVE  s \in Seq(Event)
OBVIOUS

(* What the two queries of a range return is what it has to store.         *)
LEMMA RangeIs ==
    ASSUME LogSound, log \in Seq(Event), NEW from \in Nat, NEW to \in Int, NEW table, DoneTo(from - 1, table)
    PROVE  RangeEvents(from, to) \in Seq(Event) /\ TodoSound(RangeEvents(from, to), to, table)
<1>1. PICK N \in Nat : N = Len(log) /\ DOMAIN log = 1..N
  BY LogFacts
<1>2. PICK I \in Seq(GroupEvent) : I = Query(Issued, from, to) /\ FoundUpTo(I, N, Issued, from, to)
  BY <1>1, QueryIs
<1>3. PICK R \in Seq(GroupEvent) : R = Query(Revoked, from, to) /\ FoundUpTo(R, N, Revoked, from, to)
  BY <1>1, QueryIs
<1>4. PICK x \in Nat, y \in Nat : x = Len(I) /\ y = Len(R)
  OBVIOUS
<1>5. PICK todo : todo = I \o R
  OBVIOUS
<1>6. /\ todo \in Seq(GroupEvent) /\ Len(todo) = x + y
      /\ \A p \in 1..(x + y) : todo[p] = IF p <= x THEN I[p] ELSE R[p - x]
  BY <1>4, <1>5, ConcatProperties
<1>7. \A p \in 1..x : \E i \in 1..N : I[p] = log[i] /\ Matches(log[i], Issued, from, to)
  BY <1>2, <1>4 DEF FoundUpTo, OnlyMatches
<1>8. \A p \in 1..y : \E i \in 1..N : R[p] = log[i] /\ Matches(log[i], Revoked, from, to)
  BY <1>3, <1>4 DEF FoundUpTo, OnlyMatches
<1>9. \A p \in 1..(x + y) : \/ p \in 1..x /\ todo[p] = I[p]
                            \/ p - x \in 1..y /\ p > x /\ todo[p] = R[p - x]
  BY <1>6
<1>10. ASSUME NEW p \in 1..(x + y) PROVE \E i \in DOMAIN log : todo[p] = log[i] /\ log[i].block <= to
  <2>1. CASE p \in 1..x /\ todo[p] = I[p]
    BY <1>1, <1>7, <2>1 DEF Matches
  <2>2. CASE p - x \in 1..y /\ todo[p] = R[p - x]
    BY <1>1, <1>8, <2>2 DEF Matches
  <2> QED BY <1>9, <2>1, <2>2
<1>11. ASSUME NEW p \in 1..(x + y), NEW q \in 1..(x + y), p < q, todo[q].kind = Issued
       PROVE  todo[p].kind = Issued /\ todo[p].block <= todo[q].block
  <2>1. q \in 1..x /\ todo[q] = I[q]
    <3>1. CASE q - x \in 1..y /\ todo[q] = R[q - x]
      <4>1. todo[q].kind = Revoked
        BY <1>8, <3>1 DEF Matches
      <4> QED BY <1>11, <4>1 DEF Issued, Revoked
    <3> QED BY <1>9, <3>1
  <2>2. p \in 1..x
    BY <1>11, <2>1
  <2>3. todo[p] = I[p]
    BY <1>6, <2>2
  <2>4. PICK i \in 1..N : \E j \in 1..N : /\ i < j /\ I[p] = log[i] /\ I[q] = log[j]
                                          /\ Matches(log[i], Issued, from, to)
    <3>1. \A r, s \in 1..x : r < s => Before(I[r], I[s], N, Issued, from, to)
      BY <1>2, <1>4 DEF FoundUpTo, InOrder
    <3>2. Before(I[p], I[q], N, Issued, from, to)
      BY <1>11, <2>1, <2>2, <3>1
    <3> QED BY <3>2 DEF Before
  <2>5. PICK j \in 1..N : i < j /\ I[p] = log[i] /\ I[q] = log[j] /\ Matches(log[i], Issued, from, to)
    BY <2>4
  <2>6. log[i].block <= log[j].block
    <3>1. i <= j
      BY <2>5
    <3> QED BY <1>1, <3>1, LogFacts
  <2> QED BY <2>1, <2>3, <2>5, <2>6 DEF Matches
<1>12. ASSUME NEW i \in DOMAIN log, log[i].block <= to
       PROVE  Stored(log[i], table) \/ \E p \in 1..(x + y) : todo[p] = log[i]
  <2>1. PICK b \in Nat : b = log[i].block
    BY LogFacts
  <2>2. CASE b < from
    <3>1. b <= from - 1
      BY <2>2
    <3> QED BY <2>1, <3>1 DEF DoneTo
  <2>3. CASE b >= from
    <3>1. log[i].kind = Issued \/ log[i].kind = Revoked
      BY <1>1, KindIs
    <3>2. CASE log[i].kind = Issued
      <4>1. Matches(log[i], Issued, from, to)
        BY <1>12, <2>1, <2>3, <3>2 DEF Matches
      <4>2. PICK p \in 1..x : I[p] = log[i]
        BY <1>1, <1>2, <1>4, <4>1 DEF FoundUpTo, AllMatches
      <4>3. p \in 1..(x + y) /\ p <= x
        OBVIOUS
      <4>4. todo[p] = log[i]
        BY <1>6, <4>2, <4>3
      <4> QED BY <4>3, <4>4
    <3>3. CASE log[i].kind = Revoked
      <4>1. Matches(log[i], Revoked, from, to)
        BY <1>12, <2>1, <2>3, <3>3 DEF Matches
      <4>2. PICK p \in 1..y : R[p] = log[i]
        BY <1>1, <1>3, <1>4, <4>1 DEF FoundUpTo, AllMatches
      <4>3. x + p \in 1..(x + y) /\ ~ (x + p <= x) /\ (x + p) - x = p
        OBVIOUS
      <4>4. todo[x + p] = log[i]
        BY <1>6, <4>2, <4>3
      <4> QED BY <4>3, <4>4
    <3> QED BY <3>1, <3>2, <3>3
  <2> QED BY <2>2, <2>3
<1>13. \A p \in 1..(x + y) : todo[p] \in Event
  <2>1. \A i \in DOMAIN log : log[i] \in Event
    BY <1>1, ElementOfSeq
  <2> QED BY <1>10, <2>1
<1>14. todo \in Seq(Event)
  BY <1>6, <1>13, EventsOnly
<1>15. TodoSound(todo, to, table)
  BY <1>6, <1>10, <1>11, <1>12 DEF TodoSound
<1> QED BY <1>2, <1>3, <1>5, <1>14, <1>15 DEF RangeEvents

LEMMA SyncKeeps ==
    ASSUME LogSound, log \in Seq(Event), IndexSound, SyncRange
    PROVE  IndexSound'
<1>1. PICK table, last, failed, index :
          /\ table = rows /\ last = lastBlock /\ failed = syncError /\ index = indexer
          /\ IndexWell(table, last, failed, index)
  BY IndexNow
<1>2. PICK from \in Nat, latest \in Nat : from = index.from /\ latest = index.latest
  BY <1>1 DEF IndexWell
<1>3. PICK to : to = ChunkEnd(from, latest)
  OBVIOUS
<1>4. PICK todo : todo = RangeEvents(from, to)
  OBVIOUS
<1>5. PICK new : new = [index EXCEPT !.pc = "store", !.from = to + 1, !.todo = todo]
  OBVIOUS
<1>6. /\ UNCHANGED <<log, head>> /\ rows' = table /\ lastBlock' = last /\ syncError' = failed
      /\ index.pc = "query" /\ indexer' = new
  BY <1>1, <1>2, <1>3, <1>4, <1>5 DEF SyncRange
<1>7. from <= latest /\ latest <= head /\ DoneTo(from - 1, table)
  BY <1>1, <1>2, <1>6 DEF IndexWell
<1>8. to \in Nat /\ to <= latest /\ to + 1 \in Nat /\ (to + 1) - 1 = to /\ to + 1 <= latest + 1
  <2>1. ChunkSize \in Nat \ {0}
    BY GroupMembersAssumption
  <2> QED BY <1>3, <1>7, <2>1 DEF ChunkEnd
<1>9. todo \in Seq(Event) /\ TodoSound(todo, to, table)
  BY <1>4, <1>7, <1>8, RangeIs
<1>10. index \in [pc : {"idle", "query", "store"}, from : Nat, latest : Nat, todo : Seq(Event)]
  BY <1>1 DEF IndexWell
<1>11. /\ new \in [pc : {"idle", "query", "store"}, from : Nat, latest : Nat, todo : Seq(Event)]
       /\ new.pc = "store" /\ new.from = to + 1 /\ new.latest = latest /\ new.todo = todo
  BY <1>2, <1>5, <1>8, <1>9, <1>10
<1>12. TodoSound(new.todo, new.from - 1, table)
  BY <1>8, <1>9, <1>11
<1>13. IndexWell(table, last, failed, new)
  BY <1>1, <1>7, <1>8, <1>11, <1>12 DEF IndexWell
<1> QED BY <1>6, <1>13, IndexNext

(* Storing an event changes the row of its commitment only, and never back.*)
LEMMA RowAfter ==
    ASSUME NEW table \in Rows, NEW e \in Event, NEW c \in Commitments
    PROVE  /\ StoreEvent(table, e) \in Rows
           /\ c # e.commitment => StoreEvent(table, e)[c] = table[c]
           /\ c = e.commitment /\ e.kind = Issued =>
                 StoreEvent(table, e)[c] = IF table[c] = NoRow THEN [at |-> e.block, active |-> TRUE] ELSE table[c]
           /\ c = e.commitment /\ e.kind # Issued =>
                 /\ StoreEvent(table, e)[c].at = table[c].at
                 /\ table[c] # NoRow => ~ StoreEvent(table, e)[c].active
                 /\ table[c] = NoRow => StoreEvent(table, e)[c] = NoRow
<1>1. PICK d, b : d = e.commitment /\ b = e.block
  OBVIOUS
<1>2. d \in Commitments /\ b \in 0..MaxBlocks
  <2>1. b \in Nat /\ b <= MaxBlocks
    BY <1>1, EventIs
  <2> QED BY <1>1, <2>1, GroupMembersAssumption DEF Event
<1>3. table[d] \in [at : 0..MaxBlocks, active : BOOLEAN]
  BY <1>2 DEF Rows
<1>4. CASE e.kind = Issued
  <2>1. StoreEvent(table, e) = IF table[d] # NoRow THEN table ELSE [table EXCEPT ![d] = [at |-> b, active |-> TRUE]]
    BY <1>1, <1>4 DEF StoreEvent, InsertCredential
  <2>2. [at |-> b, active |-> TRUE] \in [at : 0..MaxBlocks, active : BOOLEAN]
    BY <1>2
  <2> QED BY <1>1, <1>2, <1>4, <2>1, <2>2 DEF Rows
<1>5. CASE e.kind # Issued
  <2>1. StoreEvent(table, e) = IF table[d] = NoRow THEN table ELSE [table EXCEPT ![d].active = FALSE]
    BY <1>1, <1>5 DEF StoreEvent, DeactivateCredential
  <2>2. PICK old \in [at : 0..MaxBlocks, active : BOOLEAN] : old = table[d]
    BY <1>3
  <2>3. PICK row : row = [old EXCEPT !.active = FALSE]
    OBVIOUS
  <2>4. row \in [at : 0..MaxBlocks, active : BOOLEAN] /\ row.at = old.at /\ ~ row.active
    BY <2>2, <2>3
  <2>5. [table EXCEPT ![d].active = FALSE] = [table EXCEPT ![d] = row]
    BY <2>2, <2>3
  <2>6. StoreEvent(table, e) = IF old = NoRow THEN table ELSE [table EXCEPT ![d] = row]
    BY <2>1, <2>2, <2>5
  <2>7. CASE old = NoRow
    BY <1>1, <1>5, <2>2, <2>6, <2>7
  <2>8. CASE old # NoRow
    <3>1. StoreEvent(table, e) = [table EXCEPT ![d] = row]
      BY <2>6, <2>8
    <3>2. StoreEvent(table, e) \in Rows
      BY <1>2, <2>4, <3>1 DEF Rows
    <3>3. \A x \in Commitments : StoreEvent(table, e)[x] = IF x = d THEN row ELSE table[x]
      BY <3>1 DEF Rows
    <3>4. CASE c = d
      <4>1. StoreEvent(table, e)[c] = row
        BY <3>3, <3>4
      <4> QED BY <1>1, <1>5, <2>2, <2>4, <2>8, <3>2, <3>4, <4>1
    <3>5. CASE c # d
      BY <1>1, <3>2, <3>3, <3>5
    <3> QED BY <3>4, <3>5
  <2> QED BY <2>7, <2>8
<1> QED BY <1>4, <1>5

LEMMA RowStays ==
    ASSUME NEW table, TableSound(table), NEW e \in Event, NEW c \in Commitments, table[c] # NoRow
    PROVE  /\ StoreEvent(table, e)[c] # NoRow
           /\ StoreEvent(table, e)[c].at = table[c].at
           /\ ~ table[c].active => ~ StoreEvent(table, e)[c].active
<1>1. PICK new, row : new = StoreEvent(table, e)[c] /\ row = table[c]
  OBVIOUS
<1>2. table \in Rows
  BY DEF TableSound
<1>3. new = row \/ (new.at = row.at /\ ~ new.active)
  <2>1. CASE c = e.commitment /\ e.kind # Issued
    BY <1>1, <1>2, <2>1, RowAfter
  <2>2. CASE c = e.commitment /\ e.kind = Issued
    BY <1>1, <1>2, <2>2, RowAfter
  <2>3. CASE c # e.commitment
    BY <1>1, <1>2, <2>3, RowAfter
  <2> QED BY <2>1, <2>2, <2>3
<1>4. row.at # 0
  <2>1. row.at \in 1..head
    BY <1>1 DEF TableSound, RowSound
  <2> QED BY <2>1
<1>5. CASE new = row
  BY <1>1, <1>5
<1>6. CASE new.at = row.at /\ ~ new.active
  <2>1. new # NoRow
    BY <1>4, <1>6 DEF NoRow
  <2> QED BY <1>1, <1>6, <2>1
<1> QED BY <1>3, <1>5, <1>6

LEMMA StoredStays ==
    ASSUME NEW table, TableSound(table), NEW e \in Event, NEW f, f.commitment \in Commitments, Stored(f, table)
    PROVE  Stored(f, StoreEvent(table, e))
<1>1. table[f.commitment] # NoRow
  BY DEF Stored
<1> QED BY <1>1, RowStays DEF Stored

LEMMA StoredNow ==
    ASSUME NEW table, TableSound(table), NEW e \in Event, e.kind # Issued => table[e.commitment] # NoRow
    PROVE  Stored(e, StoreEvent(table, e))
<1>1. PICK c \in Commitments : c = e.commitment
  BY DEF Event
<1>2. PICK new, row : new = StoreEvent(table, e)[c] /\ row = table[c]
  OBVIOUS
<1>3. CASE row # NoRow
  <2>1. new # NoRow
    BY <1>2, <1>3, RowStays
  <2>2. ASSUME e.kind # Issued PROVE ~ new.active
    <3>1. table \in Rows
      BY DEF TableSound
    <3> QED BY <1>1, <1>2, <1>3, <2>2, <3>1, RowAfter
  <2> QED BY <1>1, <1>2, <2>1, <2>2 DEF Stored
<1>4. CASE row = NoRow
  <2>1. e.kind = Issued
    BY <1>1, <1>2, <1>4
  <2>2. new = [at |-> e.block, active |-> TRUE]
    <3>1. table \in Rows
      BY DEF TableSound
    <3>2. StoreEvent(table, e)[c] = IF table[c] = NoRow THEN [at |-> e.block, active |-> TRUE] ELSE table[c]
      BY <1>1, <2>1, <3>1, RowAfter
    <3>3. table[c] = NoRow
      BY <1>2, <1>4
    <3> QED BY <1>2, <3>2, <3>3
  <2>3. new.active = TRUE /\ NoRow.active = FALSE
    BY <2>2 DEF NoRow
  <2>4. new # NoRow
    BY <2>3
  <2> QED BY <1>1, <1>2, <2>1, <2>4 DEF Stored
<1> QED BY <1>3, <1>4

(* The first of the events to store finds its commitment in the table, or  *)
(* is its first issuance.                                                  *)
LEMMA FirstOfTodo ==
    ASSUME LogSound, Lawful, NEW b \in Int, NEW table, NEW todo, todo # <<>>, todo \in Seq(Event), TodoSound(todo, b, table)
    PROVE  LET e == todo[1]
           IN  /\ e.kind # Issued => table[e.commitment] # NoRow
               /\ e.kind = Issued /\ table[e.commitment] = NoRow =>
                      \A i \in DOMAIN log : IssuedAt(e.commitment, i) => e.block <= log[i].block
<1>1. PICK L \in Nat : L = Len(todo) /\ L >= 1
  OBVIOUS
<1>2. PICK e \in Event : e = todo[1]
  BY <1>1
<1>3. PICK c \in Commitments : c = e.commitment
  BY <1>2 DEF Event
<1>4. 1 \in 1..L /\ \A p \in 1..L : p = 1 \/ 1 < p
  BY <1>1
<1>5. PICK j \in DOMAIN log : e = log[j] /\ log[j].block <= b
  BY <1>1, <1>2, <1>4 DEF TodoSound
<1>6. /\ DOMAIN log = 1..Len(log) /\ Len(log) \in Nat /\ \A i \in DOMAIN log : log[i].block \in Nat
      /\ \A i, k \in DOMAIN log : i <= k => log[i].block <= log[k].block
  BY LogFacts
<1>7. \A p, q \in 1..L : p < q /\ todo[q].kind = Issued => todo[p].kind = Issued /\ todo[p].block <= todo[q].block
  BY <1>1 DEF TodoSound
<1>8. \A i \in DOMAIN log : log[i].block <= b => Stored(log[i], table) \/ \E p \in 1..L : todo[p] = log[i]
  BY <1>1 DEF TodoSound
<1>9. ASSUME e.kind # Issued PROVE table[c] # NoRow
  <2>1. RevokedAt(c, j)
    BY <1>3, <1>5, <1>9 DEF RevokedAt
  <2>2. PICK i \in 1..(j - 1) : IssuedAt(c, i)
    BY <1>6, <2>1, IssuedBefore
  <2>3. i \in DOMAIN log /\ i <= j
    BY <1>6
  <2>4. log[i].block <= b
    <3>1. log[i].block <= log[j].block
      BY <1>6, <2>3
    <3> QED BY <1>5, <1>6, <2>3, <3>1
  <2>5. Stored(log[i], table)
    <3>1. ASSUME NEW p \in 1..L, todo[p] = log[i] PROVE FALSE
      <4>1. todo[p].kind = Issued
        BY <2>2, <3>1 DEF IssuedAt
      <4>2. p = 1
        BY <1>2, <1>4, <1>7, <1>9, <4>1
      <4> QED BY <1>2, <1>9, <4>1, <4>2
    <3> QED BY <1>8, <2>3, <2>4, <3>1
  <2> QED BY <2>2, <2>5 DEF Stored, IssuedAt
<1>10. ASSUME e.kind = Issued, table[c] = NoRow, NEW i \in DOMAIN log, IssuedAt(c, i)
       PROVE  e.block <= log[i].block
  <2>1. e.block = log[j].block /\ log[j].block \in Nat /\ log[i].block \in Nat
    BY <1>5, <1>6
  <2>2. CASE ~ (log[i].block <= b)
    BY <1>5, <2>1, <2>2
  <2>3. CASE log[i].block <= b
    <3>1. ~ Stored(log[i], table)
      BY <1>10 DEF Stored, IssuedAt
    <3>2. PICK p \in 1..L : todo[p] = log[i]
      BY <1>8, <2>3, <3>1
    <3>3. CASE p = 1
      BY <1>2, <2>1, <3>2, <3>3
    <3>4. CASE 1 < p
      <4>1. todo[p].kind = Issued
        BY <1>10, <3>2 DEF IssuedAt
      <4>2. todo[1].block <= todo[p].block
        BY <1>4, <1>7, <3>4, <4>1
      <4> QED BY <1>2, <3>2, <4>2
    <3> QED BY <1>4, <3>3, <3>4
  <2> QED BY <2>2, <2>3
<1> QED BY <1>2, <1>3, <1>9, <1>10

LEMMA StoreKeeps ==
    ASSUME LogSound, Lawful, log \in Seq(Event), IndexSound, StoreNext
    PROVE  IndexSound'
<1>1. PICK table, last, failed, index :
          /\ table = rows /\ last = lastBlock /\ failed = syncError /\ index = indexer
          /\ IndexWell(table, last, failed, index)
  BY IndexNow
<1>2. PICK todo \in Seq(Event), from \in Nat, latest \in Nat :
          todo = index.todo /\ from = index.from /\ latest = index.latest
  BY <1>1 DEF IndexWell
<1>3. PICK e : e = Head(todo)
  OBVIOUS
<1>4. PICK rest : rest = Tail(todo)
  OBVIOUS
<1>5. PICK after : after = StoreEvent(table, e)
  OBVIOUS
<1>6. PICK new : new = [index EXCEPT !.todo = rest]
  OBVIOUS
<1>7. /\ UNCHANGED <<log, head>> /\ rows' = after /\ lastBlock' = last /\ syncError' = failed
      /\ index.pc = "store" /\ todo # <<>> /\ indexer' = new
  BY <1>1, <1>2, <1>3, <1>4, <1>5, <1>6 DEF StoreNext
<1>8. PICK L \in Nat : L = Len(todo) /\ L >= 1
  BY <1>7
<1>9. e = todo[1] /\ e \in Event /\ rest \in Seq(Event) /\ Len(rest) = L - 1
      /\ \A p \in 1..(L - 1) : rest[p] = todo[p + 1]
  BY <1>3, <1>4, <1>7, <1>8, HeadTailProperties
<1>10. PICK b \in Int : b = from - 1
  OBVIOUS
<1>11. /\ TableSound(table) /\ from <= latest + 1 /\ TodoSound(todo, b, table)
       /\ latest <= head /\ last \in 0..head /\ DoneTo(last, table) /\ failed \in BOOLEAN
       /\ index \in [pc : {"idle", "query", "store"}, from : Nat, latest : Nat, todo : Seq(Event)]
  BY <1>1, <1>2, <1>7, <1>10 DEF IndexWell
<1>12. PICK c \in Commitments : c = e.commitment
  BY <1>9 DEF Event
<1>13. /\ e.kind # Issued => table[c] # NoRow
       /\ e.kind = Issued /\ table[c] = NoRow => \A i \in DOMAIN log : IssuedAt(c, i) => e.block <= log[i].block
  BY <1>7, <1>9, <1>11, <1>12, FirstOfTodo
<1>14. PICK j \in DOMAIN log : e = log[j] /\ log[j].block <= b
  <2>1. 1 \in 1..Len(todo)
    BY <1>8
  <2> QED BY <1>9, <1>11, <2>1 DEF TodoSound
<1>15. \A f : f.commitment \in Commitments /\ Stored(f, table) => Stored(f, after)
  BY <1>5, <1>9, <1>11, StoredStays
<1>16. \A i \in DOMAIN log : log[i].commitment \in Commitments
  <2>1. \A i \in DOMAIN log : log[i] \in Event
    BY LogFacts, ElementOfSeq
  <2> QED BY <2>1 DEF Event
<1>17. TableSound(after)
  <2>1. table \in Rows
    BY <1>11 DEF TableSound
  <2>2. after \in Rows
    BY <1>5, <1>9, <1>12, <2>1, RowAfter
  <2>3. ASSUME NEW d \in Commitments PROVE RowSound(d, after[d])
    <3>1. CASE table[d] # NoRow
      <4>1. after[d].at = table[d].at
        BY <1>5, <1>9, <1>11, <3>1, RowStays
      <4>2. RowSound(d, table[d])
        BY <1>11 DEF TableSound
      <4> QED BY <3>1, <4>1, <4>2 DEF RowSound
    <3>2. CASE table[d] = NoRow /\ d # c
      <4>1. after[d] = table[d]
        BY <1>5, <1>9, <1>12, <2>1, <3>2, RowAfter
      <4> QED BY <3>2, <4>1 DEF RowSound
    <3>3. CASE table[d] = NoRow /\ d = c
      <4>1. e.kind = Issued
        BY <1>13, <3>3
      <4>2. after[c] = IF table[c] = NoRow THEN [at |-> e.block, active |-> TRUE] ELSE table[c]
        BY <1>5, <1>9, <1>12, <2>1, <4>1, RowAfter
      <4>3. after[c] = [at |-> e.block, active |-> TRUE]
        BY <3>3, <4>2
      <4>4. after[c].at = e.block
        BY <4>3
      <4>5. e.block \in 1..head
        <5>1. e.block \in Nat /\ e.block >= 1
          BY <1>9, EventIs
        <5>2. b \in Int /\ b <= head /\ head \in Nat
          BY <1>10, <1>11, LogFacts
        <5> QED BY <1>14, <5>1, <5>2
      <4>6. IssuedBy(c, e.block)
        <5>1. log[j].kind = Issued /\ log[j].commitment = c
          BY <1>12, <1>14, <4>1
        <5>2. log[j].block <= e.block
          BY <1>14, <4>5
        <5> QED BY <5>1, <5>2 DEF IssuedBy
      <4>7. ~ IssuedBy(c, e.block - 1)
        <5> SUFFICES ASSUME NEW i \in DOMAIN log, log[i].kind = Issued, log[i].commitment = c,
                            log[i].block <= e.block - 1
                     PROVE  FALSE
          BY DEF IssuedBy
        <5>1. e.block <= log[i].block
          BY <1>13, <3>3, <4>1 DEF IssuedAt
        <5>2. log[i].block \in Nat
          BY LogFacts
        <5> QED BY <4>5, <5>1, <5>2
      <4>8. RowSound(c, after[c])
        <5>1. PICK row : row = after[c]
          OBVIOUS
        <5>2. row.at = e.block
          BY <4>4, <5>1
        <5>3. RowSound(c, row)
          BY <4>5, <4>6, <4>7, <5>2 DEF RowSound
        <5> QED BY <5>1, <5>3
      <4> QED BY <3>3, <4>8
    <3> QED BY <3>1, <3>2, <3>3
  <2> QED BY <2>2, <2>3 DEF TableSound
<1>18. DoneTo(last, after)
  BY <1>11, <1>15, <1>16 DEF DoneTo
<1>19. TodoSound(rest, b, after)
  <2>1. \A p \in 1..(L - 1) : p + 1 \in 1..L /\ rest[p] = todo[p + 1]
    BY <1>8, <1>9
  <2>2. ASSUME NEW p \in 1..(L - 1) PROVE \E i \in DOMAIN log : rest[p] = log[i] /\ log[i].block <= b
    <3>1. p + 1 \in 1..L /\ rest[p] = todo[p + 1]
      BY <2>1
    <3>2. \A q \in 1..L : \E i \in DOMAIN log : todo[q] = log[i] /\ log[i].block <= b
      BY <1>8, <1>11 DEF TodoSound
    <3> QED BY <3>1, <3>2
  <2>3. ASSUME NEW p \in 1..(L - 1), NEW q \in 1..(L - 1), p < q, rest[q].kind = Issued
        PROVE  rest[p].kind = Issued /\ rest[p].block <= rest[q].block
    <3>1. p + 1 \in 1..L /\ q + 1 \in 1..L /\ p + 1 < q + 1 /\ rest[p] = todo[p + 1] /\ rest[q] = todo[q + 1]
      BY <2>1, <2>3
    <3>2. \A r, s \in 1..L : r < s /\ todo[s].kind = Issued => todo[r].kind = Issued /\ todo[r].block <= todo[s].block
      BY <1>8, <1>11 DEF TodoSound
    <3> QED BY <2>3, <3>1, <3>2
  <2>4. ASSUME NEW i \in DOMAIN log, log[i].block <= b
        PROVE  Stored(log[i], after) \/ \E p \in 1..(L - 1) : rest[p] = log[i]
    <3>1. CASE Stored(log[i], table)
      BY <1>15, <1>16, <3>1
    <3>2. CASE \E p \in 1..L : todo[p] = log[i]
      <4>1. PICK p \in 1..L : todo[p] = log[i]
        BY <3>2
      <4>2. CASE p = 1
        <5>1. Stored(e, after)
          BY <1>5, <1>9, <1>11, <1>12, <1>13, StoredNow
        <5> QED BY <1>9, <4>1, <4>2, <5>1
      <4>3. CASE p # 1
        <5>1. p - 1 \in 1..(L - 1) /\ (p - 1) + 1 = p
          BY <4>3
        <5>2. rest[p - 1] = log[i]
          BY <2>1, <4>1, <5>1
        <5> QED BY <5>1, <5>2
      <4> QED BY <4>2, <4>3
    <3> QED BY <1>8, <1>11, <2>4, <3>1, <3>2 DEF TodoSound
  <2> QED BY <1>9, <2>2, <2>3, <2>4 DEF TodoSound
<1>20. /\ new \in [pc : {"idle", "query", "store"}, from : Nat, latest : Nat, todo : Seq(Event)]
       /\ new.pc = "store" /\ new.from = from /\ new.latest = latest /\ new.todo = rest
  BY <1>2, <1>6, <1>7, <1>9, <1>11
<1>21. IndexWell(after, last, failed, new)
  BY <1>10, <1>11, <1>17, <1>18, <1>19, <1>20 DEF IndexWell
<1> QED BY <1>7, <1>21, IndexNext

-----------------------------------------------------------------------------
(* What a call of the SDK has read.                                        *)

SdkCalls == [call : {"none", "prove", "members"}, as : Leaf, latest : [{Issued, Revoked} -> Int],
             pc : {"ready", "scan", "listed", "proved", "failed", "verified"}, result : Leaves]

SeenBy(c, b) == \E n \in Len(EventsUpTo(b))..Len(log) : c \in ToSet(Tree(SubSeq(log, 1, n)))

SdkWell(call) ==
    /\ call \in SdkCalls
    /\ \A k \in {Issued, Revoked} : call.latest[k] <= head
    /\ call.pc = "proved" /\ call.latest[Issued] = call.latest[Revoked] =>
           call.result = Tree(EventsUpTo(call.latest[Issued]))
    /\ call.pc = "listed" /\ call.latest[Issued] = call.latest[Revoked] => IsInjective(call.result)
    /\ call.pc = "listed" => \A c \in ToSet(call.result) : \E k \in {Issued, Revoked} : SeenBy(c, call.latest[k])

SdkReads == SdkWell(sdk)

LEMMA ReadsAre == ASSUME SdkReads PROVE RebuildMatches /\ ListedWereActive
BY DEF SdkReads, SdkWell, RebuildMatches, ListedWereActive, SeenBy

LEMMA LenUpTo == ASSUME LogSound, NEW b \in Int PROVE Len(EventsUpTo(b)) \in 0..Len(log)
<1>1. PICK N \in Nat : N = Len(log)
  BY LogFacts
<1>2. PICK c \in 0..N : c = Cut(b)
  BY <1>1, CutIs
<1>3. Len(SubSeq(log, 1, c)) = c
  <2>1. \A i \in 1..c : log[i] \in GroupEvent
    BY <1>1, LogFacts, ElementOfSeq
  <2>2. 1 \in Int /\ c \in Int
    OBVIOUS
  <2>3. Len(SubSeq(log, 1, c)) = IF 1 <= c THEN c - 1 + 1 ELSE 0
    BY <2>1, <2>2, SubSeqProperties
  <2> QED BY <2>3
<1> QED BY <1>1, <1>2, <1>3, UpToIs

LEMMA SeenStays ==
    ASSUME LogSound, ChainStep, NEW b \in Int, b <= head, NEW c, SeenBy(c, b)
    PROVE  SeenBy(c, b)'
<1>1. PICK n \in Len(EventsUpTo(b))..Len(log) : c \in ToSet(Tree(SubSeq(log, 1, n)))
  BY DEF SeenBy
<1>2. EventsUpTo(b)' = EventsUpTo(b) /\ Len(EventsUpTo(b)) \in 0..Len(log)
  BY CutKept, LenUpTo
<1>3. Len(log) \in Nat /\ LogSound' /\ \A m \in 1..Len(log) : m \in 1..Len(log') /\ SubSeq(log', 1, m) = SubSeq(log, 1, m)
  BY LogFacts, LogStep
<1>4. Len(log') \in Nat
  BY <1>3 DEF LogSound
<1>5. SubSeq(log', 1, n) = SubSeq(log, 1, n) /\ n \in 0..Len(log')
  <2>1. CASE n = 0
    <3>1. SubSeq(log', 1, 0) = <<>> /\ SubSeq(log, 1, 0) = <<>>
      BY SubSeqEmpty
    <3> QED BY <1>4, <2>1, <3>1
  <2>2. CASE n # 0
    <3>1. n \in 1..Len(log)
      BY <1>2, <1>3, <2>2
    <3> QED BY <1>3, <1>4, <3>1
  <2> QED BY <2>1, <2>2
<1>6. n \in Len(EventsUpTo(b))..Len(log')
  BY <1>2, <1>3, <1>4, <1>5
<1>7. c \in ToSet(Tree(SubSeq(log', 1, n)))
  BY <1>1, <1>5
<1>8. n \in Len(EventsUpTo(b)')..Len(log')
  BY <1>2, <1>6
<1> QED BY <1>7, <1>8 DEF SeenBy

LEMMA SdkGrows ==
    ASSUME LogSound, ChainStep, NEW call, SdkWell(call), sdk' = call
    PROVE  SdkReads'
<1>1. call \in SdkCalls /\ \A k \in {Issued, Revoked} : call.latest[k] \in Int /\ call.latest[k] <= head
  BY DEF SdkWell, SdkCalls
<1>2. head \in Nat /\ head' \in Nat /\ head <= head'
  BY LogStep, LogFacts DEF LogSound
<1>3. \A k \in {Issued, Revoked} : call.latest[k] <= head'
  BY <1>1, <1>2
<1>4. PICK a \in Int : a = call.latest[Issued] /\ a <= head
  BY <1>1
<1>5. EventsUpTo(a)' = EventsUpTo(a)
  BY <1>4, CutKept
<1>6. call.pc = "proved" /\ a = call.latest[Revoked] => call.result = Tree(EventsUpTo(a))'
  BY <1>4, <1>5 DEF SdkWell
<1>7. call.pc = "listed" => \A c \in ToSet(call.result) : \E k \in {Issued, Revoked} : SeenBy(c, call.latest[k])'
  <2> SUFFICES ASSUME call.pc = "listed", NEW c \in ToSet(call.result)
               PROVE  \E k \in {Issued, Revoked} : SeenBy(c, call.latest[k])'
    OBVIOUS
  <2>1. PICK k \in {Issued, Revoked} : SeenBy(c, call.latest[k])
    BY DEF SdkWell
  <2>2. PICK b \in Int : b = call.latest[k] /\ b <= head
    BY <1>1
  <2>3. SeenBy(c, b)'
    BY <2>1, <2>2, SeenStays
  <2> QED BY <2>2, <2>3
<1>8. SdkWell(call)'
  BY <1>1, <1>3, <1>4, <1>6, <1>7 DEF SdkWell
<1> QED BY <1>8 DEF SdkReads

(* A call that has returned nothing.                                       *)
LEMMA NoCallIs == NoCall \in SdkCalls /\ \A k \in {Issued, Revoked} : NoCall.latest[k] = -1
<1>1. PICK latest : latest = [k \in {Issued, Revoked} |-> -1]
  OBVIOUS
<1>2. latest \in [{Issued, Revoked} -> Int] /\ \A k \in {Issued, Revoked} : latest[k] = -1
  BY <1>1
<1>3. <<>> \in Leaves /\ None \in Leaf
  BY DEF Leaves, Leaf
<1>4. NoCall = [call |-> "none", as |-> None, latest |-> latest, pc |-> "ready", result |-> <<>>]
  BY <1>1 DEF NoCall
<1> QED BY <1>2, <1>3, <1>4 DEF SdkCalls

LEMMA SdkFresh ==
    ASSUME LogSound, NEW c \in Leaf, NEW call \in {"none", "prove", "members"}, NEW pc \in {"ready", "scan"},
           NEW new, new = [NoCall EXCEPT !.call = call, !.as = c, !.pc = pc]
    PROVE  SdkWell(new)
<1>1. PICK none \in SdkCalls : none = NoCall /\ \A k \in {Issued, Revoked} : none.latest[k] = -1
  BY NoCallIs
<1>2. new = [none EXCEPT !.call = call, !.as = c, !.pc = pc]
  BY <1>1
<1>3. new \in SdkCalls /\ new.pc = pc /\ new.latest = none.latest
  BY <1>2 DEF SdkCalls
<1>4. head \in Nat
  BY LogFacts
<1>5. \A k \in {Issued, Revoked} : new.latest[k] <= head
  BY <1>1, <1>3, <1>4
<1>6. new.pc # "proved" /\ new.pc # "listed"
  BY <1>3
<1> QED BY <1>3, <1>5, <1>6 DEF SdkWell

LEMMA StartReads ==
    ASSUME LogSound, NEW call \in {"prove", "members"}, NEW c \in Leaf, StartCall(call, c)
    PROVE  SdkReads'
<1>1. PICK new : new = [NoCall EXCEPT !.call = call, !.as = c, !.pc = "scan"]
  OBVIOUS
<1>2. sdk' = new
  BY <1>1 DEF StartCall
<1>3. SdkWell(new)
  BY <1>1, SdkFresh
<1>4. ChainStep
  BY DEF StartCall, ChainStep
<1> QED BY <1>2, <1>3, <1>4, SdkGrows

LEMMA LatestReads ==
    ASSUME LogSound, SdkReads, NEW kind \in {Issued, Revoked}, ReadLatest(kind)
    PROVE  SdkReads'
<1>1. PICK old \in SdkCalls : old = sdk /\ SdkWell(old)
  BY DEF SdkReads, SdkWell
<1>2. PICK latest : latest = [old.latest EXCEPT ![kind] = head]
  OBVIOUS
<1>3. PICK new : new = [old EXCEPT !.latest = latest]
  OBVIOUS
<1>4. sdk' = new /\ old.pc = "scan"
  BY <1>1, <1>2, <1>3 DEF ReadLatest, SdkCalls
<1>5. head \in Nat
  BY LogFacts
<1>6. old.latest \in [{Issued, Revoked} -> Int] /\ \A k \in {Issued, Revoked} : old.latest[k] <= head
  BY <1>1 DEF SdkCalls, SdkWell
<1>7. latest \in [{Issued, Revoked} -> Int] /\ \A k \in {Issued, Revoked} : latest[k] <= head
  BY <1>2, <1>5, <1>6
<1>8. new \in SdkCalls /\ new.latest = latest /\ new.pc = "scan"
  BY <1>3, <1>4, <1>7 DEF SdkCalls
<1>9. SdkWell(new)
  BY <1>7, <1>8 DEF SdkWell
<1>10. ChainStep
  BY DEF ReadLatest, ChainStep
<1> QED BY <1>4, <1>9, <1>10, SdkGrows

LEMMA ScannedIs ==
    ASSUME SdkReads, Scanned
    PROVE  \E early \in Nat, late \in Nat :
               /\ sdk.latest[Issued] = early /\ sdk.latest[Revoked] = late
               /\ ScannedEvents(Issued) = QueryFilterPaged(Issued, early)
               /\ ScannedEvents(Revoked) = QueryFilterPaged(Revoked, late)
<1>1. sdk.latest \in [{Issued, Revoked} -> Int]
  BY DEF SdkReads, SdkWell, SdkCalls
<1>2. PICK a \in Int, b \in Int : a = sdk.latest[Issued] /\ b = sdk.latest[Revoked]
  BY <1>1
<1>3. a >= 0 /\ b >= 0
  BY <1>2 DEF Scanned
<1>4. a \in Nat /\ b \in Nat
  BY <1>3
<1> QED BY <1>2, <1>4 DEF ScannedEvents

LEMMA ListReads ==
    ASSUME LogSound, Dated, Lawful, SdkReads, ListMembers
    PROVE  SdkReads'
<1>1. PICK old \in SdkCalls : old = sdk /\ SdkWell(old)
  BY DEF SdkReads, SdkWell
<1>2. Scanned
  BY DEF ListMembers
<1>3. PICK early \in Nat, late \in Nat :
               /\ old.latest[Issued] = early /\ old.latest[Revoked] = late
               /\ ScannedEvents(Issued) = QueryFilterPaged(Issued, early)
               /\ ScannedEvents(Revoked) = QueryFilterPaged(Revoked, late)
  BY <1>1, <1>2, ScannedIs
<1>4. PICK list : list = GroupMembersOf(QueryFilterPaged(Issued, early), QueryFilterPaged(Revoked, late))
  OBVIOUS
<1>5. PICK new : new = [old EXCEPT !.pc = "listed", !.result = list]
  OBVIOUS
<1>6. sdk' = new
  BY <1>1, <1>3, <1>4, <1>5 DEF ListMembers
<1>7. /\ list \in Seq(Commitments)
      /\ early = late => IsInjective(list)
      /\ \A c \in ToSet(list) : \E b \in {early, late} : SeenBy(c, b)
  BY <1>4, ListingIs DEF SeenBy
<1>8. list \in Leaves
  BY <1>7, SeqMonotonic DEF Leaves, Leaf
<1>9. new \in SdkCalls /\ new.latest = old.latest /\ new.pc = "listed" /\ new.result = list
  BY <1>5, <1>8 DEF SdkCalls
<1>10. \A c \in ToSet(list) : \E k \in {Issued, Revoked} : SeenBy(c, old.latest[k])
  BY <1>3, <1>7
<1>11. \A k \in {Issued, Revoked} : new.latest[k] <= head
  BY <1>1, <1>9 DEF SdkWell
<1>12. SdkWell(new)
  BY <1>3, <1>7, <1>9, <1>10, <1>11 DEF SdkWell
<1>13. ChainStep
  BY DEF ListMembers, ChainStep
<1> QED BY <1>6, <1>12, <1>13, SdkGrows

LEMMA ScansTyped ==
    ASSUME LogSound, Dated, NEW early \in Nat, NEW late \in Nat
    PROVE  BuildGroup(QueryFilterPaged(Issued, early), QueryFilterPaged(Revoked, late)) \in Leaves
<1>1. PICK F : FoundBy(F, Issued, 0, head)
  BY FiltersExist
<1>2. PICK G : FoundBy(G, Revoked, 0, head)
  BY FiltersExist
<1>3. QueryFilterPaged(Issued, early) = F[Cut(early)] /\ QueryFilterPaged(Revoked, late) = G[Cut(late)]
  BY <1>1, <1>2, ScanIs
<1>4. early \in Int /\ late \in Int
  OBVIOUS
<1>5. Cut(early) \in 0..Len(log) /\ Cut(late) \in 0..Len(log)
  BY <1>4, CutIs
<1>6. F[Cut(early)] \in Seq(GroupEvent)
  BY <1>1, <1>5 DEF FoundBy
<1>7. G[Cut(late)] \in Seq(GroupEvent)
  BY <1>2, <1>5 DEF FoundBy
<1>8. F[Cut(early)] \o G[Cut(late)] \in Seq(GroupEvent)
  BY <1>6, <1>7, ConcatProperties
<1> QED BY <1>3, <1>8, TreeTyped DEF BuildGroup

LEMMA ProofReads ==
    ASSUME LogSound, Dated, Lawful, SdkReads, GenerateProof
    PROVE  SdkReads'
<1>1. PICK old \in SdkCalls : old = sdk /\ SdkWell(old)
  BY DEF SdkReads, SdkWell
<1>2. Scanned
  BY DEF GenerateProof
<1>3. PICK early \in Nat, late \in Nat :
               /\ old.latest[Issued] = early /\ old.latest[Revoked] = late
               /\ ScannedEvents(Issued) = QueryFilterPaged(Issued, early)
               /\ ScannedEvents(Revoked) = QueryFilterPaged(Revoked, late)
  BY <1>1, <1>2, ScannedIs
<1>4. PICK tree : tree = BuildGroup(QueryFilterPaged(Issued, early), QueryFilterPaged(Revoked, late))
  OBVIOUS
<1>5. PICK pc \in {"failed", "proved"} : pc = IF old.as \notin ToSet(tree) THEN "failed" ELSE "proved"
  OBVIOUS
<1>6. PICK new : new = [old EXCEPT !.pc = pc, !.result = tree]
  OBVIOUS
<1>7. sdk' = new
  BY <1>1, <1>3, <1>4, <1>5, <1>6 DEF GenerateProof
<1>8. tree \in Leaves
  BY <1>4, ScansTyped
<1>9. early = late => tree = Tree(EventsUpTo(early))
  BY <1>4, RebuildIs
<1>10. new \in SdkCalls /\ new.latest = old.latest /\ new.pc = pc /\ new.result = tree
  BY <1>5, <1>6, <1>8 DEF SdkCalls
<1>11. \A k \in {Issued, Revoked} : new.latest[k] <= head
  BY <1>1, <1>10 DEF SdkWell
<1>12. new.pc # "listed"
  BY <1>5, <1>10
<1>13. SdkWell(new)
  BY <1>3, <1>9, <1>10, <1>11, <1>12 DEF SdkWell
<1>14. ChainStep
  BY DEF GenerateProof, ChainStep
<1> QED BY <1>7, <1>13, <1>14, SdkGrows

LEMMA EndsRead ==
    ASSUME LogSound, SdkReads, CallFails \/ GateVerifies
    PROVE  SdkReads'
<1>1. PICK old \in SdkCalls : old = sdk /\ SdkWell(old)
  BY DEF SdkReads, SdkWell
<1>2. \E pc \in {"failed", "verified"} : sdk' = [old EXCEPT !.pc = pc]
  <2>1. CASE CallFails
    BY <1>1, <2>1 DEF CallFails
  <2>2. CASE GateVerifies
    <3>1. sdk' = [old EXCEPT !.pc = IF RootAccepted(old.result) THEN "verified" ELSE "failed"]
      BY <1>1, <2>2 DEF GateVerifies
    <3>2. CASE RootAccepted(old.result)
      BY <3>1, <3>2
    <3>3. CASE ~ RootAccepted(old.result)
      BY <3>1, <3>3
    <3> QED BY <3>2, <3>3
  <2> QED BY <2>1, <2>2
<1>3. PICK pc \in {"failed", "verified"} : sdk' = [old EXCEPT !.pc = pc]
  BY <1>2
<1>4. PICK new : new = [old EXCEPT !.pc = pc]
  OBVIOUS
<1>5. new \in SdkCalls /\ new.latest = old.latest /\ new.pc # "listed" /\ new.pc # "proved"
  BY <1>4 DEF SdkCalls
<1>6. SdkWell(new)
  BY <1>1, <1>5 DEF SdkWell
<1>7. ChainStep
  BY DEF CallFails, GateVerifies, ChainStep
<1> QED BY <1>3, <1>4, <1>6, <1>7, SdkGrows

-----------------------------------------------------------------------------
(* All the readers of the events.                                          *)

PageForm == page.step \in 0..4 /\ page.pc \in {"idle", "issuing", "fallback", "proving"}
RoundsSound == currentRound \in Nat \ {0} /\ \A k \in claims : k.round \in 1..currentRound
FaultsSound == faults \in 0..MaxFaults
FormSound == PageForm /\ RoundsSound /\ FaultsSound

MembersIInv == DemoIInv /\ ChainLaw /\ IndexSound /\ SdkReads /\ FormSound

LEMMA MembersInitSound == ASSUME DemoInit PROVE MembersIInv
<1>1. DemoIInv
  BY DemoInitSound
<1>2. log = <<>> /\ head = 0
  BY DEF DemoInit
<1>3. MaxFaults \in Nat \ {0} /\ MaxBlocks \in Nat
  BY GroupMembersAssumption, DemoClientsAssumption
<1>4. ChainLaw
  <2>1. log \in Seq(Event) /\ Len(log) = 0 /\ head \in 0..MaxBlocks
    BY <1>2, <1>3
  <2>2. Lawful
    BY <2>1 DEF Lawful
  <2> QED BY <1>1, <2>1, <2>2 DEF ChainLaw, DemoIInv
<1>5. IndexSound
  <2>1. /\ rows = [c \in Commitments |-> NoRow] /\ lastBlock = 0 /\ syncError = FALSE /\ indexer = Idle
    BY DEF DemoInit
  <2>2. rows \in Rows /\ \A c \in Commitments : rows[c] = NoRow
    <3>1. NoRow \in [at : 0..MaxBlocks, active : BOOLEAN]
      BY <1>3 DEF NoRow
    <3> QED BY <2>1, <3>1 DEF Rows
  <2>3. TableSound(rows)
    BY <2>2 DEF TableSound, RowSound
  <2>4. DOMAIN log = {}
    BY <1>2
  <2>5. DoneTo(lastBlock, rows)
    BY <2>4 DEF DoneTo
  <2>6. Idle.pc = "idle" /\ Idle \in [pc : {"idle", "query", "store"}, from : Nat, latest : Nat, todo : Seq(Event)]
    BY DEF Idle
  <2>7. lastBlock \in 0..head /\ syncError \in BOOLEAN
    <3>1. 0 \in 0..0 /\ FALSE \in BOOLEAN
      OBVIOUS
    <3>2. lastBlock = 0 /\ head = 0 /\ syncError = FALSE
      BY <1>2, <2>1
    <3> QED BY <3>1, <3>2, Zenon
  <2>8. indexer.pc # "query" /\ indexer.pc # "store" /\ indexer.pc = "idle"
    BY <2>1, <2>6
  <2>9. indexer \in [pc : {"idle", "query", "store"}, from : Nat, latest : Nat, todo : Seq(Event)]
    BY <2>1, <2>6
  <2> QED BY <2>3, <2>5, <2>7, <2>8, <2>9 DEF IndexSound
<1>6. SdkReads
  <2>1. PICK none \in SdkCalls : none = NoCall /\ none.pc = "ready" /\ \A k \in {Issued, Revoked} : none.latest[k] = -1
    <3>1. NoCall.pc = "ready"
      BY DEF NoCall
    <3> QED BY <3>1, NoCallIs
  <2>2. \A k \in {Issued, Revoked} : none.latest[k] <= head
    BY <1>2, <2>1
  <2>3. SdkWell(none)
    BY <2>1, <2>2 DEF SdkWell
  <2> QED BY <2>1, <2>3 DEF SdkReads, DemoInit
<1>7. PageForm
  BY DEF DemoInit, FreshPage, PageForm
<1>8. RoundsSound
  BY DEF DemoInit, RoundsSound
<1>9. FaultsSound
  <2>1. faults = MaxFaults - 1 \/ faults = 0
    BY DEF DemoInit
  <2> QED BY <1>3, <2>1 DEF FaultsSound
<1> QED BY <1>1, <1>4, <1>5, <1>6, <1>7, <1>8, <1>9 DEF MembersIInv, FormSound

(* A step of the chain, of the indexer or of the SDK leaves the others to  *)
(* what they know.                                                         *)
LEMMA AllKeep ==
    ASSUME MembersIInv, DemoIInv', LawStep, FormSound',
           UNCHANGED indexVars \/ IndexSound', UNCHANGED sdk \/ SdkReads'
    PROVE  MembersIInv'
<1>1. ChainLaw' /\ ChainStep /\ LogSound
  BY LawKept DEF MembersIInv, ChainLaw
<1>2. IndexSound'
  BY <1>1, IndexGrows DEF MembersIInv
<1>3. SdkReads'
  <2>1. ASSUME UNCHANGED sdk PROVE SdkReads'
    <3>1. PICK call : call = sdk /\ SdkWell(call)
      BY DEF MembersIInv, SdkReads
    <3>2. sdk' = call
      BY <2>1, <3>1
    <3> QED BY <1>1, <3>1, <3>2, SdkGrows
  <2> QED BY <2>1
<1> QED BY <1>1, <1>2, <1>3 DEF MembersIInv

CallStep ==
    \/ \E c \in Commitments : StartCall("prove", c)
    \/ StartCall("members", None)
    \/ \E kind \in {Issued, Revoked} : ReadLatest(kind)
    \/ ListMembers \/ GenerateProof \/ CallFails \/ GateVerifies

LEMMA CallsRead ==
    ASSUME MembersIInv, CallStep
    PROVE  SdkReads'
<1>1. LogSound /\ Dated /\ Lawful /\ SdkReads
  BY LawDates DEF MembersIInv, ChainLaw
<1>2. Commitments \subseteq Leaf /\ None \in Leaf
  BY DEF Leaf
<1>3. CASE \E c \in Commitments : StartCall("prove", c)
  BY <1>1, <1>2, <1>3, StartReads
<1>4. CASE StartCall("members", None)
  BY <1>1, <1>2, <1>4, StartReads
<1>5. CASE \E kind \in {Issued, Revoked} : ReadLatest(kind)
  BY <1>1, <1>5, LatestReads
<1>6. CASE ListMembers
  BY <1>1, <1>6, ListReads
<1>7. CASE GenerateProof
  BY <1>1, <1>7, ProofReads
<1>8. CASE CallFails \/ GateVerifies
  BY <1>1, <1>8, EndsRead
<1> QED BY <1>3, <1>4, <1>5, <1>6, <1>7, <1>8 DEF CallStep

LEMMA MembersGroupKeeps ==
    ASSUME MembersIInv, UNCHANGED clientVars,
           \/ OneTransaction \/ TwoTransactions
           \/ StartPass \/ SyncRange \/ StoreNext \/ NextChunk \/ EndPass \/ FailPass \/ Crash
           \/ CallStep
    PROVE  MembersIInv'
<1>1. DemoIInv'
  <2>1. GroupStep
    BY DEF GroupStep, CallStep
  <2> QED BY <2>1, GroupKeeps DEF MembersIInv
<1>2. PageForm' /\ RoundsSound'
  BY DEF MembersIInv, FormSound, PageForm, RoundsSound, clientVars
<1>3. /\ LogSound /\ Lawful /\ log \in Seq(Event) /\ IndexSound /\ ChainLaw
      /\ faults \in 0..MaxFaults /\ MaxFaults \in Nat
  BY GroupMembersAssumption DEF MembersIInv, ChainLaw, FormSound, FaultsSound
<1>4. CASE OneTransaction \/ TwoTransactions
  <2>1. LawStep
    BY <1>3, <1>4, TransactionsLawful
  <2>2. UNCHANGED indexVars /\ UNCHANGED sdk /\ UNCHANGED faults
    BY <1>4 DEF OneTransaction, TwoTransactions, MineBlock, indexVars
  <2>3. FormSound'
    BY <1>2, <1>3, <2>2 DEF FormSound, FaultsSound
  <2> QED BY <1>1, <2>1, <2>2, <2>3, AllKeep
<1>5. CASE StartPass \/ SyncRange \/ StoreNext \/ NextChunk \/ EndPass \/ FailPass \/ Crash
  <2>1. UNCHANGED <<log, head>> /\ UNCHANGED sdk
    BY <1>5 DEF StartPass, SyncRange, StoreNext, NextChunk, EndPass, FailPass, Crash
  <2>2. IndexSound'
    BY <1>3, <1>5, StartKeeps, SyncKeeps, StoreKeeps, ChunkKeeps, EndKeeps, StopKeeps
  <2>3. UNCHANGED faults \/ (faults < MaxFaults /\ faults' = faults + 1)
    BY <1>5 DEF StartPass, SyncRange, StoreNext, NextChunk, EndPass, FailPass, Crash
  <2>4. faults' \in 0..MaxFaults
    BY <1>3, <2>3
  <2>5. FormSound'
    BY <1>2, <2>4 DEF FormSound, FaultsSound
  <2> QED BY <1>1, <2>1, <2>2, <2>5, AllKeep DEF LawStep
<1>6. CASE CallStep
  <2>1. UNCHANGED <<log, head>> /\ UNCHANGED indexVars
    BY <1>6 DEF CallStep, StartCall, ReadLatest, ListMembers, GenerateProof, CallFails, GateVerifies, indexVars
  <2>2. SdkReads'
    BY <1>6, CallsRead
  <2>3. UNCHANGED faults \/ (faults < MaxFaults /\ faults' = faults + 1)
    BY <1>6 DEF CallStep, StartCall, ReadLatest, ListMembers, GenerateProof, CallFails, GateVerifies
  <2>4. faults' \in 0..MaxFaults
    BY <1>3, <2>3
  <2>5. FormSound'
    BY <1>2, <2>4 DEF FormSound, FaultsSound
  <2> QED BY <1>1, <2>1, <2>2, <2>5, AllKeep DEF LawStep
<1> QED BY <1>4, <1>5, <1>6

LEMMA ProveOverForm ==
    ASSUME PageSound, PageForm, NEW members, NEW w, page' = ProveOver(members, w)
    PROVE  PageForm'
<1>0. {"identity", "step", "pc", "wallet"} \subseteq DOMAIN page
  BY DEF PageSound
<1>1. CASE page.identity \notin ToSet(members)
  <2>1. page' = [page EXCEPT !.pc = "idle", !.seen = 0]
    BY <1>1 DEF ProveOver
  <2> QED BY <1>0, <2>1 DEF PageForm
<1>2. CASE page.identity \in ToSet(members)
  <2>1. PICK proof : page' = [page EXCEPT !.pc = "proving", !.wallet = w, !.seen = 0, !.proof = proof]
    BY <1>2 DEF ProveOver
  <2> QED BY <1>0, <2>1 DEF PageForm
<1> QED BY <1>1, <1>2

LEMMA PageForms ==
    ASSUME DemoIInv, PageForm, PageNext
    PROVE  PageForm'
<1>0. PageSound /\ {"identity", "step", "pc", "wallet"} \subseteq DOMAIN page
  BY DEF DemoIInv, ClientsSound, PageSound
<1>1. CASE Mount
  <2>1. page' = FreshPage \/ page' = [FreshPage EXCEPT !.identity = Loaded, !.step = 1]
    BY <1>1 DEF Mount
  <2>2. CASE page' = FreshPage
    BY <2>2 DEF FreshPage, PageForm
  <2>3. CASE page' = [FreshPage EXCEPT !.identity = Loaded, !.step = 1]
    BY <2>3 DEF FreshPage, PageForm
  <2> QED BY <2>1, <2>2, <2>3
<1>2. CASE PageIssues
  BY <1>0, <1>2 DEF PageIssues, PageForm
<1>3. CASE IssueReverts
  <2> PICK step \in {1, 2} : page' = [page EXCEPT !.pc = "idle", !.wallet = NoWallet, !.step = step]
    BY <1>3 DEF IssueReverts
  <2> QED BY <1>0 DEF PageForm
<1>4. CASE EndProof
  <2>1. CASE page' = [page EXCEPT !.pc = "idle", !.wallet = NoWallet, !.step = 3]
    BY <1>0, <2>1 DEF PageForm
  <2>2. CASE page' = [page EXCEPT !.pc = "idle", !.wallet = NoWallet, !.proof = NoProof]
    BY <1>0, <2>2 DEF PageForm
  <2> QED BY <1>4, <2>1, <2>2 DEF EndProof
<1>5. CASE ReadIssuedEvents
  BY <1>0, <1>5 DEF ReadIssuedEvents, PageForm
<1>6. CASE \E tx \in submitted : SubmittedIsMined(tx)
  BY <1>6 DEF SubmittedIsMined, PageForm
<1>7. CASE \E w \in Wallets : HandleConnect(w)
  BY <1>0, <1>7 DEF HandleConnect, PageForm
<1>8. CASE \E w \in Wallets : HandleIssueCredential(w)
  BY <1>0, <1>8 DEF HandleIssueCredential, PageForm
<1>9. CASE \E w \in Wallets : LoadFromIndexer(w) \/ ReadRevokedEvents(w)
  <2>1. PICK members, w : page' = ProveOver(members, w)
    BY <1>9 DEF LoadFromIndexer, ReadRevokedEvents
  <2> QED BY <1>0, <2>1, ProveOverForm
<1>10. CASE \E w \in Wallets : HandleMint(w)
  <2> PICK w \in Wallets : HandleMint(w)
    BY <1>10
  <2>1. \/ page' = [page EXCEPT !.step = 4, !.refused = "no"]
        \/ \E reason : page' = [page EXCEPT !.refused = reason]
    BY DEF HandleMint
  <2>2. CASE page' = [page EXCEPT !.step = 4, !.refused = "no"]
    BY <1>0, <2>2 DEF PageForm
  <2>3. CASE \E reason : page' = [page EXCEPT !.refused = reason]
    BY <1>0, <2>3 DEF PageForm
  <2> QED BY <2>1, <2>2, <2>3
<1> QED BY <1>1, <1>2, <1>3, <1>4, <1>5, <1>6, <1>7, <1>8, <1>9, <1>10 DEF PageNext

LEMMA MembersPageKeeps ==
    ASSUME MembersIInv, PageNext
    PROVE  MembersIInv'
<1> USE DEF UnchangedChain, UnchangedStore, UnchangedContracts
<1>0. /\ DemoIInv /\ PageForm /\ RoundsSound /\ FaultsSound /\ ChainLaw /\ PageSound
      /\ submitted \subseteq [wallet : Wallets, of : Commitments]
  BY DEF MembersIInv, FormSound, DemoIInv, ClientsSound
<1>1. DemoIInv' /\ PageForm'
  BY <1>0, PageKeeps, PageForms
<1>2. UNCHANGED <<claims, currentRound>>
  BY DEF PageNext, Mount, PageIssues, IssueReverts, EndProof, ReadIssuedEvents, SubmittedIsMined,
         HandleConnect, HandleIssueCredential, LoadFromIndexer, ReadRevokedEvents, HandleMint
<1>3. CASE PageIssues \/ \E tx \in submitted : SubmittedIsMined(tx)
  <2>1. \E w, c : c \in Commitments /\ SelfIssue(w, c)
    BY <1>0, <1>3 DEF PageIssues, SubmittedIsMined, PageSound
  <2>2. PICK w, c : c \in Commitments /\ SelfIssue(w, c)
    BY <2>1
  <2>3. LawStep
    BY <1>0, <2>2, SelfIssueLawful
  <2>4. UNCHANGED indexVars /\ UNCHANGED sdk /\ UNCHANGED faults
    BY <2>2 DEF SelfIssue, MineBlock, indexVars
  <2>5. FormSound'
    BY <1>0, <1>1, <1>2, <2>4 DEF FormSound, RoundsSound, FaultsSound
  <2> QED BY <1>1, <2>3, <2>4, <2>5, AllKeep
<1>4. CASE ~ (PageIssues \/ \E tx \in submitted : SubmittedIsMined(tx))
  <2>1. UNCHANGED <<log, head>> /\ UNCHANGED indexVars /\ UNCHANGED sdk /\ UNCHANGED faults
    BY <1>4 DEF PageNext, Mount, IssueReverts, EndProof, ReadIssuedEvents, indexVars,
         HandleConnect, HandleIssueCredential, LoadFromIndexer, ReadRevokedEvents, HandleMint
  <2>2. FormSound'
    BY <1>0, <1>1, <1>2, <2>1 DEF FormSound, RoundsSound, FaultsSound
  <2> QED BY <1>1, <2>1, <2>2, AllKeep DEF LawStep
<1> QED BY <1>3, <1>4

LEMMA CliReads ==
    ASSUME LogSound, SdkReads, CliNext, UNCHANGED <<log, head>>, CliSound
    PROVE  UNCHANGED sdk \/ SdkReads'
<1>1. ASSUME NEW w \in Wallets, sdk' = Prove(w) PROVE SdkReads'
  <2>1. PICK new : new = Prove(w)
    OBVIOUS
  <2>2. CliIdentity[w] \in Leaf
    BY DemoClientsAssumption DEF Leaf
  <2>3. SdkWell(new)
    BY <2>1, <2>2, SdkFresh DEF Prove
  <2> QED BY <1>1, <2>1, <2>3, SdkGrows DEF ChainStep
<1>2. ASSUME sdk' = NoCall PROVE SdkReads'
  <2>1. PICK new : new = NoCall
    OBVIOUS
  <2>2. NoCall \in SdkCalls /\ NoCall.pc = "ready"
    BY NoCallIs DEF NoCall
  <2>3. \A k \in {Issued, Revoked} : new.latest[k] <= head
    BY <2>1, NoCallIs, LogFacts
  <2>4. SdkWell(new)
    BY <2>1, <2>2, <2>3 DEF SdkWell
  <2> QED BY <1>2, <2>1, <2>4, SdkGrows DEF ChainStep
<1>3. \/ UNCHANGED sdk \/ sdk' = NoCall \/ \E w \in Wallets : sdk' = Prove(w)
  <2>1. CASE CliIssues
    BY <2>1 DEF CliIssues, SelfIssue, MineBlock
  <2>2. CASE CliReadsRound
    BY <2>2 DEF CliReadsRound, CliSound
  <2>3. CASE CliClaims \/ CliEnds
    BY <2>3 DEF CliClaims, CliEnds
  <2>4. CASE \E w \in Wallets : CliStart(w)
    BY <2>4 DEF CliStart
  <2> QED BY <2>1, <2>2, <2>3, <2>4 DEF CliNext
<1> QED BY <1>1, <1>2, <1>3

LEMMA MembersCliKeeps ==
    ASSUME MembersIInv, CliNext
    PROVE  MembersIInv'
<1> USE DEF UnchangedStore, UnchangedContracts
<1>0. /\ DemoIInv /\ PageForm /\ RoundsSound /\ FaultsSound /\ ChainLaw /\ LogSound /\ CliSound /\ SdkReads
  BY DEF MembersIInv, FormSound, DemoIInv, ClientsSound
<1>1. DemoIInv'
  BY <1>0, CliKeeps
<1>2. UNCHANGED indexVars /\ UNCHANGED faults /\ UNCHANGED page /\ UNCHANGED currentRound
  BY DEF CliNext, CliIssues, CliReadsRound, CliClaims, CliEnds, CliStart, SelfIssue, MineBlock, indexVars
<1>3. RoundsSound'
  <2>1. UNCHANGED claims \/ \E k : k.round = currentRound /\ claims' = claims \cup {k}
    <3>1. CASE CliClaims
      <4>1. PICK k : k = [round |-> currentRound, nullifier |-> Nullifier(cli.round, sdk.as),
                          tree |-> sdk.result, at |-> head]
        OBVIOUS
      <4>2. claims' = claims \cup {k}
        BY <3>1, <4>1 DEF CliClaims
      <4>3. k.round = currentRound
        BY <4>1
      <4> QED BY <4>2, <4>3
    <3>2. CASE CliIssues \/ CliReadsRound \/ CliEnds \/ \E w \in Wallets : CliStart(w)
      BY <3>2 DEF CliIssues, CliReadsRound, CliEnds, CliStart
    <3> QED BY <3>1, <3>2 DEF CliNext
  <2>2. CASE UNCHANGED claims
    BY <1>0, <1>2, <2>2 DEF RoundsSound
  <2>3. CASE \E k : k.round = currentRound /\ claims' = claims \cup {k}
    BY <1>0, <1>2, <2>3 DEF RoundsSound
  <2> QED BY <2>1, <2>2, <2>3
<1>4. FormSound'
  BY <1>0, <1>2, <1>3 DEF FormSound, PageForm, FaultsSound
<1>5. CASE CliIssues
  <2>1. \E w, c : c \in Commitments /\ SelfIssue(w, c)
    BY <1>0, <1>5, DemoClientsAssumption DEF CliIssues, CliSound
  <2>2. PICK w, c : c \in Commitments /\ SelfIssue(w, c)
    BY <2>1
  <2>3. LawStep /\ UNCHANGED sdk
    BY <1>0, <2>2, SelfIssueLawful DEF SelfIssue, MineBlock
  <2> QED BY <1>1, <1>2, <1>4, <2>3, AllKeep
<1>6. CASE CliReadsRound \/ CliClaims \/ CliEnds \/ \E w \in Wallets : CliStart(w)
  <2>1. UNCHANGED <<log, head>>
    BY <1>6 DEF CliReadsRound, CliEnds, CliClaims, CliStart
  <2>2. UNCHANGED sdk \/ SdkReads'
    BY <1>0, <2>1, CliReads
  <2> QED BY <1>1, <1>2, <1>4, <2>1, <2>2, AllKeep DEF LawStep
<1> QED BY <1>5, <1>6 DEF CliNext

LEMMA MembersStep ==
    ASSUME MembersIInv, [DemoNext]_demoVars
    PROVE  MembersIInv'
<1>0. PageForm /\ RoundsSound /\ FaultsSound /\ DemoIInv
  BY DEF MembersIInv, FormSound
<1>1. CASE StartNewRound
  <2>1. /\ UNCHANGED <<log, head>> /\ UNCHANGED indexVars /\ UNCHANGED sdk
        /\ UNCHANGED <<faults, page, claims>> /\ currentRound' = currentRound + 1
    BY <1>1 DEF StartNewRound, UnchangedChain, indexVars
  <2>2. RoundsSound'
    BY <1>0, <2>1 DEF RoundsSound
  <2>3. FormSound'
    BY <1>0, <2>1, <2>2 DEF FormSound, PageForm, FaultsSound
  <2>4. DemoIInv'
    BY <1>0, <1>1, RoundKeeps
  <2> QED BY <2>1, <2>3, <2>4, AllKeep DEF LawStep
<1>2. CASE UNCHANGED demoVars
  <2>1. /\ UNCHANGED <<log, head>> /\ UNCHANGED indexVars /\ UNCHANGED sdk
        /\ UNCHANGED <<faults, page, claims, currentRound>>
    BY <1>2 DEF demoVars, indexVars
  <2>2. FormSound'
    BY <1>0, <2>1 DEF FormSound, PageForm, RoundsSound, FaultsSound
  <2>3. DemoIInv'
    BY <1>0, <1>2, DemoStep
  <2> QED BY <2>1, <2>2, <2>3, AllKeep DEF LawStep
<1>3. CASE DemoNext /\ ~ StartNewRound
  <2>1. \/ /\ UNCHANGED clientVars
           /\ \/ OneTransaction \/ TwoTransactions
              \/ StartPass \/ SyncRange \/ StoreNext \/ NextChunk \/ EndPass \/ FailPass \/ Crash
              \/ CallStep
        \/ PageNext \/ CliNext
    BY <1>3 DEF DemoNext, CallStep
  <2> QED BY <2>1, MembersGroupKeeps, MembersPageKeeps, MembersCliKeeps
<1> QED BY <1>1, <1>2, <1>3

LEMMA MembersKnow == ASSUME MembersIInv PROVE MembersInv
<1>1. IndexedUpToCursor /\ RebuildMatches /\ ListedWereActive
  BY IndexedIs, ReadsAre DEF MembersIInv, ChainLaw
<1>2. log \in Seq(Event) /\ head \in 0..MaxBlocks
  BY DEF MembersIInv, ChainLaw
<1>3. /\ rows \in [Commitments -> [at : 0..MaxBlocks, active : BOOLEAN]]
      /\ lastBlock \in 0..head /\ syncError \in BOOLEAN
      /\ indexer.pc \in {"idle", "query", "store"} /\ indexer.todo \in Seq(Event)
  BY DEF MembersIInv, IndexSound, TableSound, Rows
<1>4. /\ sdk.pc \in {"ready", "scan", "listed", "proved", "failed", "verified"}
      /\ sdk.result \in Seq(Commitments \cup {None})
  BY DEF MembersIInv, SdkReads, SdkWell, SdkCalls, Leaves, Leaf
<1>5. /\ faults \in 0..MaxFaults /\ page.step \in 0..4 /\ page.pc \in {"idle", "issuing", "fallback", "proving"}
      /\ \A k \in claims : k.round \in 1..currentRound
  BY DEF MembersIInv, FormSound, PageForm, RoundsSound, FaultsSound
<1>6. /\ identities \in [Wallets -> Commitments \cup {NoIdentity}] /\ activeWallet \in Wallets \cup {NoWallet}
      /\ submitted \subseteq [wallet : Wallets, of : Commitments]
      /\ cli.pc \in {"idle", "issuing", "issued", "proving"}
  BY DEF MembersIInv, DemoIInv, ClientsSound, StoreSound, CliSound
<1>7. DemoTypeOK
  BY <1>2, <1>3, <1>4, <1>5, <1>6 DEF DemoTypeOK
<1> QED BY <1>1, <1>7 DEF MembersInv

(* Whatever pass failed or crashed, the database holds the effect of every *)
(* event up to its cursor; a tree the SDK rebuilds from scans of the same  *)
(* latest block is the contract's at that block; and whom getGroupMembers  *)
(* lists was active after the earlier of its two scans.                    *)
THEOREM ReadersKnowTheGroup == DemoSpec => []MembersInv
<1>1. DemoInit => MembersIInv
  BY MembersInitSound
<1>2. MembersIInv /\ [DemoNext]_demoVars => MembersIInv'
  BY MembersStep
<1>3. MembersIInv => MembersInv
  BY MembersKnow
<1> QED BY <1>1, <1>2, <1>3, PTL DEF DemoSpec
=============================================================================
