----------------------------- MODULE FreshPage -----------------------------
(***************************************************************************)
(* The freshness demo of the frontend (app/demo/fresh/page.tsx): what it   *)
(* reads of the backend under /api/freshness, the proofs it makes in its   *)
(* three modes and what it shows of previewVerifyFresh, while the backend  *)
(* goes on posting leaves.  Times count fractions of a day.                *)
(***************************************************************************)
EXTENDS FreshnessTree, Integers

CONSTANTS Groups, KycGroup,
          User, Demo, Other, Random, \* secrets: the visitor's, the seeded one, others', the sandbox's
          DayUnits,      \* units of a day
          PageNow,       \* `now' of the page
          DemoTime,      \* issuance time of the seeded leaf
          IssuanceTimes, \* of the visitor's leaf
          Days,          \* positions of the two sliders
          RootHistory,   \* ROOT_HISTORY_SIZE
          MaxLeaves, MaxClicks \* bounds: leaves of all groups, clicks

ASSUME FreshPageAssumption ==
    /\ KycGroup \in Groups /\ DayUnits \in Nat \ {0} /\ RootHistory \in Nat \ {0}
    /\ MaxLeaves \in 0..Width[Depth] /\ MaxClicks \in Nat
    /\ IssuanceTimes \subseteq Nat /\ Days \subseteq Nat /\ PageNow \in Nat /\ DemoTime \in Nat
    /\ ZeroLeaf[1].secret \notin {User, Demo, Other, Random}

VARIABLES rows,   \* freshness_leaves: rows[g] in the order of leaf_index
          posted, \* posted[g]: the roots on the chain, in order
          mined,  \* a leaf on the chain and not recorded yet
          probe,  \* the effect at mount
          page,   \* the React state
          calls,  \* proofs and verifications under way
          told    \* history: what the chain answered, whether two calls overlapped, clicks, leaves

freshVars == <<rows, posted, mined, probe, page, calls, told>>

Leaf(secret, time) == <<[secret |-> secret, time |-> time]>>
SeededTree == <<Leaf(Other, DemoTime), Leaf(Demo, DemoTime)>>
SandboxTree(time) == <<Leaf(Other, DemoTime), Leaf(Random, time)>>
NoLeaf == [group |-> KycGroup, leaf |-> << >>]
NoUser == [group |-> KycGroup, index |-> 0, time |-> 0, leaves |-> << >>]
NoProof == [root |-> <<"none">>, earliest |-> 0, from |-> "none", warned |-> FALSE]

Modes == {"live", "sandbox", "user"}
FreshStages == {"idle", "generating", "generated", "verifying", "verified-ok", "verified-fail", "error"}

FreshInit ==
    /\ rows = [g \in Groups |-> << >>]
    /\ posted = [g \in Groups |-> IF g = KycGroup THEN <<TreeRoot(SeededTree)>> ELSE << >>]
    /\ mined = NoLeaf
    /\ probe = [pc |-> "identity", found |-> NoUser]
    /\ \E d \in Days, a \in Days :
         page = [mode |-> "live", stage |-> "idle", window |-> d, age |-> a, user |-> NoUser,
                 proof |-> NoProof, verified |-> "none"]
    /\ calls = [proving |-> {}, verifying |-> {}]
    /\ told = [accepted |-> {}, refused |-> {}, overlap |-> FALSE, clicks |-> 0, leaves |-> 0]

-----------------------------------------------------------------------------
(* The backend.                                                            *)

(* The root of the recorded leaves and the new one is posted; the row      *)
(* follows.  A commitment has one row.                                     *)
PostLeaf(g, secret, time) ==
    /\ mined = NoLeaf /\ told.leaves < MaxLeaves
    /\ (secret = User) => (\A h \in Groups : \A k \in DOMAIN rows[h] : rows[h][k][1].secret # User)
    /\ posted' = [posted EXCEPT ![g] = Append(@, TreeRoot(Append(rows[g], Leaf(secret, time))))]
    /\ mined' = [group |-> g, leaf |-> Leaf(secret, time)]
    /\ told' = [told EXCEPT !.leaves = @ + 1]
    /\ UNCHANGED <<rows, probe, page, calls>>

RecordLeaf ==
    /\ mined # NoLeaf
    /\ rows' = [rows EXCEPT ![mined.group] = Append(@, mined.leaf)]
    /\ mined' = NoLeaf
    /\ UNCHANGED <<posted, probe, page, calls, told>>

\* Mutant: an answer of before the last leaf.
CachedTreeState(g) == SubSeq(rows[g], 1, Len(rows[g]) - 1)

(* getTreeState, served with "no-store".                                   *)
TreeState(g) == rows[g]

IdentityRow(g, k) == [group |-> g, index |-> k - 1, time |-> rows[g][k][1].time, leaves |-> << >>]

IsKnownRootOf(g, root) ==
    \E k \in DOMAIN posted[g] : k > Len(posted[g]) - RootHistory /\ posted[g][k] = root

-----------------------------------------------------------------------------
(* The page.                                                               *)

(* The row of the visitor's commitment, or 404.                            *)
ProbeIdentity ==
    /\ probe.pc = "identity"
    /\ LET found == {f \in Groups \X (1..MaxLeaves) :
                        f[2] <= Len(rows[f[1]]) /\ rows[f[1]][f[2]][1].secret = User}
       IN probe' = IF found = {} THEN [probe EXCEPT !.pc = "done"]
                   ELSE LET at == CHOOSE f \in found : TRUE
                        IN [pc |-> "tree", found |-> IdentityRow(at[1], at[2])]
    /\ UNCHANGED <<rows, posted, mined, page, calls, told>>

ProbeTree ==
    /\ probe.pc = "tree"
    /\ probe' = [probe EXCEPT !.pc = "done"]
    /\ page' = [page EXCEPT !.user = [probe.found EXCEPT !.leaves = TreeState(probe.found.group)]]
    /\ UNCHANGED <<rows, posted, mined, calls, told>>

ProbeFails ==
    /\ probe.pc # "done"
    /\ probe' = [probe EXCEPT !.pc = "done"]
    /\ UNCHANGED <<rows, posted, mined, page, calls, told>>

Issued ==
    CASE page.mode = "live" -> DemoTime
      [] page.mode = "user" -> page.user.time
      [] page.mode = "sandbox" -> PageNow - DayUnits * page.age

DaysSince ==
    IF page.mode = "sandbox" THEN page.age ELSE (PageNow - Issued) \div DayUnits

Earliest == PageNow - DayUnits * page.window

IsFresh == DaysSince <= page.window

Busy == calls.proving # {} \/ calls.verifying # {}
Click == told.clicks < MaxClicks
Clicked(overlapping) == [told EXCEPT !.clicks = @ + 1, !.overlap = @ \/ overlapping]

SwitchMode(m) ==
    /\ Click /\ m # page.mode /\ (m = "user" => page.user # NoUser)
    /\ page' = [page EXCEPT !.mode = m, !.stage = "idle", !.proof = NoProof]
    /\ told' = Clicked(Busy)
    /\ UNCHANGED <<rows, posted, mined, probe, calls>>

MoveSlider ==
    /\ Click
    /\ \E d \in Days :
         \/ d # page.window /\ page' = [page EXCEPT !.window = d]
         \/ page.mode = "sandbox" /\ d # page.age /\ page' = [page EXCEPT !.age = d]
    /\ told' = Clicked(FALSE)
    /\ UNCHANGED <<rows, posted, mined, probe, calls>>

(* The witness of fullProve in the current mode.                           *)
Witness ==
    LET leaves == CASE page.mode = "live" -> SeededTree
                    [] page.mode = "user" -> page.user.leaves
                    [] page.mode = "sandbox" -> SandboxTree(Issued)
        index == CASE page.mode = "live" -> 1
                   [] page.mode = "user" -> page.user.index
                   [] page.mode = "sandbox" -> 1
        secret == CASE page.mode = "live" -> Demo
                    [] page.mode = "user" -> User
                    [] page.mode = "sandbox" -> Random
    IN [leaf |-> Leaf(secret, Issued), path |-> TreeProof(leaves, index), issued |-> Issued,
        proof |-> [root |-> TreeRoot(leaves), earliest |-> Earliest, from |-> page.mode,
                   warned |-> ~IsFresh]]

HandleGenerate ==
    /\ Click /\ page.stage # "generating"
    /\ page' = [page EXCEPT !.stage = "generating", !.proof = NoProof, !.verified = "none"]
    /\ calls' = [calls EXCEPT !.proving = @ \cup {Witness}]
    /\ told' = Clicked(Busy)
    /\ UNCHANGED <<rows, posted, mined, probe>>

CircuitHolds(w) == Climb(w.leaf, w.path) = w.proof.root /\ w.issued >= w.proof.earliest

Generated(w) ==
    /\ CircuitHolds(w)
    /\ page' = [page EXCEPT !.stage = "generated", !.proof = w.proof]
    /\ calls' = [calls EXCEPT !.proving = @ \ {w}]
    /\ UNCHANGED <<rows, posted, mined, probe, told>>

(* Refused by the circuit, or the artefacts are not loaded.                *)
GenerateFails(w) ==
    /\ page' = [page EXCEPT !.stage = "error"]
    /\ calls' = [calls EXCEPT !.proving = @ \ {w}]
    /\ UNCHANGED <<rows, posted, mined, probe, told>>

GroupForVerify == IF page.mode = "user" THEN page.user.group ELSE KycGroup

HandleVerify ==
    /\ Click /\ page.proof # NoProof /\ page.stage # "verifying"
    /\ page' = [page EXCEPT !.stage = "verifying"]
    /\ calls' = [calls EXCEPT !.verifying =
                    @ \cup {[proof |-> page.proof, group |-> GroupForVerify, mode |-> page.mode]}]
    /\ told' = Clicked(Busy)
    /\ UNCHANGED <<rows, posted, mined, probe>>

VerifySimulated(v) ==
    /\ v.mode = "sandbox"
    /\ page' = [page EXCEPT !.stage = "verified-ok", !.verified = "simulated"]
    /\ calls' = [calls EXCEPT !.verifying = @ \ {v}]
    /\ UNCHANGED <<rows, posted, mined, probe, told>>

Verified(ok) == IF ok THEN "verified-ok" ELSE "verified-fail"

(* previewVerifyFresh; nobody consumes the nullifier of the page's scope.  *)
VerifyAnswered(v) ==
    /\ v.mode # "sandbox"
    /\ LET ok == IsKnownRootOf(v.group, v.proof.root) IN
       /\ page' = [page EXCEPT !.stage = Verified(ok), !.verified = "onchain"]
       /\ told' = IF ok THEN [told EXCEPT !.accepted = @ \cup {v.proof}]
                  ELSE [told EXCEPT !.refused = @ \cup {v}]
    /\ calls' = [calls EXCEPT !.verifying = @ \ {v}]
    /\ UNCHANGED <<rows, posted, mined, probe>>

VerifyFails(v) ==
    /\ v.mode # "sandbox"
    /\ page' = [page EXCEPT !.stage = "error"]
    /\ calls' = [calls EXCEPT !.verifying = @ \ {v}]
    /\ UNCHANGED <<rows, posted, mined, probe, told>>

FreshNext ==
    \/ \E g \in Groups : PostLeaf(g, Other, DemoTime) \/ \E t \in IssuanceTimes : PostLeaf(g, User, t)
    \/ RecordLeaf \/ ProbeIdentity \/ ProbeTree \/ ProbeFails
    \/ \E m \in Modes : SwitchMode(m)
    \/ MoveSlider \/ HandleGenerate \/ HandleVerify
    \/ \E w \in calls.proving : Generated(w) \/ GenerateFails(w)
    \/ \E v \in calls.verifying : VerifySimulated(v) \/ VerifyAnswered(v) \/ VerifyFails(v)

FreshSpec == FreshInit /\ [][FreshNext]_freshVars

-----------------------------------------------------------------------------
FreshTypeOK ==
    /\ page.mode \in Modes /\ page.stage \in FreshStages /\ page.window \in Days /\ page.age \in Days
    /\ page.user.index \in 0..(Width[Depth] - 1) /\ page.user.group \in Groups
    /\ page.verified \in {"none", "simulated", "onchain"}
    /\ \A g \in Groups : Len(rows[g]) <= MaxLeaves

(* Whatever is inserted, the root the layers give is that of the full tree *)
(* and the path of every leaf climbs to it (FreshnessTree.root, .proof).   *)
TreeIsMerkle ==
    \A g \in Groups :
        /\ TreeRoot(rows[g]) = FullTreeRoot(rows[g])
        /\ \A i \in 0..(Len(rows[g]) - 1) :
               Climb(rows[g][i + 1], TreeProof(rows[g], i)) = TreeRoot(rows[g])

(* The index of the first answer points at the visitor's leaf in the tree  *)
(* of the second, which may have grown in between.                         *)
LeafServed ==
    page.user # NoUser =>
        /\ page.user.index < Len(page.user.leaves)
        /\ page.user.leaves[page.user.index + 1] = Leaf(User, page.user.time)

(* page.tsx:499: "The circuit will refuse to produce a proof".  No proof   *)
(* is shown that was asked for under this warning.                         *)
WarnedIsRefused == ~page.proof.warned

(* A green result is about a proof the chain accepted, and about the one   *)
(* on the page unless calls overlapped.                                    *)
GreenBacked ==
    (page.stage = "verified-ok" /\ page.verified = "onchain") =>
        IF told.overlap THEN told.accepted # {} ELSE page.proof \in told.accepted

(* A proof of the visitor's own credential is refused only when its root   *)
(* has left the window.                                                    *)
UserProofAccepted ==
    \A v \in told.refused :
        (v.mode = "user" /\ v.proof.from = "user") => ~IsKnownRootOf(page.user.group, v.proof.root)

(* What the page proves, warns of and shows, and the tree it rests on.     *)
FreshInv == FreshTypeOK /\ TreeIsMerkle /\ LeafServed /\ WarnedIsRefused /\ GreenBacked /\ UserProofAccepted
=============================================================================
