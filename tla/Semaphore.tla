----------------------------- MODULE Semaphore -----------------------------
(***************************************************************************)
(* The Semaphore v4 contract (an external dependency of HSK Passport),     *)
(* modelled from how HSKPassport.sol, GatedRWA.sol and the SDK use it.     *)
(*                                                                         *)
(* A group is a LeanIMT: leaves are only ever appended, and removing a     *)
(* member overwrites its leaf with zero in place, so the sequence of       *)
(* leaves, the Merkle root and the membership are related as follows: the  *)
(* hash is collision free, so the sequence of leaves IS the root, and the  *)
(* members are its non-zero leaves.  Every change of the tree records the  *)
(* block timestamp at which the new root was created; a proof against a    *)
(* root that is no longer current is accepted until merkleTreeDuration     *)
(* after that root was CREATED.                                            *)
(***************************************************************************)
EXTENDS Naturals, Sequences, FiniteSets

CONSTANTS Commitments,        \* identity commitments (Poseidon hashes, never 0)
          ZeroLeaf,           \* the value 0 that marks a removed leaf
          Scopes,             \* nullifier scopes (external nullifiers)
          MerkleTreeDuration, \* seconds an old root stays acceptable
          MaxGroups,          \* bound: group ids are 0 .. MaxGroups-1
          MaxLeaves,          \* bound: leaves a group ever gets
          MaxTime             \* bound: last block timestamp

ASSUME SemaphoreAssumption ==
    /\ ZeroLeaf \notin Commitments
    /\ IsFiniteSet(Commitments)
    /\ MerkleTreeDuration \in Nat
    /\ MaxGroups \in Nat
    /\ MaxLeaves \in Nat
    /\ MaxTime \in Nat \ {0}

GroupIds == 0..(MaxGroups - 1)

VARIABLES now,          \* block.timestamp
          groupCounter, \* id the next createGroup returns
          leaves,       \* leaves[g]: the leaves of group g, in insertion order
          rootDates,    \* rootDates[g]: merkleRootCreationDates, as [root, at] records
          nullifiers    \* nullifiers[g]: the <<identity, scope>> pairs spent in group g

semaphoreVars == <<now, groupCounter, leaves, rootDates, nullifiers>>

Roots == Seq(Commitments \cup {ZeroLeaf})

Proofs == [root : Roots, identity : Commitments, scope : Scopes]

SemaphoreTypeOK ==
    /\ now \in 1..MaxTime
    /\ groupCounter \in 0..MaxGroups
    /\ leaves \in [GroupIds -> Roots]
    /\ rootDates \in [GroupIds -> SUBSET [root : Roots, at : 1..MaxTime]]
    /\ nullifiers \in [GroupIds -> SUBSET (Commitments \X Scopes)]

SemaphoreInit ==
    /\ now = 1
    /\ groupCounter = 0
    /\ leaves = [g \in GroupIds |-> << >>]
    /\ rootDates = [g \in GroupIds |-> {}]
    /\ nullifiers = [g \in GroupIds |-> {}]

LeavesOf(root) == {root[i] : i \in DOMAIN root}

Members(g) == LeavesOf(leaves[g]) \ {ZeroLeaf}

(* LeanIMT.update(leaf, 0): the leaf is overwritten where it stands. *)
Zeroed(root, c) == [i \in DOMAIN root |-> IF root[i] = c THEN ZeroLeaf ELSE root[i]]

(* Sequences a batch insertion takes: LeanIMT.insertMany rejects a leaf that *)
(* is already in the tree, and so a repetition inside the batch.             *)
NoRepeats(batch) == \A i, j \in DOMAIN batch : batch[i] = batch[j] => i = j

NewRoot(g, root) ==
    /\ leaves' = [leaves EXCEPT ![g] = root]
    /\ rootDates' = [rootDates EXCEPT ![g] = @ \cup {[root |-> root, at |-> now]}]

CreateGroup ==
    /\ groupCounter < MaxGroups
    /\ groupCounter' = groupCounter + 1
    /\ UNCHANGED <<now, leaves, rootDates, nullifiers>>

AddMembers(g, batch) ==
    /\ Len(leaves[g]) + Len(batch) <= MaxLeaves
    /\ NoRepeats(batch)
    /\ LeavesOf(batch) \cap Members(g) = {}
    /\ NewRoot(g, leaves[g] \o batch)
    /\ UNCHANGED <<now, groupCounter, nullifiers>>

RemoveMember(g, c) ==
    /\ c \in Members(g)
    /\ NewRoot(g, Zeroed(leaves[g], c))
    /\ UNCHANGED <<now, groupCounter, nullifiers>>

(* verifyProof: the root is the current one, or a past one that was created *)
(* no more than merkleTreeDuration ago; the zero-knowledge proof itself     *)
(* holds exactly when the prover's commitment is a leaf under that root.    *)
VerifyProof(g, p) ==
    /\ leaves[g] # << >>
    /\ \/ p.root = leaves[g]
       \/ \E r \in rootDates[g] : r.root = p.root /\ now <= r.at + MerkleTreeDuration
    /\ p.identity \in LeavesOf(p.root)

(* validateProof: verifyProof, then the (identity, scope) nullifier is spent. *)
ValidateProof(g, p) ==
    /\ <<p.identity, p.scope>> \notin nullifiers[g]
    /\ VerifyProof(g, p)
    /\ nullifiers' = [nullifiers EXCEPT ![g] = @ \cup {<<p.identity, p.scope>>}]
    /\ UNCHANGED <<now, groupCounter, leaves, rootDates>>

(* The proofs a holder of an identity can build in this state: against any  *)
(* root the group has ever had, the ones it kept from earlier included.     *)
BuildableProofs(g) ==
    {[root |-> r.root, identity |-> c, scope |-> s] :
        r \in rootDates[g], c \in Commitments, s \in Scopes}
=============================================================================
