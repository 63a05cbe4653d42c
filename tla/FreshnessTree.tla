---------------------------- MODULE FreshnessTree ----------------------------
(***************************************************************************)
(* The Merkle tree of frontend/src/lib/freshness.ts, which the page builds *)
(* its proofs from and the backend computes the posted roots with.  The    *)
(* hash is free of collisions: poseidon2([l, r]) is the pair <<l, r>> and  *)
(* a leaf is a tuple of one element.                                       *)
(***************************************************************************)
EXTENDS Naturals, Sequences

CONSTANTS Depth \* FRESHNESS_TREE_DEPTH

ASSUME TreeAssumption == Depth \in Nat \ {0}

(* The value 0 of an empty position.                                       *)
ZeroLeaf == <<[secret |-> "0", time |-> 0]>>

ZeroRootsFrom[i \in 0..Depth] ==
    IF i = 0 THEN ZeroLeaf ELSE <<ZeroRootsFrom[i - 1], ZeroRootsFrom[i - 1]>>

ZeroRoots(level) == ZeroRootsFrom[level]

NodeAt(layer, i, level) == IF i < Len(layer) THEN layer[i + 1] ELSE ZeroRoots(level)

(* 1 << level: the leaves below a node of the level, and the nodes `level' *)
(* levels below the root.                                                  *)
Width[level \in 0..Depth] == IF level = 0 THEN 1 ELSE 2 * Width[level - 1]

(* One round of the loop of root() and of proof().                         *)
NextLayer(layer, level) ==
    LET length == IF layer = << >> THEN 1 ELSE Len(layer)
    IN [k \in 1..((length + 1) \div 2) |->
           <<NodeAt(layer, 2 * (k - 1), level), NodeAt(layer, 2 * (k - 1) + 1, level)>>]

Layers(leaves) ==
    LET at[level \in 0..Depth] == IF level = 0 THEN leaves ELSE NextLayer(at[level - 1], level - 1)
    IN at

TreeRoot(leaves) == Layers(leaves)[Depth][1]

(* The sibling of the node above the leaf on every level.                  *)
TreeProof(leaves, index) ==
    LET at == Layers(leaves)
        node[level \in 0..Depth] == IF level = 0 THEN index ELSE node[level - 1] \div 2
    IN [level \in 0..(Depth - 1) |->
           [sibling |-> LET n == node[level]
                        IN NodeAt(at[level], IF n % 2 = 0 THEN n + 1 ELSE n - 1, level),
            right |-> node[level] % 2 = 1]]

(* What the circuit does with a path.                                      *)
Climb(leaf, path) ==
    LET up[level \in 0..Depth] ==
            IF level = 0 THEN leaf
            ELSE LET p == path[level - 1] IN
                 IF p.right THEN <<p.sibling, up[level - 1]>> ELSE <<up[level - 1], p.sibling>>
    IN up[Depth]

(* The reference: the root of the full tree, empty positions holding 0.    *)
FullTreeRoot(leaves) ==
    LET under[level \in 0..Depth] ==
            [i \in 0..(Width[Depth - level] - 1) |->
                IF level = 0 THEN IF i < Len(leaves) THEN leaves[i + 1] ELSE ZeroLeaf
                ELSE <<under[level - 1][2 * i], under[level - 1][2 * i + 1]>>]
    IN under[Depth][0]
=============================================================================
