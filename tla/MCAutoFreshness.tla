-------------------------- MODULE MCAutoFreshness --------------------------
(* Small instances of AutoFreshness for TLC. *)
EXTENDS AutoFreshness

CONSTANTS x, y, z, g1, g2, cx, cy, cz, t1

(* x and y ask for the credential of g1, z for that of g2. *)
GroupOfRows == [r \in Requests |-> IF r = z THEN g2 ELSE g1]

(* Every row under a freshness identity of its own. *)
OwnCommitment == [r \in Requests |-> CASE r = x -> cx [] r = y -> cy [] r = z -> cz]

OneGroup == <<g1>>
TwoGroups == <<g1, g2>>

(* Every tree of rows; the leaves of a wrong root may repeat. *)
Trees == UNION {[1..n -> Requests] : n \in 1..MaxLeafCount}
=============================================================================
