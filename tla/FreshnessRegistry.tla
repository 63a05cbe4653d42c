------------------------- MODULE FreshnessRegistry -------------------------
(***************************************************************************)
(* contracts/contracts/freshness/FreshnessRegistry.sol: per-group history  *)
(* of Merkle roots in a ring buffer of ROOT_HISTORY_SIZE slots.            *)
(*                                                                         *)
(* The registry never looks inside a root: roots are the elements of a     *)
(* constant set, NoRoot is the value 0 of an empty slot.  The LeafAdded    *)
(* events are kept as the sequence `posted', the history that the ring     *)
(* buffer has to reproduce.                                                *)
(***************************************************************************)
EXTENDS Integers, Sequences

CONSTANTS Groups,          \* credential group ids
          Accounts,        \* addresses that send transactions
          NoAccount,       \* address(0)
          Deployer,        \* the constructor's msg.sender
          Roots,           \* Merkle roots an issuer may post
          NoRoot,          \* the value 0 of an unwritten slot
          RootHistorySize, \* ROOT_HISTORY_SIZE
          MaxLeafCount     \* bound: addLeaf calls per group

ASSUME RegistryAssumption ==
    /\ NoRoot \notin Roots
    /\ NoAccount \notin Accounts
    /\ Deployer \in Accounts
    /\ RootHistorySize \in Nat \ {0}
    /\ MaxLeafCount \in Nat

VARIABLES registryOwner, registryPendingOwner,
          groupIssuer,     \* groupIssuer[g][a]: a may write to group g
          currentRoot,
          rootBuffer,      \* _rootBuffer[g]
          rootBufferIndex, \* _rootBufferIndex[g]: the next slot to write
          leafCount,
          posted           \* posted[g]: newRoot of each LeafAdded event of g, in order

ringVars == <<currentRoot, rootBuffer, rootBufferIndex, leafCount, posted>>
registryVars == <<registryOwner, registryPendingOwner, groupIssuer, ringVars>>

Slots == 0..(RootHistorySize - 1)

RegistryTypeOK ==
    /\ registryOwner \in Accounts
    /\ registryPendingOwner \in Accounts \cup {NoAccount}
    /\ groupIssuer \in [Groups -> [Accounts -> BOOLEAN]]
    /\ currentRoot \in [Groups -> Roots \cup {NoRoot}]
    /\ rootBuffer \in [Groups -> [Slots -> Roots \cup {NoRoot}]]
    /\ rootBufferIndex \in [Groups -> Slots]
    /\ leafCount \in [Groups -> Nat]
    /\ posted \in [Groups -> Seq(Roots)]

RegistryInit ==
    /\ registryOwner = Deployer
    /\ registryPendingOwner = NoAccount
    /\ groupIssuer = [g \in Groups |-> [a \in Accounts |-> FALSE]]
    /\ currentRoot = [g \in Groups |-> NoRoot]
    /\ rootBuffer = [g \in Groups |-> [i \in Slots |-> NoRoot]]
    /\ rootBufferIndex = [g \in Groups |-> 0]
    /\ leafCount = [g \in Groups |-> 0]
    /\ posted = [g \in Groups |-> << >>]

AuthorizeIssuer(sender, g, issuer) ==
    /\ sender = registryOwner
    /\ groupIssuer' = [groupIssuer EXCEPT ![g][issuer] = TRUE]
    /\ UNCHANGED <<registryOwner, registryPendingOwner, ringVars>>

RevokeIssuer(sender, g, issuer) ==
    /\ sender = registryOwner
    /\ groupIssuer' = [groupIssuer EXCEPT ![g][issuer] = FALSE]
    /\ UNCHANGED <<registryOwner, registryPendingOwner, ringVars>>

TransferOwnership(sender, newOwner) ==
    /\ sender = registryOwner
    /\ registryPendingOwner' = newOwner
    /\ UNCHANGED <<registryOwner, groupIssuer, ringVars>>

AcceptOwnership(sender) ==
    /\ sender = registryPendingOwner
    /\ registryOwner' = registryPendingOwner
    /\ registryPendingOwner' = NoAccount
    /\ UNCHANGED <<groupIssuer, ringVars>>

(* Mutant: the write index wraps one slot early. *)
AdvanceWrappingEarly(idx) ==
    IF RootHistorySize = 1 THEN 0 ELSE (idx + 1) % (RootHistorySize - 1)

Advance(idx) == (idx + 1) % RootHistorySize

AddLeaf(sender, g, newRoot) ==
    /\ groupIssuer[g][sender]
    /\ leafCount[g] < MaxLeafCount
    /\ rootBuffer' = [rootBuffer EXCEPT ![g][rootBufferIndex[g]] = newRoot]
    /\ rootBufferIndex' = [rootBufferIndex EXCEPT ![g] = Advance(@)]
    /\ currentRoot' = [currentRoot EXCEPT ![g] = newRoot]
    /\ leafCount' = [leafCount EXCEPT ![g] = @ + 1]
    /\ posted' = [posted EXCEPT ![g] = Append(@, newRoot)]
    /\ UNCHANGED <<registryOwner, registryPendingOwner, groupIssuer>>

IsKnownRoot(g, root) ==
    /\ root # NoRoot
    /\ root = currentRoot[g] \/ \E i \in Slots : rootBuffer[g][i] = root

RegistryStep(sender) ==
    \/ \E g \in Groups, i \in Accounts : AuthorizeIssuer(sender, g, i)
    \/ \E g \in Groups, i \in Accounts : RevokeIssuer(sender, g, i)
    \/ \E a \in Accounts \cup {NoAccount} : TransferOwnership(sender, a)
    \/ AcceptOwnership(sender)
    \/ \E g \in Groups, r \in Roots : AddLeaf(sender, g, r)

RegistryNext == \E sender \in Accounts : RegistryStep(sender)

RegistrySpec == RegistryInit /\ [][RegistryNext]_registryVars

-----------------------------------------------------------------------------
(* Properties *)

(* The roots posted in the last RootHistorySize LeafAdded events of a group. *)
LastPosted(g) ==
    {posted[g][k] : k \in {j \in DOMAIN posted[g] : j > Len(posted[g]) - RootHistorySize}}

(* The ring buffer is the rolling window it is documented to be: isKnownRoot *)
(* accepts exactly the roots of the group's last RootHistorySize posts, so a *)
(* proof in flight survives RootHistorySize - 1 further posts and dies with  *)
(* the next one, and no root of another group is ever accepted.              *)
WindowExact ==
    \A g \in Groups, r \in Roots : IsKnownRoot(g, r) <=> r \in LastPosted(g)

(* The slot written k posts ago. *)
SlotBack(idx, k) == IF idx >= k THEN idx - k ELSE idx - k + RootHistorySize

(* Position by position, what the ring buffer holds. *)
RingInv ==
    \A g \in Groups :
        /\ leafCount[g] = Len(posted[g])
        /\ currentRoot[g] = IF posted[g] = << >> THEN NoRoot ELSE posted[g][Len(posted[g])]
        /\ \A k \in 1..RootHistorySize :
              rootBuffer[g][SlotBack(rootBufferIndex[g], k)] =
                  IF k <= Len(posted[g]) THEN posted[g][Len(posted[g]) - k + 1] ELSE NoRoot

RegistryIndInv == RegistryTypeOK /\ RingInv
=============================================================================
