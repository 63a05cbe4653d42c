\* Two groups sharing provers, a window of two roots: eviction, replay and cross-group proofs.
CONSTANTS
    Groups = {g1, g2}
    Deployer = Deployer
    Accounts = {Deployer}
    NoAccount = NoAccount
    r1 = r1
    r2 = r2
    r3 = r3
    alice = alice
    bob = bob
    Roots = {r1, r2, r3}
    NoRoot = NoRoot
    RootHistorySize = 2
    MaxLeafCount = 3
    Secrets = {alice, bob}
    Scopes = {s1}
    Times = {1, 2}
    LeavesUnder <- LeavesOfRoots
SPECIFICATION Spec
INVARIANTS
    IndInv
    WindowExact
    OneProofPerScope
    BackedByItsGroup
