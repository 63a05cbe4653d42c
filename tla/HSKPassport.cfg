\* Two people, two issuers and a delegate: credentials, authority and governance in turn.
CONSTANTS
    Deployer = Deployer
    Issuer = Issuer
    Helper = Helper
    Accounts = {Deployer, Issuer, Helper}
    NoAccount = NoAccount
    ZeroLeaf = ZeroLeaf
    Commitments = {c1, c2}
    Scopes = {s1}
    MerkleTreeDuration = 1
    MaxGroups = 2
    MaxLeaves = 3
    MaxTime = 4
    ValidityPeriods = {1}
    OwnerCandidates = {Issuer, NoAccount}
    IssuerCandidates = {Deployer, Issuer}
    DelegateCandidates = {Helper, Deployer}
    MaxBatch = 2
    Questions = {"credentials", "authority", "governance"}
    MaxEpoch = 2
SPECIFICATION MCSpec
SYMMETRY CommitmentSymmetry
INVARIANTS
    IndInv
    MemberCountAccurate
    HolderCanProve
    RevocationWindow
    RevocationNeverBlocked
PROPERTIES
    DeactivationFinal
    AuthoritySpec
    IssuanceHalts
