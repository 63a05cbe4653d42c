\* HSKPassport.sol:346: a possibly expired member makes verifyCredentialWithExpiry revert.
CONSTANTS
    Deployer = Deployer
    Issuer = Issuer
    Helper = Helper
    Accounts = {Deployer}
    NoAccount = NoAccount
    ZeroLeaf = ZeroLeaf
    Commitments = {c1, c2}
    Scopes = {s1}
    MerkleTreeDuration = 1
    MaxGroups = 1
    MaxLeaves = 3
    MaxTime = 4
    ValidityPeriods = {1}
    OwnerCandidates = {}
    IssuerCandidates = {}
    DelegateCandidates = {}
    MaxBatch = 2
    Questions = {"expiry"}
    MaxEpoch = 0
SPECIFICATION MCSpec
INVARIANT ExpiryFailsClosed
