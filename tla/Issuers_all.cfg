CONSTANTS
    i1 = i1
    i2 = i2
    dep = dep
    r1 = r1
    u1 = u1
    u2 = u2
    Safe = safe
    Issuers = {i1, i2, dep}
    Deployer = dep
    Timelock = tl
    RegistryTimelock = tl
    Governors = {dep, tl}
    URIs = {u1, u2}
    NoURI = NoURI
    Amounts = {0, 1, 2, 3}
    DeployedReqs <- Requirements
    OtherReqs <- OnlyRaised
    Cooldown = 1
    MaxStake = 3
    MaxReports = 1
    MaxDay = 3
    MinDelay = 1
    MaxOps = 2
    ListCalls = {r1, r2}
    UriKind <- Kinds
    Concurrency = 2
    CacheMax = 1
    ListTTL = 2
    GovernanceTTL = 2
    MetadataTTL = 1
    LoadBound = 1
    MaxTime = 5
    Applicants = {i1, i2}
    NoAccount = NoAccount
    Funds <- Purse
    NumberOf <- Doubles
    BadAmount = BadAmount
    TooLarge = 9
SPECIFICATION IssuersSpec
CHECK_DEADLOCK FALSE
INVARIANTS
    RegistryInv
    HandoffInv
    DirectoryInv
    ProgramInv
PROPERTIES
    SlashRestartsExit
    LoadsEnd
