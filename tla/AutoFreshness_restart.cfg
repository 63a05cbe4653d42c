\* auto-freshness.ts:10: a restart never posts a leaf twice.
CONSTANTS
    g1 = g1
    g2 = g2
    x = x
    y = y
    z = z
    cx = cx
    cy = cy
    cz = cz
    Groups = {g1}
    GroupOrder <- OneGroup
    Requests = {x, y}
    GroupOf <- GroupOfRows
    CommitmentOf <- OwnCommitment
    Startup = Startup
    t1 = t1
    Tasks = {Startup}
    NoTask = NoTask
    AuthorisedFirst = {g1}
    GrantedLater = {}
    Revocable = {}
    QuickRestart = FALSE
    FaultPoints = {}
    MaxFaults = 0
    MaxCrashes = 1
    RootHistorySize = 2
    MaxLeafCount = 4
    Wallet = Wallet
    Deployer = Deployer
    Accounts = {Deployer, Wallet}
    NoAccount = NoAccount
    NoRoot = NoRoot
    Roots <- Trees
SPECIFICATION Spec
CHECK_DEADLOCK FALSE
INVARIANT NeverDoublePost
