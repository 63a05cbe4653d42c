\* Rows approved at any time, a failing call: every row is served in the end.
CONSTANTS
    g1 = g1
    g2 = g2
    x = x
    y = y
    z = z
    cx = cx
    cy = cy
    cz = cz
    Groups = {g1, g2}
    GroupOrder <- TwoGroups
    Requests = {x, y, z}
    GroupOf <- GroupOfRows
    CommitmentOf <- OwnCommitment
    Startup = Startup
    t1 = t1
    Tasks = {Startup}
    NoTask = NoTask
    AuthorisedFirst = {g1, g2}
    GrantedLater = {}
    Revocable = {}
    QuickRestart = FALSE
    FaultPoints = {"send"}
    MaxFaults = 1
    MaxCrashes = 0
    RootHistorySize = 2
    MaxLeafCount = 3
    Wallet = Wallet
    Deployer = Deployer
    Accounts = {Deployer, Wallet}
    NoAccount = NoAccount
    NoRoot = NoRoot
    Roots <- Trees
SPECIFICATION FairSpec
CHECK_DEADLOCK FALSE
PROPERTY ApprovedServed
