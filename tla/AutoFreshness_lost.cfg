\* Lost answers, failed writes, a role given and taken, quick restarts, overlapping ticks.
CONSTANTS
    g1 = g1
    g2 = g2
    x = x
    y = y
    z = z
    cx = cx
    cy = cy
    cz = cz
    Groups = {g1}
    GroupOrder <- OneGroup
    Requests = {x, y}
    GroupOf <- GroupOfRows
    CommitmentOf <- OwnCommitment
    Startup = Startup
    t1 = t1
    Tasks = {Startup, t1}
    NoTask = NoTask
    AuthorisedFirst = {}
    GrantedLater = {g1}
    Revocable = {g1}
    QuickRestart = TRUE
    FaultPoints = {"reply", "db"}
    MaxFaults = 1
    MaxCrashes = 1
    RootHistorySize = 1
    MaxLeafCount = 3
    Wallet = Wallet
    Deployer = Deployer
    Accounts = {Deployer, Wallet}
    NoAccount = NoAccount
    NoRoot = NoRoot
    Roots <- Trees
SPECIFICATION Spec
CHECK_DEADLOCK FALSE
INVARIANT LeavesWerePosted
