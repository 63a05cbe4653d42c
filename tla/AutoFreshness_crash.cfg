\* Crashes, failed calls and failed writes around every await; one tick at a time.
CONSTANTS
    g1 = g1
    g2 = g2
    x = x
    y = y
    z = z
    cx = cx
    cy = cy
    cz = cz
    Groups = {g1}
    GroupOrder <- OneGroup
    Requests = {x, y}
    GroupOf <- GroupOfRows
    CommitmentOf <- OwnCommitment
    Startup = Startup
    t1 = t1
    Tasks = {Startup}
    NoTask = NoTask
    AuthorisedFirst = {g1}
    GrantedLater = {}
    Revocable = {}
    QuickRestart = FALSE
    FaultPoints = {"boot", "send", "db"}
    MaxFaults = 2
    MaxCrashes = 2
    RootHistorySize = 2
    MaxLeafCount = 5
    Wallet = Wallet
    Deployer = Deployer
    Accounts = {Deployer, Wallet}
    NoAccount = NoAccount
    NoRoot = NoRoot
    Roots <- Trees
SPECIFICATION Spec
CHECK_DEADLOCK FALSE
INVARIANTS
    LoopInv
    ServedRootKnown
