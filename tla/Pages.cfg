\* The verification page with two wallets, its local checks, the freshness
\* demo with two groups, the dashboard with one row and the health report.
CONSTANTS
    w1 = w1
    w2 = w2
    i1 = i1
    i2 = i2
    NoIdentity = none
    NoWallet = nowallet
    Wallets = {w1, w2}
    IdentityOf <- MCIdentityOf
    LegacyWallets = {}
    SumsubConfigured = {TRUE, FALSE}
    MaxMoves <- MCMaxMoves
    SumsubMoves = 4
    LocalMoves = 7
    Lines <- MCLines
    MaxLines = 2
    Grays = {0, 60, 128, 200, 255}
    MaxPixels = 4
    Edges = {1, 640, 1599, 1600, 2400}
    Distances = {0, 599, 600, 1200}
    Ears = {150, 225, 250, 270, 300, 340}
    MaxFrames = 6
    StableFrames = 5
    Depth = 2
    Groups = {25, 26}
    KycGroup = 25
    User = "user"
    Demo = "demo"
    Other = "other"
    Random = "random"
    DayUnits = 2
    PageNow = 8
    DemoTime = 3
    IssuanceTimes = {2, 5}
    Days = {2, 3}
    RootHistory = 1
    MaxLeaves = 3
    MaxClicks = 3
    MaxDashClicks = 3
    Rows = {"a"}
    UnknownRows = {}
    NonceWindow = 1
    ResignAfter = 0
    GcSize = 1
    MaxTime = 3
    DeployBlock = 5
    LagOk = 1
    LagWarn = 2
    SyncOk = 1
    SyncWarn = 2
    HeadTTL = 1
    BalanceTTL = 2
    RpcMax = 1
    Growths <- MCGrowths
    Clients = {"x", "y", "z"}
    RateWindow = 2
    RateLimit = 2
    MaxKeys = 2
    MaxNow = 4
    MaxReports <- MCReports
    MaxPasses <- MCPasses
    MaxRestarts <- MCRestarts
    MaxFailures = 1
SPECIFICATION PagesSpec
SYMMETRY WalletSymmetry
INVARIANTS
    KYCPageInv
    DocumentInv
    FreshInv
    DashInv
    HealthInv
    OkIsCurrent
PROPERTY DecidedOnce
CHECK_DEADLOCK FALSE
