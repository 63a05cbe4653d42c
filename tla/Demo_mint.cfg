CONSTANTS
    w1 = w1
    w2 = w2
    a1 = a1
    b1 = b1
    a2 = a2
    None = none
    NoIdentity = none
    NoWallet = nowallet
    Wallets = {w1, w2}
    Commitments = {a1, b1, a2}
    IdentityOf <- MCIdentityOf
    CliIdentity <- MCCliIdentity
    GroupScope = group
    TokenScope = token
    LegacyWallets = {w1}
    Traded = {a1, b1}
    ChunkSize = 2
    PageSize = 2
    RootWindow = 1
    MaxBlocks = 3
    MaxFaults = 1
    MaxRounds = 2
SPECIFICATION DemoSpec
INVARIANTS DemoProofScoped
CHECK_DEADLOCK FALSE
