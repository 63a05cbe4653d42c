\* Two people, two requests and a queue of one; two tabs and two sessions.
CONSTANTS
    Commitments = {Alice, Bob, Blind, Zero}
    BlindSessions = {Blind}
    Unissuable = {Zero}
    Others = {Bob}
    KYCVerified = KYCVerified
    Types = {KYCVerified, HKResident, Misspelt}
    KnownTypes = {KYCVerified, HKResident}
    QueueLimit = 1
    MaxRows = 2
    MaxCalls = 2
    MaxDeliveries = 2
    MaxFaults = 1
    Scopes = {{"crowd", "misspelt"}, {"mail", "sumsub"}, {"chain", "fault", "misspelt"}, {"fresh", "sumsub", "fault"}, {"sumsub", "fault", "twice"}, {"voucher", "fault"}, {"refused"}, {"halt", "crowd"}}
    tab1 = tab1
    tab2 = tab2
    c1 = c1
    c2 = c2
    Browsers = {tab1, tab2}
    CommitmentIn <- OwnIdentity
    Sessions = {s1, s2}
    NoSession = NoSession
    Malformed = Malformed
    MaxRequests = 2
    LossyTabs = {tab1}
SPECIFICATION BackendSpec
CHECK_DEADLOCK FALSE
INVARIANTS
    KYCInv
    AutoApprovalBacked
    VoucherInv
    ClaimsBacked
PROPERTIES
    VerdictStands
    PendingDecided
    ApprovedGetsVoucher
