SPECIFICATION ObsSpec
CONSTANTS
    alice = alice
    bob = bob
    t1 = t1
    e1 = e1
    Agents = {alice, bob}
    Tasks = {t1}
    EscrowIds = {e1}
    References = {initial}
    InitialBalance = initial
    None = None
    NoVote = NoVote
    Platform = platform
    Threads = {h1}
    Amounts = {3}
    Percents = {0, 50, 100}
    MaxAssets = 1
    MaxLate = 0
    Faults = {}
    Rulers = {r1}
    RebuttalThreads = {}
    Panel = 1
    Votes = {50, 100}
    MaxFaults = 0
    MaxAstray = 0
    Pages = {"none", "observatory", "task"}
    HistoryLimit = 2
    MaxClock = 1
    MaxRequests = 2
    PageFaults = {"history", "task"}
    MaxReconnects <- MCReconnects
INVARIANTS
    ObsTypeOK
    LogReconciles
    PagesAgree
    GdpAddsUp
    FeedGapless
    SettledIsPaid
    SettlementAsPaid
PROPERTIES
    FeedComplete
CHECK_DEADLOCK FALSE
