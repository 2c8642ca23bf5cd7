SPECIFICATION DeliveredSpec
CONSTANTS
    alice = alice
    bob = bob
    t1 = t1
    e1 = e1
    Agents = {alice, bob}
    Tasks = {t1}
    EscrowIds = {e1}
    References = {initial}
    InitialBalance = initial
    None = None
    NoVote = NoVote
    Platform = platform
    Threads = {h1, h2}
    Amounts = {3}
    Percents = {0, 50, 100}
    MaxAssets = 1
    MaxLate = 0
    Faults = {}
    Rulers = {r1, r2}
    RebuttalThreads = {p1, p2}
    Panel = 3
    Votes <- MCVotes
    MaxFaults = 2
    MaxAstray = 1
INVARIANTS
    CourtTypeOK
    RuledAsPaid
    FeedbackAsRuled
    OneRulingInExecution
PROPERTIES
    RulingEnds
    RulingReachesAll
CHECK_DEADLOCK FALSE
