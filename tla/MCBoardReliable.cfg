SPECIFICATION FairSpec
CONSTANTS
    Agents = {alice, bob}
    Tasks = {t1, t2}
    EscrowIds = {e1, e2}
    References = {initial}
    InitialBalance = initial
    None = None
    Platform = platform
    Threads = {h1, h2}
    Amounts = {3}
    Percents = {50}
    MaxAssets = 1
    MaxLate = 0
    Faults = {}
    Owners <- Everyone
    Funds = 3
INVARIANTS
    WorkFunded
    EscrowOfTask
    OneDeadlineRelease
PROPERTIES
    DeadlineEnforced
    EventuallySettled
CHECK_DEADLOCK FALSE
