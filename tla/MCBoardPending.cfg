SPECIFICATION FairSpec
CONSTANTS
    Agents = {alice, bob}
    Tasks = {t1}
    EscrowIds = {e1, e2}
    References = {initial, salary}
    InitialBalance = initial
    None = None
    Platform = platform
    Threads = {h1, h2}
    Amounts = {3}
    Percents = {0, 50, 100}
    MaxAssets = 1
    MaxLate = 0
    Faults = {"timeout"}
    Owners <- Everyone
    Funds = 3
PROPERTY
    PendingRetried
CHECK_DEADLOCK FALSE
