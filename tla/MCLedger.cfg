SPECIFICATION LockstepSpec
CONSTANTS
    Agents = {alice, bob}
    Tasks = {t1}
    EscrowIds = {e1, e2}
    References = {initial, salary}
    InitialBalance = initial
    None = None
    Platform = platform
    Threads = {th1, th2}
    Amounts = {1, 3}
    Percents = {34}
SYMMETRY Symmetry
INVARIANTS
    TypeOK
    EscrowSettlement
    SplitShares
    BankAudit
    DoubleAgrees
PROPERTIES
    ResolvedForever
    ImplementsContract
CHECK_DEADLOCK FALSE
