SPECIFICATION Spec
CONSTANTS
    c1 = c1
    c2 = c2
    c3 = c3
    r1 = r1
    r2 = r2
    r3 = r3
    r4 = r4
    r5 = r5
    r6 = r6
    k1 = k1
    k2 = k2
    None = None
    Caller = {c1}
    Resource = {r1, r2, r3, r4, r5, r6}
    Checkpoint = {k1}
    MaxTasks = 2
    Config <- MCConfig
    Info <- EveryType
    Remaining <- MCRemaining
    Executors <- MCExecutors
    Composite = TRUE
    PoolSize <- MCPoolSize
    SlowLoads = TRUE
INVARIANTS
    TypeOK
    OneInFlight
    RevokedForGood
    ReportIsFinal
PROPERTIES
    SlotContract
