SPECIFICATION FairSpec
CONSTANTS
    c1 = c1
    c2 = c2
    c3 = c3
    r1 = r1
    r2 = r2
    r3 = r3
    r4 = r4
    r5 = r5
    r6 = r6
    k1 = k1
    k2 = k2
    None = None
    Caller = {c1, c2, c3}
    Resource = {r1, r3, r4, r5}
    Checkpoint = {k1}
    MaxTasks = 1
    Config <- MCConfig
    Info <- AllButMace
    Remaining <- MCRemaining
    Executors <- MCExecutors
    Composite = TRUE
    PoolSize <- MCPoolSize
    SlowLoads = FALSE
INVARIANTS
    SettledWhenDone
    LandedCancelSticks
PROPERTIES
    EveryTaskReported
