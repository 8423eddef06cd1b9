SPECIFICATION MeasureSpec
CONSTANTS
    Engine = {planner}
    Attempts = 2
    RetrySleep = 1
    SmiTimeout = 2
    Interval = 1
    JoinTimeout = 4
    MaxChanges = 3
    MaxSamples = 4
    Shards = 4
    ShardSize = 200
    Traffic = {2, 500}
    MaxLoads = 2
    MaxTraffic = 1
    MaxSeconds = 15
    Model = {esm, mace}
    Slack = 1
    MaxTime = 4
    MaxPhases = 4
    MaxDepth = 3
    MaxTasks = 1
CHECK_DEADLOCK FALSE
INVARIANTS
    ProfileTrue
    CausesTold
PROPERTIES
    ProfileComplete
