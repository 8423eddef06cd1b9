SPECIFICATION Spec
CONSTANTS
    planner = planner
    advanced = advanced
    standard = standard
    aggregator = aggregator
    None = None
    Model = {planner, advanced, standard, aggregator}
    Planner = planner
    Gpus <- MCGpus
    Plans <- MCPlans
    Configs <- PoolOnly
    PromptStops = TRUE
    NTasks = 2
    NTurns = 1
CHECK_DEADLOCK FALSE
INVARIANT
    BootedOnce
