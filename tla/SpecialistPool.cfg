SPECIFICATION FairSpec
CONSTANTS
    planner = planner
    advanced = advanced
    standard = standard
    aggregator = aggregator
    None = None
    Model = {planner, advanced, standard, aggregator}
    Planner = planner
    Gpus <- MCGpus
    Plans <- MCPlans
    Configs <- MCConfigs
    PromptStops = TRUE
    NTasks = 3
    NTurns = 2
CHECK_DEADLOCK FALSE
INVARIANTS
    VramExclusive
    BootsAccounted
PROPERTIES
    ResidencyJustified
    TasksServed
