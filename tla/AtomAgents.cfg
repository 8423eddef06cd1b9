SPECIFICATION AASpec
CONSTANTS
    c1 = c1
    c2 = c2
    computation_task = computation_task
    screw_dislocation = screw_dislocation
    print = print
    None = None
    Thread = {c1, c2}
    Tool = {computation_task, screw_dislocation}
    PlanTask = computation_task
    ProperPrefix <- MCProperPrefix
    Predictor = {"mock"}
    Messages <- MCMessages
    NotTools <- MCNotTools
    PlanHorizon = 1
    MaxStep = 3
    MaxCheckpoints = 2
    MaxTasks = 2
    Horizon = 2
    ConservativeSteps = 1
    Ablations = {FALSE}
    AgePerHorizon = 8
    AgeFloor = 60
SYMMETRY Threads
CHECK_DEADLOCK FALSE
INVARIANTS
    HooksInOrder
    ReArmed
    
PROPERTIES
    JudgedOnce
