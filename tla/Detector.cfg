SPECIFICATION Spec
CONSTANTS
    c1 = c1
    computation_task = computation_task
    screw_dislocation = screw_dislocation
    run_ase = run_ase
    None = None
    Thread = {c1}
    Tool = {computation_task, screw_dislocation, run_ase}
    ProperPrefix <- MCProperPrefix
    Predictor = {"mock"}
    MaxStep = 5
    MaxCheckpoints = 3
    Horizon = 2
    ConservativeSteps = 1
    AgePerHorizon = 1
    AgeFloor = 1
    Ablations = {FALSE, TRUE}
INVARIANTS
    VerdictSound
    EveryVerdictCounted
    DivergenceActs
PROPERTIES
    AblationInert
