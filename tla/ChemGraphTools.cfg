SPECIFICATION ToolsSpec
CONSTANTS
    grid = grid
    model = model
    run_ase = run_ase
    save = save
    smiles = smiles
    Resource = {grid, model}
    Tool = {run_ase, save, smiles}
    Consumer <- MCConsumer
    Predictions <- MCPredictions
    ConservativeSteps = 1
    NSteps = 4
VIEW WithoutNumbers
CHECK_DEADLOCK FALSE
INVARIANTS
    JudgedRight
    DivergenceActs
