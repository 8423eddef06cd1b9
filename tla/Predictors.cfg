SPECIFICATION Spec
CONSTANTS
    name_to_smiles = name_to_smiles
    to_coordinates = to_coordinates
    run_ase = run_ase
    extract = extract
    screw = screw
    mace = mace
    qwen = qwen
    potential = potential
    llm = llm
    MaxOffset = 2
    MinCount = 2
    Scenarios <- MCScenarios
    JsonEntries <- MCJsonEntries
    ChemTable <- MCChemTable
    AtomTable <- MCAtomTable
    ChemTools <- MCChemTools
    AtomTools <- MCAtomTools
    OracleChem <- MCOracleChem
    OracleAtom <- MCOracleAtom
    MinPercent = 30
    PlanPercent = 80
CHECK_DEADLOCK FALSE
INVARIANTS
    TableExact
    KnownRunsHit
