SPECIFICATION FairSpec
CONSTANTS
    small = small
    grid = grid
    mesh = mesh
    None = None
    MaceTask = {1, 2}
    FileTask = {1, 2}
    LoneTask = {1}
    Diverging = {1}
    Consumer = {11, 12}
    Key = {small}
    KeyOf <- MCKeyOf
    NShards = 3
    Workers = 2
    Chunks = 2
    File = {grid, mesh}
    FileOf <- MCFileOf
    NameOf <- MCNameOf
CHECK_DEADLOCK FALSE
INVARIANTS
    StagingSound
    RedirectSound
    
PROPERTIES
    CalculatorsOnce
    LoadsEnd
