SPECIFICATION FairSpec
CONSTANTS
    Commands <- CampaignCommands
    MaxFailures = 2
    EstRun <- MCEstRun
    Margin = 1
    Timeout = 2
    JobLength = 4
    MaxJobs = 2
CHECK_DEADLOCK FALSE
INVARIANTS
    CampaignLedger
    TrialsAreEvidence
    TrialsIsolated
PROPERTIES
    DiskIsRecord
    DriverEnds
