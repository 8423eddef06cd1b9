SPECIFICATION TraceSpec
CONSTANTS
    Paces <- MCPaces
    MaxTools = 3
    Estimate <- MCEstimate
    Conservative = 1
    MinWindow = 1
    SpinupFloor = 1
CHECK_DEADLOCK FALSE
INVARIANTS
    SecondsTrue
    RecordsAgree
    OutcomesTrue
