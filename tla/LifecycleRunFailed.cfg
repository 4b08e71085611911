SPECIFICATION FairSpec
CONSTANTS
    h1 = h1
    h2 = h2
    Handlers <- MCHandlers
PROPERTIES
    RunFailureReported
CHECK_DEADLOCK FALSE
