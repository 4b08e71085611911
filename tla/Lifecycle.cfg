SPECIFICATION FairSpec
CONSTANTS
    h1 = h1
    h2 = h2
    Handlers <- MCHandlers
INVARIANTS
    TypeOK
    DrainHonest
    DrainNotForgotten
    SignalSeen
PROPERTIES
    SignalEndsProcess
CHECK_DEADLOCK FALSE
