SPECIFICATION StalledSpec
CONSTANTS
    c1 = c1
    c2 = c2
    Callers <- MCCallers
    SelfCheck = SelfCheck
    NoCall = NoCall
    Setups <- MCAgentSetups
PROPERTY SignalEnds
CHECK_DEADLOCK FALSE
