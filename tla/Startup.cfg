SPECIFICATION FairSpec
CONSTANTS
    c1 = c1
    c2 = c2
    Callers <- MCCallers
    SelfCheck = SelfCheck
    NoCall = NoCall
    Setups <- MCSetups
INVARIANTS
    TypeOK
    OwnAnswer
    SignaturesAudited
    NoForgottenCall
    NoWaitCycle
    ReadyEarned
    FailsOnlyForCause
PROPERTIES
    CallsEnd
    AgentEnds
    SignalEnds
CHECK_DEADLOCK FALSE
