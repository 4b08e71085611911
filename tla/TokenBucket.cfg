SPECIFICATION Spec
CONSTANTS
    Interval = 2
    Burst = 2
    MaxTime = 9
    MaxEvents = 8
INVARIANTS
    TypeOK
    RateBounded
    SuppressedAccounted
PROPERTY NoNeedlessSuppression
CHECK_DEADLOCK FALSE
