SPECIFICATION Spec
CONSTANTS
    c1 = c1
    c2 = c2
    c3 = c3
    p = p
    q = q
    i1 = i1
    i2 = i2
    Callers <- MCCallers
    Keys <- MCPaths
    Ids <- MCIds
    NoId = NoId
    NoKey = NoKey
INVARIANTS
    TypeOK
    NoOrphanMarker
    WaitersCovered
    SingleUntilRefused
    TokensInScope
