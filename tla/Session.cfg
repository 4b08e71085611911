SPECIFICATION Spec
CONSTANTS
    a = a
    k1 = k1
    k2 = k2
    s1 = s1
    s2 = s2
    h1 = h1
    h2 = h2
    p = p
    q = q
    Clients <- MCClients
    Keys <- MCKeys
    Conns <- MCConns
    Helpers <- MCHelpers
    Paths <- MCPaths
    Decoy = Decoy
    Malformed = Malformed
    None = None
SYMMETRY Symmetric
INVARIANTS
    TypeOK
    MintsAgree
    AnswersAgree
    DecoyUndecryptable
    MintsListed
CHECK_DEADLOCK FALSE
