SPECIFICATION Spec
CONSTANTS
    a = a
    b = b
    k1 = k1
    k2 = k2
    r1 = r1
    r2 = r2
    Clients <- MCClients
    Keys <- MCKeys
    Requests <- MCRequests
    NoKey = NoKey
    Free = Free
INVARIANT NoResurrection
