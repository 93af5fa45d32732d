CONSTANTS
    p1 = p1  p2 = p2  n1 = n1  n2 = n2  r1 = r1  r2 = r2  k1 = k1  o1 = o1  o2 = o2
    g1 = g1  g2 = g2  c1 = c1  c2 = c2  c3 = c3
    NoOp = NoOp  NoKey = NoKey  NoGrant = NoGrant  NoCall = NoCall
    Instances = {p1}
    Connections = {n1}
    RequestIds = {r1, r2}
    Keys = {k1}
    Ops = {o1, o2}
    Grants = {g1}
    Claims <- ChangeClaims
    Calls = {c1, c2}
    Request <- ChangeRequests
    GlobalLimit = 2
    ConnectionLimit = 2
    GrantLifetime = 1
    MaxFaults = 0
    MaxTime = 1
    MaxRevision = 3
    MaxCrashes = 0
SPECIFICATION Spec
SYMMETRY ChangeSymmetry
INVARIANT GrantUsedOnce
PROPERTIES NoStaleDispatch CancelIsFinal
CHECK_DEADLOCK FALSE
