CONSTANTS
    p1 = p1  p2 = p2  n1 = n1  n2 = n2  r1 = r1  r2 = r2  k1 = k1  o1 = o1  o2 = o2
    g1 = g1  g2 = g2  c1 = c1  c2 = c2  c3 = c3
    NoOp = NoOp  NoKey = NoKey  NoGrant = NoGrant  NoCall = NoCall
    Instances = {p1}
    Connections = {n1}
    RequestIds = {r1, r2}
    Keys = {k1}
    Ops = {o1, o2}
    Grants = {g1}
    Claims <- ProgressClaims
    Calls = {c1, c2}
    Request <- ProgressRequests
    GlobalLimit = 2
    ConnectionLimit = 1
    GrantLifetime = 1
    MaxFaults = 0
    MaxTime = 0
    MaxRevision = 2
    MaxCrashes = 1
SPECIFICATION FairSpec
INVARIANTS PermitsFollowCalls SentIsAudited
PROPERTIES EveryCallReturns EveryChangeIsSeen
CHECK_DEADLOCK FALSE
