CONSTANTS
    w1 = w1  d1 = d1  k1 = k1  v1 = v1  s1 = s1
    r1 = r1  r2 = r2  x1 = x1  x2 = x2  n1 = n1
    NoJob = NoJob
    Jobs = {d1, v1, s1}
    Job <- ShutdownJobs
    Ids = {r1, x1, x2}
    Connections = {n1}
    MaxDataCalls = 2
    MaxGeneration = 2
    MaxFailures = 1
SPECIFICATION FairSpec
PROPERTIES EveryJobEnds
CHECK_DEADLOCK FALSE
