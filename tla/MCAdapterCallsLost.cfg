CONSTANTS
    a = a
    b = b
    r1 = r1
    r2 = r2
    i1 = i1
    i2 = i2
    Adapters = {"influxdb"}
    Calls = {a, b}
    Requests <- SomeRequests
    Ids = {i1, i2}
    Creds = {1, 2}
    Records = {r1, r2}
    Nobody = Nobody
    PoolSize = 1
    MaxFaults = 1
    MaxInvalidations = 1
    Cancellable = {i1}
    Stored <- SomeStored
SPECIFICATION Spec
INVARIANT NeverClaimsFailure
CHECK_DEADLOCK FALSE
