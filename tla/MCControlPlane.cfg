CONSTANTS
    n1 = n1
    n2 = n2
    r1 = r1
    password = password
    token = token
    v1 = v1
    v2 = v2
    k1 = k1
    k2 = k2
    ro = ro
    rw = rw
    a = a
    b = b
    Procs = {a, b}
    Refs = {r1, keyref}
    KeyRef = keyref
    Kinds = {password, token}
    Values = {v1, v2}
    FileKeys = {k1, k2}
    Nothing = Nothing
    MaxGens = 5
    MaxFaults = 2
    Conns = {n1, n2}
    Policies = {ro, rw}
    Requests <- AllRequests
    Seed <- StoredConnection
    MaxCrashes = 1
SPECIFICATION Spec
INVARIANTS
    StoredIsReadable
    StoredPairAgrees
    AnnouncedSecretIsStored
    GrantNamesItsPolicy
    KeysAgree
PROPERTY FailedCommandLeavesConnection
SYMMETRY ProcSymmetry
