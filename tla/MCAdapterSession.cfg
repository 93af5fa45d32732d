CONSTANTS
    s1 = s1
    s2 = s2
    p1 = p1
    p2 = p2
    d1 = d1
    c1 = c1
    Adapters <- AllAdapters
    Inputs <- AllInputs
    Bytes <- RowBytes
    MetaBytes = 1
    MaxRows = 2
    MaxBytes = 6
    Sessions = {s1, s2}
    Lead = s1
    InitialRows <- SomeRows
    Patterns <- SomePatterns
    Visible = {1, 3, 4, 5}
    Limits = {1, 3}
    IdLists <- SomeIds
    MaskedAdapters = {"hbase"}
    MASKED_CURSOR_CAPACITY = 2
    TokenBytes = 1
    MaxChanges = 1
    MaxLosses = 1
    Inspections = {p1, p2}
    DataCalls = {d1}
    Cancels = {c1}
    NoCall = NoCall
    InspectedAdapters = {"postgresql"}
    MaxEntities = 2
SPECIFICATION FairSpec
INVARIANTS
    ConnectsAsSaved
    SavedIsUsable
    TestedIsUsable
    PagesComplete
    CursorsWellFormed
    CancelledInspectionFails
PROPERTIES
    AnswersWithinLimits
    CancelReturns
CHECK_DEADLOCK FALSE
