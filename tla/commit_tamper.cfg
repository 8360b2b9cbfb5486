SPECIFICATION Spec
CONSTANTS
    p1 = p1
    p2 = p2
    d1 = d1
    a = a
    b = b
    x1 = x1
    x2 = x2
    Dir = Dir
    None = None
    Other = Other
    Nothing = Nothing
    Destination = {d1}
    Publisher = {p1}
    Path = {x1, x2}
    Data = {a, b}
    Jobs <- TamperJobs
    SourceTrees <- TamperTrees
    TamperPhases <- AuditedPhases
    RemovalMayFail = TRUE
    MaxDisturbances = 2
INVARIANT PublishedIsAudited
INVARIANT HandoffIsHonest
CHECK_DEADLOCK FALSE
