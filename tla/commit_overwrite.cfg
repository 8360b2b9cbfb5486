SPECIFICATION Spec
CONSTANTS
    p1 = p1
    p2 = p2
    d1 = d1
    a = a
    b = b
    x1 = x1
    x2 = x2
    Dir = Dir
    None = None
    Other = Other
    Nothing = Nothing
    Destination = {d1}
    Publisher = {p1}
    Path = {x1}
    Data = {a}
    Jobs <- RaceJobs
    SourceTrees <- RaceTrees
    TamperPhases <- NoPhases
    RemovalMayFail = FALSE
    MaxDisturbances = 1
PROPERTY NeverReplaces
CHECK_DEADLOCK FALSE
