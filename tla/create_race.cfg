SPECIFICATION FairSpec
CONSTANTS
    c1 = c1
    c2 = c2
    o1 = o1
    t1 = t1
    t2 = t2
    b1 = b1
    b2 = b2
    b3 = b3
    NoTree = NoTree
    Torn = Torn
    Nothing = Nothing
    Other = Other
    Creator = {c1, c2}
    Output = {o1}
    Tree = {t1, t2}
    Bytes = {b1, b2, b3}
    Yields <- Extracts
    SharesDelete = FALSE
    RemovalMayFail = FALSE
    MaxDisturbances = 2
INVARIANTS
    PublishedReproducesSource
    NoTornArchive
PROPERTY SomeoneSucceeds
CHECK_DEADLOCK FALSE
