SPECIFICATION FairSpec
CONSTANTS
    p1 = p1
    p2 = p2
    p3 = p3
    Default = Default
    c1 = c1
    c2 = c2
    short = short
    Initial = {c1}
    Invalid = Invalid
    Torn = Torn
    Nothing = Nothing
    Free = Free
    Process = {p1, p2, p3}
    Config = {Default, c1, c2, short}
    Cut = {Default, short}
    MaxDisturbances = 3
INVARIANT NeverLost
INVARIANT LoadedWasSaved
INVARIANT NoLeftovers
INVARIANT FirstRunsAgree
PROPERTY SavesSucceed
CHECK_DEADLOCK FALSE
