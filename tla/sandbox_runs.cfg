SPECIFICATION FairSpec
CONSTANTS
    Runs = 2
    Budget = 1
    MaxUsage = 3
    Attempts = 2
    MaxDisturbances = 4
INVARIANTS
    SuccessIsWithinLimits
    Confined
    LeftoversAreReported
PROPERTIES
    SecretIsOneUse
    EverythingEnds
CHECK_DEADLOCK FALSE
