SPECIFICATION FairSpec
CONSTANTS
    exe = exe
    dll = dll
    v1 = v1
    v2 = v2
    Importer = {i1, i2}
    Reader = {r1}
    File = {exe, dll}
    Content = {v1, v2}
    Absent = Absent
    NoDirectory = NoDirectory
    NoEvidence = NoEvidence
    Damaged = Damaged
    Bundle <- Bundles
    MaxDisturbances = 1
INVARIANTS
    CopiedIsOneBundle
    EvidenceIsOfTheCopy
    BackendSurvives
PROPERTIES
    FailureRestores
    ImportedIsUsable
CHECK_DEADLOCK FALSE
