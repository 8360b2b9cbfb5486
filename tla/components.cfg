SPECIFICATION Spec
SYMMETRY Symmetric
CONSTANTS
    Away = Away
    f1 = f1
    f2 = f2
    default = default
    plain = plain
    spaced = spaced
    unread = unread
    default_text = default_text
    plain_text = plain_text
    spaced_text = spaced_text
    bad_text = bad_text
    Window = {w1, w2}
    Field = {f1, f2}
    Value = {default, plain, spaced}
    Text = {default_text, plain_text, spaced_text, bad_text}
    Typed = {spaced_text, bad_text}
    Shows <- TextOf
    ReadAs <- ReadingOf
    Invalid = unread
    Missing = Missing
    Broken = Broken
    Nobody = Nobody
    Default <- Defaults
    MaxChanges = 2
    max_directories = max_directories
    Dpis = {96, 144}
    Thumb = {}
    NoControl = NoControl
    MaxMessages = 3
    Control = {max_directories}
    Layout <- Layouts
    Content <- Lengths
    Page <- Pages
    TreePath <- Paths
    Trees <- StartTrees
    Forms <- Change2
    Absent <- NoEntry
    TreeSelections <- SomeSelections
    BadName = {"bad:"}
    MaxTreeFiles = 2
    MaxTreeDirectories = 2
    MaxTreeBytes = 3
    MaxTreePathBytes = 6
    NameBytes <- TreeBytes
    Linked = {"linked"}
    MaxTreeChanges = 2
    Archives <- AllArchives
    Candidates <- Backends
    Base = "a"
    StrayPaths <- Strays
    BadPart = {"line break"}
    Lower <- LowerOf
    Volume <- VolumeOf
    Length <- LengthOf
    MaxFiles = 2
    MaxDirectories = 1
    MaxTotalBytes = 3
    MaxSingleFileBytes = 2
    MaxDepth = 2
    MaxPathBytes = 5
    MaxListingBytes = 100
    Nothing = Nothing
    Pending = Pending
    MaxCommandUnits = 18
    MaxPassword = 6
    Kilo = 2
    MaxNumber = 255
    MaxSelected = 2
    MaxSelectedDepth = 3
    MaxSelectedBytes = 8
    PartBytes <- BytesOf
    MaxIndex = 3
    Questions <- AllQuestions
    Fold <- FoldOf
    BadNamePart = {"bad:"}
    Device = {"con"}
    RawCompound <- RawCompounds
    RawExtension <- RawExtensions
    BaseCompound <- BaseCompounds
    Directories <- AllDirectories
    Local <- LocalPackage
    Before <- BeforeOf
    Documents <- Docs
    MaxPackages = 2
    MaxEvidenceFiles = 8
INVARIANTS
    TitleIsTrue
    ControlsFollowScroll
    QuietTreesAreJudgedExactly
    StableEntriesAreSeen
    DeliveredIsFingerprinted
    OutputWithinLimits
    OutputIsTheArchive
    NoTornStream
    FormatsRoundTrip
    NamesAreExact
    EvidenceIsExact
PROPERTIES
    OnlyEditsAreSaved
    FocusIsVisible
CHECK_DEADLOCK FALSE
