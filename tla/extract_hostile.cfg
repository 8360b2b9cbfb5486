SPECIFICATION FairSpec
CONSTANTS
    good = good
    broken = broken
    badname = badname
    bomb = bomb
    hostile = hostile
    empty = empty
    tree = tree
    part = part
    foul = foul
    Self = Self
    Target = Target
    Other = Other
    Nothing = Nothing
    Archive = {good, broken, badname, bomb, hostile}
    Hostile = {hostile}
    Listable = {good, broken, bomb, hostile}
    Tree = {empty, tree, part, foul}
    EmptyTree = empty
    Clean = {empty, tree, part}
    Yields <- Extracts
    Selection <- Selects
    MaxDisturbances = 1
INVARIANTS
    PublishedIsClean
    ListingCannotSteer
PROPERTY GoodArchivesExtract
CHECK_DEADLOCK FALSE
