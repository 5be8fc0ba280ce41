SPECIFICATION FairSpec
CONSTANTS
    Windows = {w1}
    Rules = 1
    Repeats = 1
    NoWindow = NoWindow
    MayDie = {"save", "delete"}
    MaxCommands = 1
    MaxShelves = 0
PROPERTIES DeletedReleases
CHECK_DEADLOCK FALSE
