SPECIFICATION MCSpec
CONSTANTS
    Windows = {w1, w2}
    Rules = 2
    Repeats = 0
    NoWindow = NoWindow
    MayDie = {"save"}
    MaxCommands = 1
    MaxShelves = 2
INVARIANTS HoldInv
PROPERTIES ShelfKept TimerRespectsHolds EscalationResumes
CHECK_DEADLOCK FALSE
