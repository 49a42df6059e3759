CONSTANTS
    Paths <- MCPaths
    Dirs <- MCDirs
    Names <- MCNames
    Merged <- MCMerged
    Spellings = {"Aa"}
    NoPath = NoPath
    NoNode = NoNode
    NoListing = NoListing
    Dangling = Dangling
    Idle = Idle
    AutoCreate = FALSE
    Habits = {"rename full directory"}
    MaxIno = 6
    MaxNegative = 2
    MaxChanges = 2
SPECIFICATION Spec
CHECK_DEADLOCK FALSE
INVARIANT FoundFilesCurrent
