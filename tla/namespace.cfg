CONSTANTS
    Paths <- MCPaths
    Dirs <- MCDirs
    Names <- MCNames
    Merged <- MCMerged
    Spellings = {"Aa"}
    NoPath = NoPath
    NoNode = NoNode
    NoListing = NoListing
    Dangling = Dangling
    Idle = Idle
    AutoCreate = TRUE
    Habits = {"rename while open", "unlink while open"}
    MaxIno = 5
    MaxNegative = 1
    MaxChanges = 3
SPECIFICATION Spec
CHECK_DEADLOCK FALSE
INVARIANTS TypeOK NoDanglingNode LookupIsOfOneMoment LookupsMatchTree ListedFilesCurrent
