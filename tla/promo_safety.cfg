CONSTANTS
    Paths = {p1, p2}
    Contents = {c1, c2}
    Dests = {overwrite}
    Absent = Absent
    Partial = Partial
    NoJournal = NoJournal
    NoPath = NoPath
    MaxFailures = 2
    MaxInterventions = 2
SPECIFICATION Spec
SYMMETRY Symmetry
INVARIANTS NoAcceptedWriteLost ExposedComplete CrashAloneNeverBlocks
PROPERTIES JournalRetained ImplementsStore
