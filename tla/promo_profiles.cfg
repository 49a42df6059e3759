CONSTANTS
    Paths = {p1}
    Contents = {c1, c2}
    Dests = {overwrite, output}
    Absent = Absent
    Partial = Partial
    NoJournal = NoJournal
    NoPath = NoPath
    MaxFailures = 2
    MaxInterventions = 2
SPECIFICATION FairSpec
INVARIANTS IndInv
PROPERTIES JournalBeforeTouch NextMountResolvesOrRefuses
