CONSTANTS
    txt = txt
    ini = ini
    h1 = h1
    h2 = h2
    w1 = w1
    w2 = w2
    Paths = {txt, ini}
    Backing = {txt}
    Installed <- MCInstalled
    Handles <- MCHandles
    Workers <- MCWorkers
    MaxSize = 1
    Sharing = {}
    Absent = Absent
    None = None
SYMMETRY Symmetry
SPECIFICATION Spec
INVARIANTS TypeOK WritersShareFile SizesAtRest
PROPERTIES ImplementsDirectory GameNeverModified
