CONSTANTS
    esm = esm
    bsa = bsa
    w1 = w1
    w2 = w2
    h1 = h1
    h2 = h2
    Workers <- MCWorkers
    Files = {esm, bsa}
    Backing = {esm}
    Handles <- MCHandles
    Fds <- MCFds
    MAX_RETAINED_RO_FDS = 1
    MaxTicks = 4
    Closed = Closed
    None = None
SYMMETRY Symmetry
SPECIFICATION Spec
INVARIANTS TypeOK OneHolder GameFilesSpared EntriesMatch
