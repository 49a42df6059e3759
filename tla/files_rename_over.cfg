CONSTANTS
    txt = txt
    ini = ini
    h1 = h1
    h2 = h2
    w1 = w1
    w2 = w2
    Paths = {txt, ini}
    Backing = {txt}
    Installed <- MCNoOverwrite
    Handles <- MCHandles
    Workers <- MCWorkers
    MaxSize = 1
    Sharing = {"replace a staged file"}
    Absent = Absent
    None = None
SPECIFICATION Spec
PROPERTIES RenameMovesFile
