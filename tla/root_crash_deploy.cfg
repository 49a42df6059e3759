CONSTANTS
    exe = exe
    ini = ini
    enb = enb
    Paths <- MCPaths
    Dirs = {enb}
    Root = Root
    DirOf <- MCDirOf
    NMods = 1
    Contents = {c1}
    Absent = Absent
    Partial = Partial
    NoManifest = NoManifest
    NoItem = NoItem
    Faults = {"crash in deploy"}
    MaxFaults = 1
SPECIFICATION Spec
INVARIANTS OriginalsRestored
