CONSTANTS
    exe = exe
    ini = ini
    enb = enb
    Paths <- MCPaths
    Dirs = {enb}
    Root = Root
    DirOf <- MCDirOf
    NMods = 2
    Contents = {c1, c2}
    Absent = Absent
    Partial = Partial
    NoManifest = NoManifest
    NoItem = NoItem
    Faults = {"crash between operations", "crash in deploy", "backup fails", "copy fails", "rename fails", "switched off"}
    MaxFaults = 2
SPECIFICATION Spec
INVARIANTS TypeOK RestoredWhenOff OriginalKept WinnerDeployed
PROPERTIES ClearSparesOwn
