----------------------------- MODULE RootBuilder -----------------------------
(***************************************************************************)
(* The VFS Root Builder of FuseConnector: for the length of a session the  *)
(* files of the mods' Root directories are copied over the files of the    *)
(* game directory, whose own files are kept in a backup directory of the   *)
(* instance (deployRootFiles, clearRootFiles, fuseconnector.cpp).          *)
(*                                                                         *)
(* What may go wrong is a parameter, so that a run says which faults the   *)
(* restoration survives.  A file being copied holds Partial content until  *)
(* its copy ends.  The backup of a game file has the path of the file, so  *)
(* a set of paths stands for the map m_rootBackups.                 *)
(*                                                                         *)
(* Not modelled: symbolic links, permissions, and mods installed with the  *)
(* same contents as the game's own file.                                   *)
(***************************************************************************)
EXTENDS Naturals, FiniteSets

CONSTANTS
    Paths,      \* files below the game directory
    Dirs,       \* sub-directories of the game directory
    Root,       \* the game directory itself
    DirOf,      \* the directory of each path
    NMods,      \* mods, from the lowest to the highest priority
    Contents,   \* contents of the game's own files
    Absent,     \* no file
    Partial,    \* a file whose copy was cut short
    NoManifest, \* no manifest.json, or one that does not parse
    NoItem,     \* no file is being deployed
    Faults,     \* which faults happen, a subset of AllFaults
    MaxFaults   \* bound: faults

AllFaults == {"crash between operations", "crash in deploy", "crash in clear",
              "backup fails", "copy fails", "rename fails", "switched off"}

\* The faults after which every session is still undone completely.
Survivable == {"crash between operations", "backup fails"}

Mods == 1..NMods

ASSUME LayoutAssumption ==
    /\ Root \notin Dirs
    /\ DirOf \in [Paths -> Dirs \cup {Root}]
    /\ NMods \in Nat /\ MaxFaults \in Nat
    /\ Faults \subseteq AllFaults
    /\ Absent # Partial
    /\ {Absent, Partial} \cap (Contents \cup Mods) = {}
    /\ Contents \cap Mods = {}
    /\ NoItem \notin Mods \X Paths
    /\ NoManifest \notin [deployed : SUBSET Paths, dirs : SUBSET Dirs,
                          backups : SUBSET Paths]

Stored   == Contents \cup Mods \cup {Absent, Partial}
Manifest == [deployed : SUBSET Paths, dirs : SUBSET Dirs, backups : SUBSET Paths]

VARIABLES
    \* On disk.
    game,      \* the files of the game directory
    subdirs,   \* the sub-directories that exist
    bak,       \* the files of the backup directory
    manifest,  \* manifest.json
    \* In memory, lost in a crash.
    enabled,   \* m_rootBuilderEnabled
    payload,   \* the files of the mods' Root directories, <<mod, path>>
    deployed,  \* m_rootDeployedFiles
    dirs,      \* m_rootDeployedDirs
    backups,   \* m_rootBackups
    pc,        \* next step
    after,     \* what clearRootFiles was called for
    work,      \* payload deployRootFiles has not looked at
    item,      \* the payload file being deployed
    todo,      \* files clearRootFiles has not looked at
    \* Whose files these are, for the properties.
    session,   \* whether the game is or may be running on deployed files
    orig,      \* the game's and the user's own files
    origDirs,  \* the game's and the user's own directories
    faults,    \* faults so far
    harmed     \* one of them was not survivable

disk   == <<game, subdirs, bak, manifest>>
record == <<deployed, dirs, backups>>
loop   == <<work, item, todo>>
memory == <<enabled, payload, record, pc, after, loop>>
owner  == <<orig, origDirs>>
history == <<faults, harmed>>
vars   == <<disk, memory, session, owner, history>>

NothingRecorded == deployed = {} /\ dirs = {} /\ backups = {}

Fault(kind) ==
    /\ kind \in Faults /\ faults < MaxFaults
    /\ faults' = faults + 1
    /\ harmed' = (harmed \/ kind \notin Survivable)

Goto(step) == pc' = step

-----------------------------------------------------------------------------
(* updateMapping and unmount                                                *)

\* A session is prepared: updateMapping of the FUSE VFS, or
\* prepareRootFilesForUsvfs, with the mods of the moment.  A session that is
\* already prepared is prepared again.
Prepare(on, files) ==
    /\ pc = "idle"
    /\ enabled' = on
    /\ IF on THEN UNCHANGED history ELSE Fault("switched off")
    /\ payload' = files
    /\ session' = "on"
    /\ pc' = IF on THEN "clear" ELSE "idle"
    /\ after' = "deploy"
    /\ UNCHANGED <<disk, record, loop, owner>>

\* The game has ended, or the user closed the preview.
Unmount ==
    /\ pc = "idle" /\ session = "on"
    /\ IF enabled THEN pc' = "clear" /\ after' = "done" /\ UNCHANGED session
                  ELSE session' = "off" /\ UNCHANGED <<pc, after>>
    /\ UNCHANGED <<disk, enabled, payload, record, loop, owner, history>>

-----------------------------------------------------------------------------
(* clearRootFiles                                                           *)

\* Mutant: the manifest of an earlier process is not loaded.
ClearLoadForgets ==
    /\ pc = "clear"
    /\ todo' = deployed
    /\ pc' = IF NothingRecorded THEN "cleared" ELSE "remove"
    /\ manifest' = IF NothingRecorded THEN NoManifest ELSE manifest
    /\ UNCHANGED <<game, subdirs, bak, enabled, payload, record, after, work, item,
                   session, owner, history>>

\* Without files or directories in memory the manifest says what to clear; if
\* there is nothing, an empty manifest and an empty backup directory go.
ClearLoad ==
    /\ pc = "clear"
    /\ LET load == deployed = {} /\ dirs = {} /\ manifest # NoManifest
       IN  /\ deployed' = IF load THEN manifest.deployed ELSE deployed
           /\ dirs'     = IF load THEN manifest.dirs ELSE dirs
           /\ backups'  = IF load THEN backups \cup manifest.backups ELSE backups
    /\ todo' = deployed'
    /\ pc' = IF NothingRecorded' THEN "cleared" ELSE "remove"
    /\ manifest' = IF NothingRecorded' THEN NoManifest ELSE manifest
    /\ UNCHANGED <<game, subdirs, bak, enabled, payload, after, work, item, session,
                   owner, history>>

RemoveDeployed(p) ==
    /\ pc = "remove" /\ p \in todo
    /\ game' = [game EXCEPT ![p] = Absent]
    /\ todo' = todo \ {p}
    /\ UNCHANGED <<subdirs, bak, manifest, enabled, payload, record, pc, after, work, item,
                   session, owner, history>>

\* Mutant: the loop over the backups is skipped.
RemoveDoneSkipsRestore ==
    /\ pc = "remove" /\ todo = {}
    /\ todo' = backups
    /\ Goto("dirs")
    /\ UNCHANGED <<disk, enabled, payload, record, after, work, item, session, owner, history>>

RemoveDone ==
    /\ pc = "remove" /\ todo = {}
    /\ todo' = backups
    /\ Goto("restore")
    /\ UNCHANGED <<disk, enabled, payload, record, after, work, item, session, owner, history>>

\* A recorded backup that exists is renamed to its place in the game directory.
Restore(p) ==
    /\ pc = "restore" /\ p \in todo
    /\ todo' = todo \ {p}
    /\ IF bak[p] = Absent
         THEN UNCHANGED <<game, subdirs, bak>>
         ELSE /\ game' = [game EXCEPT ![p] = bak[p]]
              /\ bak' = [bak EXCEPT ![p] = Absent]
              /\ subdirs' = subdirs \cup ({DirOf[p]} \ {Root})
    /\ UNCHANGED <<manifest, enabled, payload, record, pc, after, work, item, session,
                   owner, history>>

\* The rename fails, as it does when the instance and the game are on different
\* file systems; the error code is not looked at.
RestoreFails(p) ==
    /\ pc = "restore" /\ p \in todo
    /\ bak[p] # Absent
    /\ Fault("rename fails")
    /\ todo' = todo \ {p}
    /\ subdirs' = subdirs \cup ({DirOf[p]} \ {Root})
    /\ UNCHANGED <<game, bak, manifest, enabled, payload, record, pc, after, work, item,
                   session, owner>>

RestoreDone ==
    /\ pc = "restore" /\ todo = {}
    /\ Goto("dirs")
    /\ UNCHANGED <<disk, enabled, payload, record, after, loop, session, owner, history>>

\* The directories deployRootFiles had to create go if they are empty.
RemoveDirs ==
    /\ pc = "dirs"
    /\ subdirs' = subdirs \ {d \in dirs : \A p \in Paths : DirOf[p] = d => game[p] = Absent}
    /\ Goto("backups")
    /\ UNCHANGED <<game, bak, manifest, enabled, payload, record, after, loop, session,
                   owner, history>>

\* The whole backup directory is removed.
DropBackups ==
    /\ pc = "backups"
    /\ bak' = [p \in Paths |-> Absent]
    /\ Goto("manifest")
    /\ UNCHANGED <<game, subdirs, manifest, enabled, payload, record, after, loop,
                   session, owner, history>>

\* Mutant: the record of the last deployment is not cleared.
DropManifestKeepsRecord ==
    /\ pc = "manifest"
    /\ manifest' = NoManifest
    /\ UNCHANGED record
    /\ Goto("cleared")
    /\ UNCHANGED <<game, subdirs, bak, enabled, payload, after, loop, session, owner,
                   history>>

DropManifest ==
    /\ pc = "manifest"
    /\ manifest' = NoManifest
    /\ deployed' = {} /\ dirs' = {} /\ backups' = {}
    /\ Goto("cleared")
    /\ UNCHANGED <<game, subdirs, bak, enabled, payload, after, loop, session, owner,
                   history>>

\* clearRootFiles returns to unmount or to deployRootFiles.
Cleared ==
    /\ pc = "cleared"
    /\ IF after = "deploy"
         THEN /\ pc' = "deploy" /\ work' = payload /\ UNCHANGED session
              /\ deployed' = {} /\ dirs' = {} /\ backups' = {}
         ELSE /\ pc' = "idle" /\ session' = "off" /\ UNCHANGED <<work, record>>
    /\ UNCHANGED <<disk, enabled, payload, after, item, todo, owner, history>>

-----------------------------------------------------------------------------
(* deployRootFiles                                                          *)

\* Mutant: the mods in the order in which they are listed.
CandidatesInListOrder == {i \in work : \A j \in work : i[1] <= j[1]}

\* The mods from the highest to the lowest priority, their files in any order.
Candidates == {i \in work : \A j \in work : j[1] <= i[1]}

\* Mutant: a path that a mod of higher priority has deployed is deployed again.
TakeItemAgain(i) ==
    /\ pc = "deploy" /\ i \in Candidates
    /\ work' = work \ {i}
    /\ item' = i
    /\ pc' = IF game[i[2]] = Absent THEN "copy" ELSE "backup"
    /\ UNCHANGED <<disk, enabled, payload, record, after, todo, session, owner, history>>

\* The next file, unless a mod of higher priority has deployed its path.
TakeItem(i) ==
    /\ pc = "deploy" /\ i \in Candidates
    /\ work' = work \ {i}
    /\ IF i[2] \in deployed
         THEN UNCHANGED <<item, pc>>
         ELSE item' = i /\ pc' = IF game[i[2]] = Absent THEN "copy" ELSE "backup"
    /\ UNCHANGED <<disk, enabled, payload, record, after, todo, session, owner, history>>

\* reflinkBackupCopy truncates an older backup, then writes it.
BackupBegins ==
    /\ pc = "backup"
    /\ bak' = [bak EXCEPT ![item[2]] = Partial]
    /\ Goto("backupEnd")
    /\ UNCHANGED <<game, subdirs, manifest, enabled, payload, record, after, loop,
                   session, owner, history>>

BackupEnds ==
    /\ pc = "backupEnd"
    /\ bak' = [bak EXCEPT ![item[2]] = game[item[2]]]
    /\ backups' = backups \cup {item[2]}
    /\ Goto("unlink")
    /\ UNCHANGED <<game, subdirs, manifest, enabled, payload, deployed, dirs, after,
                   loop, session, owner, history>>

\* A file that cannot be backed up is not replaced.
BackupFails ==
    /\ pc = "backupEnd"
    /\ Fault("backup fails")
    /\ Goto("deploy") /\ item' = NoItem
    /\ UNCHANGED <<disk, enabled, payload, record, after, work, todo, session, owner>>

Unlink ==
    /\ pc = "unlink"
    /\ game' = [game EXCEPT ![item[2]] = Absent]
    /\ Goto("copy")
    /\ UNCHANGED <<subdirs, bak, manifest, enabled, payload, record, after, loop,
                   session, owner, history>>

\* trackedCreateParents records the directories it creates; the copy begins.
CopyBegins ==
    /\ pc = "copy"
    /\ LET new == {DirOf[item[2]]} \ ({Root} \cup subdirs)
       IN  subdirs' = subdirs \cup new /\ dirs' = dirs \cup new
    /\ game' = [game EXCEPT ![item[2]] = Partial]
    /\ Goto("copyEnd")
    /\ UNCHANGED <<bak, manifest, enabled, payload, deployed, backups, after, loop,
                   session, owner, history>>

CopyEnds ==
    /\ pc = "copyEnd"
    /\ game' = [game EXCEPT ![item[2]] = item[1]]
    /\ deployed' = deployed \cup {item[2]}
    /\ Goto("deploy") /\ item' = NoItem
    /\ UNCHANGED <<subdirs, bak, manifest, enabled, payload, dirs, backups, after, work,
                   todo, session, owner, history>>

\* A failed copy leaves what it has written.
CopyFails ==
    /\ pc = "copyEnd"
    /\ Fault("copy fails")
    /\ Goto("deploy") /\ item' = NoItem
    /\ UNCHANGED <<disk, enabled, payload, record, after, work, todo, session, owner>>

\* saveRootManifest truncates the manifest, then writes it.
SaveManifestBegins ==
    /\ pc = "deploy" /\ work = {}
    /\ manifest' = NoManifest
    /\ Goto("save")
    /\ UNCHANGED <<game, subdirs, bak, enabled, payload, record, after, loop, session,
                   owner, history>>

SaveManifestEnds ==
    /\ pc = "save"
    /\ manifest' = [deployed |-> deployed, dirs |-> dirs, backups |-> backups]
    /\ Goto("idle")
    /\ UNCHANGED <<game, subdirs, bak, enabled, payload, record, after, loop, session,
                   owner, history>>

-----------------------------------------------------------------------------
(* The environment.                                                         *)

\* The game or the user creates a file where there is none.
CreateOwn(p, c) ==
    /\ pc = "idle"
    /\ game[p] = Absent
    /\ DirOf[p] = Root \/ DirOf[p] \in subdirs
    /\ game' = [game EXCEPT ![p] = c]
    /\ orig' = [orig EXCEPT ![p] = c]
    /\ origDirs' = origDirs \cup ({DirOf[p]} \ {Root})
    /\ UNCHANGED <<subdirs, bak, manifest, memory, session, history>>

\* A game update or the user changes a file while nothing is deployed.
ReplaceOwn(p, c) ==
    /\ pc = "idle" /\ session = "off"
    /\ game[p] \notin {Absent, c} /\ game[p] = orig[p]
    /\ game' = [game EXCEPT ![p] = c]
    /\ orig' = [orig EXCEPT ![p] = c]
    /\ UNCHANGED <<subdirs, bak, manifest, memory, session, origDirs, history>>

Deploying == pc \in {"deploy", "backup", "backupEnd", "unlink", "copy", "copyEnd", "save"}
Clearing  == pc \in {"clear", "remove", "restore", "dirs", "backups", "manifest", "cleared"}

\* The program dies.
Crash ==
    /\ session = "on"
    /\ \/ pc = "idle" /\ Fault("crash between operations")
       \/ Deploying /\ Fault("crash in deploy")
       \/ Clearing /\ Fault("crash in clear")
    /\ enabled' = FALSE /\ payload' = {}
    /\ deployed' = {} /\ dirs' = {} /\ backups' = {}
    /\ pc' = "idle" /\ after' = "done" /\ work' = {} /\ item' = NoItem /\ todo' = {}
    /\ session' = "stale"
    /\ UNCHANGED <<disk, owner>>

Init ==
    /\ game \in [Paths -> Contents \cup {Absent}]
    /\ subdirs \in SUBSET Dirs
    /\ \A p \in Paths : game[p] # Absent => DirOf[p] \in subdirs \cup {Root}
    /\ bak = [p \in Paths |-> Absent]
    /\ manifest = NoManifest
    /\ enabled = FALSE /\ payload = {}
    /\ deployed = {} /\ dirs = {} /\ backups = {}
    /\ pc = "idle" /\ after = "done" /\ work = {} /\ item = NoItem /\ todo = {}
    /\ session = "off" /\ orig = game /\ origDirs = subdirs
    /\ faults = 0 /\ harmed = FALSE

Clear ==
    \/ ClearLoad \/ RemoveDone \/ RestoreDone \/ RemoveDirs
    \/ DropBackups \/ DropManifest \/ Cleared
    \/ \E p \in Paths : RemoveDeployed(p) \/ Restore(p) \/ RestoreFails(p)

Deploy ==
    \/ \E i \in Mods \X Paths : TakeItem(i)
    \/ BackupBegins \/ BackupEnds \/ BackupFails
    \/ Unlink \/ CopyBegins \/ CopyEnds \/ CopyFails
    \/ SaveManifestBegins \/ SaveManifestEnds

Next ==
    \/ \E on \in BOOLEAN, files \in SUBSET (Mods \X Paths) : Prepare(on, files)
    \/ Unmount \/ Clear \/ Deploy \/ Crash
    \/ \E p \in Paths, c \in Contents : CreateOwn(p, c) \/ ReplaceOwn(p, c)

Spec == Init /\ [][Next]_vars

-----------------------------------------------------------------------------
(* Properties.                                                              *)

\* The type of every variable, and when the loops of the two functions run.
TypeOK ==
    /\ game \in [Paths -> Stored] /\ bak \in [Paths -> Stored]
    /\ subdirs \subseteq Dirs
    /\ manifest \in Manifest \cup {NoManifest}
    /\ enabled \in BOOLEAN
    /\ payload \subseteq Mods \X Paths
    /\ work \subseteq payload /\ (work # {} => Deploying /\ pc # "save")
    /\ deployed \subseteq Paths /\ backups \subseteq Paths /\ dirs \subseteq Dirs
    /\ Deploying \/ Clearing \/ pc = "idle"
    /\ after \in {"deploy", "done"}
    /\ IF Deploying /\ pc \notin {"deploy", "save"} THEN item \in payload ELSE item = NoItem
    /\ todo \subseteq Paths /\ (todo # {} => pc \in {"remove", "restore"})
    /\ session \in {"off", "on", "stale"}
    /\ orig \in [Paths -> Contents \cup {Absent}] /\ origDirs \subseteq Dirs
    /\ faults \in Nat /\ harmed \in BOOLEAN

\* "Remove deployed root files and restore backups": when a session is over, the
\* game directory holds the game's own files and directories and nothing else,
\* unless a fault happened that the code does not survive.
RestoredWhenOff ==
    session = "off" /\ pc = "idle" /\ ~harmed => game = orig /\ subdirs = origDirs

\* "Backup existing file": whatever step deployRootFiles or clearRootFiles has
\* reached, a file of the game is in its place or in the backup directory, and a
\* manifest knows all that a crash would otherwise leave in the game directory.
OriginalKept ==
    /\ ~harmed => \A p \in Paths : orig[p] # Absent => orig[p] \in {game[p], bak[p]}
    /\ pc = "idle" /\ session # "off" /\ (enabled \/ session = "stale") /\ ~harmed =>
        /\ manifest # NoManifest
        /\ \A p \in Paths : game[p] # orig[p] => p \in manifest.deployed
        /\ \A p \in Paths : bak[p] # Absent /\ game[p] # orig[p] => p \in manifest.backups
        /\ subdirs \ origDirs \subseteq manifest.dirs

\* "The first deployment of a path is the one that is kept": a prepared session
\* sees, of every path, the file of the mod of highest priority that has one.
WinnerDeployed ==
    session = "on" /\ pc = "idle" /\ enabled /\ faults = 0 =>
        \A i \in payload :
            (\A j \in payload : j[2] = i[2] => j[1] <= i[1]) => game[i[2]] = i[1]

\* The same of a game file alone, which a failed copy leaves restorable.
OriginalsRestored ==
    session = "off" /\ pc = "idle" =>
        \A p \in Paths : orig[p] # Absent => game[p] = orig[p]

\* clearRootFiles deletes what was deployed, and no file of the game or the user.
ClearSparesOwn ==
    [][ Clearing => \A p \in Paths :
          orig[p] # Absent /\ game[p] = orig[p] => game'[p] # Absent ]_vars
=============================================================================
