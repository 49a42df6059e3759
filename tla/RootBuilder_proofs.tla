-------------------------- MODULE RootBuilder_proofs --------------------------
(***************************************************************************)
(* Proofs about RootBuilder, for any files, mods, faults and bounds.       *)
(***************************************************************************)
EXTENDS RootBuilder, TLAPS

\* A fault is counted, and harms unless it is survivable.
LEMMA FaultStep ==
  ASSUME TypeOK, NEW kind, Fault(kind)
  PROVE  /\ faults' \in Nat \ {0} /\ harmed' \in BOOLEAN /\ kind \in Faults
         /\ ~harmed' => ~harmed /\ kind \in Survivable
<1>1. faults' \in Nat \ {0}
  BY SMT DEF TypeOK, Fault
<1>2. harmed' \in BOOLEAN /\ kind \in Faults /\ (~harmed' => ~harmed /\ kind \in Survivable)
  BY Zenon DEF TypeOK, Fault
<1>3. QED
  BY <1>1, <1>2

\* The faults that harm.
LEMMA Harms ==
  \A kind \in {"switched off", "rename fails", "copy fails", "crash in deploy",
               "crash in clear"} : Fault(kind) => harmed'
<1> SUFFICES ASSUME NEW kind \in {"switched off", "rename fails", "copy fails",
                                  "crash in deploy", "crash in clear"}, Fault(kind)
             PROVE  harmed'
  OBVIOUS
<1>1. kind \notin Survivable
  BY DEF Survivable
<1>2. QED
  BY <1>1, Zenon DEF Fault

\* Initial states are well typed and every action keeps the types.
LEMMA TypeInductive == (Init => TypeOK) /\ (TypeOK /\ [Next]_vars => TypeOK')
<1> USE LayoutAssumption
    DEF TypeOK, Stored, Manifest, Deploying, Clearing, Goto, Candidates,
        NothingRecorded, disk, record, loop, memory, owner, history
<1>1. Init => TypeOK
  <2> SUFFICES ASSUME Init PROVE TypeOK
    OBVIOUS
  <2>1. game \in [Paths -> Stored] /\ orig \in [Paths -> Contents \cup {Absent}]
    BY DEF Init
  <2>2. bak \in [Paths -> Stored]
    BY DEF Init
  <2>3. QED
    BY <2>1, <2>2 DEF Init
<1>2. TypeOK /\ [Next]_vars => TypeOK'
  <2> SUFFICES ASSUME TypeOK, [Next]_vars PROVE TypeOK'
    OBVIOUS
  <2>1. ASSUME NEW on \in BOOLEAN, NEW files \in SUBSET (Mods \X Paths), Prepare(on, files)
        PROVE  TypeOK'
    BY <2>1, FaultStep DEF Prepare
  <2>2. CASE Unmount
    BY <2>2 DEF Unmount
  <2>3. CASE ClearLoad
    BY <2>3 DEF ClearLoad
  <2>4. CASE RemoveDone \/ RestoreDone \/ RemoveDirs \/ DropBackups
    BY <2>4 DEF RemoveDone, RestoreDone, RemoveDirs, DropBackups
  <2>5. CASE DropManifest \/ Cleared
    BY <2>5 DEF DropManifest, Cleared
  <2>6. ASSUME NEW p \in Paths, RemoveDeployed(p) \/ Restore(p) \/ RestoreFails(p)
        PROVE  TypeOK'
    <3>1. CASE RemoveDeployed(p)
      BY <3>1 DEF RemoveDeployed
    <3>2. CASE Restore(p)
      BY <3>2 DEF Restore
    <3>3. CASE RestoreFails(p)
      BY ZenonT(60), <3>3, FaultStep DEF RestoreFails
    <3>4. QED
      BY <2>6, <3>1, <3>2, <3>3
  <2>7. ASSUME NEW i \in Mods \X Paths, TakeItem(i)
        PROVE  TypeOK'
    BY <2>7 DEF TakeItem
  <2>8. CASE BackupBegins \/ BackupEnds \/ BackupFails
    <3>1. CASE BackupBegins
      BY <3>1 DEF BackupBegins
    <3>2. CASE BackupEnds
      BY <3>2 DEF BackupEnds
    <3>3. CASE BackupFails
      BY <3>3, FaultStep DEF BackupFails
    <3>4. QED
      BY <2>8, <3>1, <3>2, <3>3
  <2>9. CASE Unlink \/ CopyBegins
    BY <2>9 DEF Unlink, CopyBegins
  <2>10. CASE CopyEnds \/ CopyFails
    <3>1. CASE CopyEnds
      BY <3>1 DEF CopyEnds
    <3>2. CASE CopyFails
      BY <3>2, FaultStep DEF CopyFails
    <3>3. QED
      BY <2>10, <3>1, <3>2
  <2>11. CASE SaveManifestBegins \/ SaveManifestEnds
    BY <2>11 DEF SaveManifestBegins, SaveManifestEnds
  <2>12. CASE Crash
    BY <2>12, FaultStep DEF Crash
  <2>13. ASSUME NEW p \in Paths, NEW c \in Contents, CreateOwn(p, c) \/ ReplaceOwn(p, c)
         PROVE  TypeOK'
    BY <2>13 DEF CreateOwn, ReplaceOwn
  <2>14. CASE UNCHANGED vars
    BY <2>14 DEF vars
  <2>15. QED
    BY <2>1, <2>2, <2>3, <2>4, <2>5, <2>6, <2>7, <2>8, <2>9, <2>10, <2>11, <2>12,
       <2>13, <2>14 DEF Next, Clear, Deploy
<1>3. QED
  BY <1>1, <1>2

\* Every variable keeps its type, and the loops run when they should.
THEOREM TypeCorrect == Spec => []TypeOK
  BY TypeInductive, PTL DEF Spec
-----------------------------------------------------------------------------
(* The invariants.                                                          *)

\* Whether a file of a mod is being deployed, which is then item.
AtItem == Deploying /\ pc \notin {"deploy", "save"}

\* The two functions run in a session only.  While files are deployed there is no
\* manifest, and what is being deployed has not been deployed before.  clearRootFiles
\* ends without a record.
Records ==
    /\ pc # "idle" => session = "on"
    /\ Deploying \/ pc = "cleared" => manifest = NoManifest
    /\ pc = "cleared" => NothingRecorded
    /\ AtItem => item[2] \notin deployed

\* What clearRootFiles is to delete has the contents of a mod.
DeployedAreMods ==
    /\ pc \in {"idle", "clear"} \/ Deploying => \A p \in deployed : game[p] \in Mods
    /\ pc \in {"idle", "clear"} /\ manifest # NoManifest =>
          \A p \in manifest.deployed : game[p] \in Mods
    /\ pc = "remove" => \A p \in todo : game[p] \in Mods

\* The original of p, if there is one, is recorded and in the backup directory.
Restorable(p, bks) == (p \in bks <=> orig[p] # Absent) /\ (p \in bks => bak[p] = orig[p])
Untouched(p, bks)  == game[p] = orig[p] /\ p \notin bks

\* The directories beside the game's own are the recorded ones; one of these that is
\* used by the game meanwhile has a file of it.
DirsKnown(ds) ==
    /\ subdirs = origDirs \cup ds
    /\ \A d \in ds \cap origDirs : \E p \in Paths : DirOf[p] = d /\ orig[p] # Absent

\* The record r says how to get back to the originals.
Undoable(r) ==
    /\ \A p \in Paths :
          IF p \in r.deployed THEN game[p] \in Mods /\ Restorable(p, r.backups)
                              ELSE Untouched(p, r.backups)
    /\ DirsKnown(r.dirs)

\* What this process knows of its deployment.
Recorded == [deployed |-> deployed, dirs |-> dirs, backups |-> backups]

\* What a new process knows of the last deployment.
Known == IF manifest = NoManifest THEN [deployed |-> {}, dirs |-> {}, backups |-> {}]
                                  ELSE manifest

\* Each file of the game is in a directory of the game.
OwnDirs == \A p \in Paths : orig[p] # Absent => DirOf[p] \in origDirs \cup {Root}

\* While nothing runs or before anything has been cleared.
UndoAtRest ==
    pc \in {"idle", "clear"} =>
        /\ Undoable(Known) /\ (NothingRecorded \/ Recorded = Known)
        /\ pc = "idle" => (session = "off" <=> manifest = NoManifest)
        /\ pc = "idle" /\ session = "off" => NothingRecorded

\* In clearRootFiles.
UndoInClear ==
    /\ pc = "remove" =>
        /\ DirsKnown(dirs) /\ todo \subseteq deployed
        /\ \A p \in Paths :
              IF p \in deployed
              THEN (IF p \in todo THEN game[p] \in Mods ELSE game[p] = Absent)
                   /\ Restorable(p, backups)
              ELSE Untouched(p, backups)
    /\ pc = "restore" =>
        /\ DirsKnown(dirs)
        /\ \A p \in Paths :
              IF p \in todo THEN game[p] = Absent /\ orig[p] # Absent /\ bak[p] = orig[p]
                            ELSE game[p] = orig[p]
    /\ pc = "dirs" => DirsKnown(dirs) /\ game = orig
    /\ pc \in {"backups", "manifest", "cleared"} => game = orig /\ subdirs = origDirs

\* In deployRootFiles.
UndoInDeploy ==
    Deploying =>
        /\ DirsKnown(dirs)
        /\ \A p \in Paths :
              IF p \in deployed THEN game[p] \in Mods /\ Restorable(p, backups)
              ELSE IF AtItem /\ p = item[2]
                THEN /\ pc \in {"backup", "backupEnd"} =>
                           game[p] = orig[p] /\ orig[p] # Absent /\ p \notin backups
                     /\ pc = "unlink" => game[p] = orig[p] /\ orig[p] # Absent
                     /\ pc = "copy" => game[p] = Absent
                     /\ pc \in {"unlink", "copy", "copyEnd"} => Restorable(p, backups)
              ELSE Untouched(p, backups)

\* Whatever step has been reached, there is a way back to the originals, and a record
\* of it.
WayBack ==
    /\ session = "on" => enabled
    /\ \A p \in Paths : bak[p] # Absent => orig[p] # Absent
    /\ UndoAtRest /\ UndoInClear /\ UndoInDeploy

\* There is as long as no fault has harmed.
Undo == ~harmed => WayBack

\* Without faults: what is deployed comes from the mod of highest priority that has it,
\* and all that has been looked at is deployed.
Winners ==
    faults = 0 /\ (Deploying \/ (pc = "idle" /\ session = "on" /\ enabled)) =>
        /\ \A p \in deployed :
              <<game[p], p>> \in payload /\ \A j \in payload : j[2] = p => j[1] <= game[p]
        /\ \A i \in payload \ work : i[2] \in deployed \/ (AtItem /\ i = item)
        /\ AtItem => \A j \in payload : j[2] = item[2] => j[1] <= item[1]
-----------------------------------------------------------------------------
(* The records, and whose files are deleted.                                *)

\* Records is inductive.
LEMMA RecordsInductive ==
  (Init => Records) /\ (TypeOK /\ Records /\ [Next]_vars => Records')
<1> USE DEF Records, AtItem, Deploying, Clearing, Goto, NothingRecorded,
            disk, record, loop, memory, owner, history
<1>1. Init => Records
  BY DEF Init
<1>2. TypeOK /\ Records /\ [Next]_vars => Records'
  <2> SUFFICES ASSUME TypeOK, Records, [Next]_vars PROVE Records'
    OBVIOUS
  <2>1. ASSUME NEW on \in BOOLEAN, NEW files \in SUBSET (Mods \X Paths), Prepare(on, files)
        PROVE  Records'
    BY <2>1 DEF Prepare
  <2>2. CASE Unmount \/ ClearLoad \/ RemoveDone \/ RestoreDone \/ RemoveDirs \/ DropBackups
    BY <2>2 DEF Unmount, ClearLoad, RemoveDone, RestoreDone, RemoveDirs, DropBackups
  <2>3. CASE DropManifest \/ Cleared
    BY <2>3 DEF DropManifest, Cleared
  <2>4. ASSUME NEW p \in Paths, RemoveDeployed(p) \/ Restore(p) \/ RestoreFails(p)
        PROVE  Records'
    BY <2>4 DEF RemoveDeployed, Restore, RestoreFails
  <2>5. ASSUME NEW i \in Mods \X Paths, TakeItem(i)
        PROVE  Records'
    BY <2>5 DEF TakeItem
  <2>6. CASE BackupBegins \/ BackupEnds \/ BackupFails
    BY <2>6 DEF BackupBegins, BackupEnds, BackupFails
  <2>7. CASE Unlink \/ CopyBegins \/ CopyEnds \/ CopyFails
    BY <2>7 DEF Unlink, CopyBegins, CopyEnds, CopyFails
  <2>8. CASE SaveManifestBegins \/ SaveManifestEnds \/ Crash
    BY <2>8 DEF SaveManifestBegins, SaveManifestEnds, Crash
  <2>9. ASSUME NEW p \in Paths, NEW c \in Contents, CreateOwn(p, c) \/ ReplaceOwn(p, c)
        PROVE  Records'
    BY <2>9 DEF CreateOwn, ReplaceOwn
  <2>10. CASE UNCHANGED vars
    BY <2>10 DEF vars
  <2>11. QED
    BY <2>1, <2>2, <2>3, <2>4, <2>5, <2>6, <2>7, <2>8, <2>9, <2>10 DEF Next, Clear, Deploy
<1>3. QED
  BY <1>1, <1>2

\* OwnDirs is inductive.
LEMMA OwnDirsInductive ==
  (Init => OwnDirs) /\ (TypeOK /\ OwnDirs /\ [Next]_vars => OwnDirs')
<1> USE DEF OwnDirs
<1>1. Init => OwnDirs
  BY DEF Init
<1>2. TypeOK /\ OwnDirs /\ [Next]_vars => OwnDirs'
  <2> SUFFICES ASSUME TypeOK, OwnDirs, [Next]_vars PROVE OwnDirs'
    OBVIOUS
  <2>1. CASE UNCHANGED owner
    BY <2>1 DEF owner
  <2>2. ASSUME NEW p \in Paths, NEW c \in Contents, CreateOwn(p, c)
        PROVE  OwnDirs'
    BY <2>2 DEF CreateOwn, TypeOK
  <2>3. ASSUME NEW p \in Paths, NEW c \in Contents, ReplaceOwn(p, c)
        PROVE  OwnDirs'
    BY <2>3, LayoutAssumption DEF ReplaceOwn, TypeOK
  <2>4. UNCHANGED owner \/ \E p \in Paths, c \in Contents : CreateOwn(p, c) \/ ReplaceOwn(p, c)
    BY DEF Next, Clear, Deploy, vars, Prepare, Unmount, ClearLoad, RemoveDone, RestoreDone,
           RemoveDirs, DropBackups, DropManifest, Cleared, RemoveDeployed, Restore,
           RestoreFails, TakeItem, BackupBegins, BackupEnds, BackupFails, Unlink,
           CopyBegins, CopyEnds, CopyFails, SaveManifestBegins, SaveManifestEnds, Crash
  <2>5. QED
    BY <2>1, <2>2, <2>3, <2>4
<1>3. QED
  BY <1>1, <1>2

\* Without a crash in clearRootFiles DeployedAreMods is inductive.
LEMMA DeployedAreModsInductive ==
  ASSUME "crash in clear" \notin Faults
  PROVE  /\ Init => DeployedAreMods
         /\ TypeOK /\ Records /\ DeployedAreMods /\ [Next]_vars => DeployedAreMods'
<1> USE DEF DeployedAreMods, Deploying, Clearing, Goto, NothingRecorded,
            disk, record, loop, memory, owner, history
<1>1. Init => DeployedAreMods
  BY DEF Init
<1>2. TypeOK /\ Records /\ DeployedAreMods /\ [Next]_vars => DeployedAreMods'
  <2> SUFFICES ASSUME TypeOK, Records, DeployedAreMods, [Next]_vars PROVE DeployedAreMods'
    OBVIOUS
  <2>1. ASSUME NEW on \in BOOLEAN, NEW files \in SUBSET (Mods \X Paths), Prepare(on, files)
        PROVE  DeployedAreMods'
    BY <2>1 DEF Prepare
  <2>2. CASE Unmount \/ ClearLoad
    BY <2>2 DEF Unmount, ClearLoad, TypeOK, Manifest
  <2>3. CASE RemoveDone \/ RestoreDone \/ RemoveDirs \/ DropBackups \/ DropManifest
    BY <2>3 DEF RemoveDone, RestoreDone, RemoveDirs, DropBackups, DropManifest
  <2>4. CASE Cleared
    BY <2>4 DEF Cleared, Records
  <2>5. ASSUME NEW p \in Paths, RemoveDeployed(p) \/ Restore(p) \/ RestoreFails(p)
        PROVE  DeployedAreMods'
    BY <2>5 DEF RemoveDeployed, Restore, RestoreFails, TypeOK
  <2>6. ASSUME NEW i \in Mods \X Paths, TakeItem(i)
        PROVE  DeployedAreMods'
    BY <2>6 DEF TakeItem, Records
  <2>7. CASE BackupBegins \/ BackupEnds \/ BackupFails
    BY <2>7 DEF BackupBegins, BackupEnds, BackupFails
  <2>8. CASE Unlink \/ CopyBegins
    BY <2>8 DEF Unlink, CopyBegins, TypeOK, Records, AtItem
  <2>9. CASE CopyEnds \/ CopyFails
    <3>1. CASE CopyEnds
      <4>1. item \in Mods \X Paths /\ item[1] \in Mods /\ item[2] \in Paths
        BY <3>1 DEF CopyEnds, TypeOK
      <4>2. \A p \in deployed' : game'[p] \in Mods
        BY <3>1, <4>1 DEF CopyEnds, TypeOK
      <4>3. QED
        BY <3>1, <4>2 DEF CopyEnds, Records, AtItem
    <3>2. CASE CopyFails
      BY <3>2 DEF CopyFails, Records, AtItem
    <3>3. QED
      BY <2>9, <3>1, <3>2
  <2>10. CASE SaveManifestBegins \/ SaveManifestEnds
    <3>1. CASE SaveManifestBegins
      BY <3>1 DEF SaveManifestBegins
    <3>2. CASE SaveManifestEnds
      <4>1. manifest'.deployed = deployed /\ \A p \in deployed : game[p] \in Mods
        BY <3>2 DEF SaveManifestEnds
      <4>2. QED
        BY <3>2, <4>1 DEF SaveManifestEnds
    <3>3. QED
      BY <2>10, <3>1, <3>2
  <2>11. CASE Crash
    BY <2>11 DEF Crash, Fault, Records
  <2>12. ASSUME NEW p \in Paths, NEW c \in Contents, CreateOwn(p, c) \/ ReplaceOwn(p, c)
         PROVE  DeployedAreMods'
    <3>1. game[p] \notin Mods /\ pc = "idle" /\ UNCHANGED <<pc, deployed, manifest>>
      BY <2>12, LayoutAssumption DEF CreateOwn, ReplaceOwn, TypeOK
    <3>2. game' = [game EXCEPT ![p] = c]
      BY <2>12 DEF CreateOwn, ReplaceOwn
    <3>3. QED
      BY <3>1, <3>2 DEF TypeOK, Manifest
  <2>13. CASE UNCHANGED vars
    BY <2>13 DEF vars
  <2>14. QED
    BY <2>1, <2>2, <2>3, <2>4, <2>5, <2>6, <2>7, <2>8, <2>9, <2>10, <2>11, <2>12, <2>13
    DEF Next, Clear, Deploy
<1>3. QED
  BY <1>1, <1>2

\* clearRootFiles only deletes what has the contents of a mod, and what it renames is a
\* file; so whatever the faults, if none is a crash in clearRootFiles, the files of the
\* game and of the user stay.
THEOREM OwnSpared == ASSUME "crash in clear" \notin Faults PROVE Spec => ClearSparesOwn
<1> DEFINE Spared == Clearing => \A p \in Paths :
                       orig[p] # Absent /\ game[p] = orig[p] => game'[p] # Absent
<1>1. TypeOK /\ DeployedAreMods /\ [Next]_vars => [Spared]_vars
  <2> SUFFICES ASSUME TypeOK, DeployedAreMods, Next, Clearing,
                      NEW q \in Paths, orig[q] # Absent, game[q] = orig[q]
               PROVE  game'[q] # Absent
    OBVIOUS
  <2>1. game[q] # Absent /\ game[q] \notin Mods
    BY LayoutAssumption DEF TypeOK
  <2>2. CASE UNCHANGED game
    BY <2>1, <2>2
  <2>3. ASSUME NEW p \in Paths, RemoveDeployed(p)
        PROVE  game'[q] # Absent
    BY <2>1, <2>3 DEF RemoveDeployed, DeployedAreMods, TypeOK
  <2>4. ASSUME NEW p \in Paths, Restore(p)
        PROVE  game'[q] # Absent
    BY <2>1, <2>4 DEF Restore, TypeOK
  <2>5. UNCHANGED game \/ \E p \in Paths : RemoveDeployed(p) \/ Restore(p)
    BY DEF Next, Clear, Deploy, Clearing, disk, Prepare, Unmount, ClearLoad, RemoveDone,
           RestoreDone, RemoveDirs, DropBackups, DropManifest, Cleared, RestoreFails,
           TakeItem, BackupBegins, BackupEnds, BackupFails, Unlink, CopyBegins, CopyEnds,
           CopyFails, SaveManifestBegins, SaveManifestEnds, Crash, CreateOwn, ReplaceOwn
  <2>6. QED
    BY <2>2, <2>3, <2>4, <2>5
<1>2. QED
  BY <1>1, TypeInductive, RecordsInductive, DeployedAreModsInductive, PTL
  DEF Spec, ClearSparesOwn
-----------------------------------------------------------------------------
(* The way back.                                                            *)

\* Initially nothing is deployed.
LEMMA WayBackInit == Init => WayBack
  BY DEF Init, WayBack, UndoAtRest, UndoInClear, UndoInDeploy, Known, Undoable, Untouched,
         DirsKnown, NothingRecorded, Deploying

\* The operations begin and the environment acts at rest.
LEMMA WayBackAtRest ==
  ASSUME TypeOK, Records, OwnDirs, WayBack, ~harmed', TypeOK',
         \/ \E on \in BOOLEAN, files \in SUBSET (Mods \X Paths) : Prepare(on, files)
         \/ Unmount \/ Crash
         \/ \E p \in Paths, c \in Contents : CreateOwn(p, c) \/ ReplaceOwn(p, c)
  PROVE  WayBack'
<1> USE DEF WayBack, UndoAtRest, UndoInClear, UndoInDeploy, Known, Undoable, Untouched,
            Restorable, Recorded, NothingRecorded, Deploying, Clearing, Goto, disk, record,
            loop, memory, owner, history
<1>1. ASSUME NEW on \in BOOLEAN, NEW files \in SUBSET (Mods \X Paths), Prepare(on, files)
      PROVE  WayBack'
  <2>1. on
    <3>1. CASE ~on
      <4>1. Fault("switched off")
        BY <1>1, <3>1 DEF Prepare
      <4>2. QED
        BY <4>1, Harms
    <3>2. QED
      BY <3>1
  <2>2. QED
    BY <1>1, <2>1 DEF Prepare, DirsKnown
<1>2. CASE Unmount
  BY <1>2 DEF Unmount, DirsKnown
<1>3. CASE Crash
  <2>1. pc = "idle" /\ session = "on"
    <3>1. ~Fault("crash in deploy") /\ ~Fault("crash in clear")
      BY Harms
    <3>2. QED
      BY <1>3, <3>1 DEF Crash
  <2>2. UNCHANGED <<disk, owner>> /\ NothingRecorded' /\ session' = "stale" /\ pc' = "idle"
    BY <1>3 DEF Crash
  <2>3. QED
    BY <2>1, <2>2 DEF DirsKnown, Records
<1>4. ASSUME NEW p \in Paths, NEW c \in Contents, CreateOwn(p, c)
      PROVE  WayBack'
  BY <1>4, LayoutAssumption DEF CreateOwn, DirsKnown, TypeOK, Manifest
<1>5. ASSUME NEW p \in Paths, NEW c \in Contents, ReplaceOwn(p, c)
      PROVE  WayBack'
  BY <1>5, LayoutAssumption DEF ReplaceOwn, DirsKnown, TypeOK, Manifest
<1>6. QED
  BY <1>1, <1>2, <1>3, <1>4, <1>5

\* clearRootFiles gives back the originals, step by step.
LEMMA WayBackInClear ==
  ASSUME TypeOK, Records, OwnDirs, WayBack, ~harmed', TypeOK', Clear
  PROVE  WayBack'
<1> USE DEF WayBack, UndoAtRest, UndoInClear, UndoInDeploy, Known, Undoable, Untouched,
            Restorable, Recorded, NothingRecorded, Deploying, Clearing, Goto, disk, record,
            loop, memory, owner, history
<1>1. CASE ClearLoad
  <2>1. Recorded' = Known /\ Undoable(Known) /\ todo' = deployed'
    <3>1. CASE deployed = {} /\ dirs = {} /\ manifest # NoManifest
      <4>1. manifest = [deployed |-> manifest.deployed, dirs |-> manifest.dirs,
                        backups |-> manifest.backups]
        BY <3>1 DEF TypeOK, Manifest
      <4>2. backups = {} \/ backups = manifest.backups
        BY <1>1, <3>1 DEF ClearLoad
      <4>3. deployed' = manifest.deployed /\ dirs' = manifest.dirs /\ backups' = manifest.backups
        BY <1>1, <3>1, <4>2 DEF ClearLoad
      <4>4. QED
        BY <1>1, <3>1, <4>1, <4>3 DEF ClearLoad
    <3>2. CASE ~(deployed = {} /\ dirs = {} /\ manifest # NoManifest)
      <4>1. UNCHANGED record
        BY <1>1, <3>2 DEF ClearLoad
      <4>2. QED
        BY <1>1, <3>2, <4>1 DEF ClearLoad
    <3>3. QED
      BY <3>1, <3>2
  <2>2. Undoable([deployed |-> deployed', dirs |-> dirs', backups |-> backups'])
    BY <2>1
  <2>3. UNCHANGED <<game, subdirs, bak, enabled, session, owner>>
    BY <1>1 DEF ClearLoad
  <2>4. CASE pc' = "cleared" /\ NothingRecorded'
    BY <2>2, <2>3, <2>4 DEF DirsKnown, TypeOK
  <2>5. CASE pc' = "remove"
    BY <2>1, <2>2, <2>3, <2>5 DEF DirsKnown
  <2>6. QED
    BY <1>1, <2>4, <2>5 DEF ClearLoad
<1>2. ASSUME NEW p \in Paths, RemoveDeployed(p)
      PROVE  WayBack'
  BY <1>2 DEF RemoveDeployed, DirsKnown, TypeOK
<1>3. CASE RemoveDone
  BY <1>3 DEF RemoveDone, DirsKnown
<1>4. ASSUME NEW p \in Paths, Restore(p)
      PROVE  WayBack'
  BY <1>4 DEF Restore, DirsKnown, TypeOK, OwnDirs
<1>5. ASSUME NEW p \in Paths, RestoreFails(p)
      PROVE  WayBack'
  BY <1>5, Harms DEF RestoreFails
<1>6. CASE RestoreDone
  BY <1>6 DEF RestoreDone, DirsKnown, TypeOK
<1>7. CASE RemoveDirs
  BY <1>7, LayoutAssumption DEF RemoveDirs, DirsKnown, TypeOK, OwnDirs
<1>8. CASE DropBackups \/ DropManifest
  BY <1>8 DEF DropBackups, DropManifest
<1>9. CASE Cleared
  BY <1>9 DEF Cleared, DirsKnown, Records
<1>10. QED
  BY <1>1, <1>2, <1>3, <1>4, <1>5, <1>6, <1>7, <1>8, <1>9 DEF Clear

\* deployRootFiles replaces a file once its original is in the backup directory.
LEMMA WayBackInDeploy ==
  ASSUME TypeOK, Records, OwnDirs, WayBack, ~harmed', TypeOK', Deploy
  PROVE  WayBack'
<1> USE DEF WayBack, UndoAtRest, UndoInClear, UndoInDeploy, Known, Undoable, Untouched,
            Restorable, Recorded, NothingRecorded, Deploying, Clearing, Goto, disk, record,
            loop, memory, owner, history, AtItem
<1>1. ASSUME NEW i \in Mods \X Paths, TakeItem(i)
      PROVE  WayBack'
  BY <1>1 DEF TakeItem, DirsKnown
<1>2. CASE BackupBegins
  BY <1>2 DEF BackupBegins, DirsKnown, TypeOK, Records
<1>3. CASE BackupEnds
  BY <1>3 DEF BackupEnds, DirsKnown, TypeOK, Records
<1>4. CASE BackupFails
  BY ZenonT(60), <1>4 DEF BackupFails, DirsKnown, TypeOK, Records
<1>5. CASE Unlink
  BY <1>5 DEF Unlink, DirsKnown, TypeOK, Records
<1>6. CASE CopyBegins
  BY <1>6 DEF CopyBegins, DirsKnown, TypeOK, Records
<1>7. CASE CopyEnds
  BY <1>7 DEF CopyEnds, DirsKnown, TypeOK, Records
<1>8. CASE CopyFails
  BY <1>8, Harms DEF CopyFails
<1>9. CASE SaveManifestBegins \/ SaveManifestEnds
  <2>1. CASE SaveManifestBegins
    BY <2>1 DEF SaveManifestBegins, DirsKnown
  <2>2. CASE SaveManifestEnds
    <3>1. manifest' # NoManifest /\ manifest' = Recorded /\ Recorded' = Recorded
      BY <2>2, LayoutAssumption DEF SaveManifestEnds, TypeOK
    <3>2. UNCHANGED <<game, subdirs, bak, enabled, session, owner>> /\ pc' = "idle"
      BY <2>2 DEF SaveManifestEnds
    <3>3. Undoable(Recorded)
      BY <2>2 DEF SaveManifestEnds
    <3>4. QED
      BY <2>2, <3>1, <3>2, <3>3 DEF SaveManifestEnds, DirsKnown, Records
  <2>3. QED
    BY <1>9, <2>1, <2>2
<1>10. QED
  BY <1>1, <1>2, <1>3, <1>4, <1>5, <1>6, <1>7, <1>8, <1>9 DEF Deploy

\* All that Undo needs is inductive together.
LEMMA UndoInductive ==
  /\ Init => TypeOK /\ Records /\ OwnDirs /\ Undo
  /\ TypeOK /\ Records /\ OwnDirs /\ Undo /\ [Next]_vars
       => TypeOK' /\ Records' /\ OwnDirs' /\ Undo'
<1>1. TypeOK /\ Records /\ OwnDirs /\ Undo /\ [Next]_vars => Undo'
  <2> SUFFICES ASSUME TypeOK, Records, OwnDirs, Undo, [Next]_vars, ~harmed'
               PROVE  WayBack'
    BY DEF Undo
  <2>1. TypeOK'
    BY TypeInductive
  <2>2. ~harmed
    <3>1. ASSUME NEW kind, Fault(kind)
          PROVE  ~harmed
      BY <3>1, FaultStep
    <3>2. CASE UNCHANGED history
      BY <3>2, Zenon DEF history
    <3>3. UNCHANGED history \/ \E kind \in AllFaults : Fault(kind)
      BY DEF Next, Clear, Deploy, vars, Prepare, Unmount, ClearLoad, RemoveDone, RestoreDone,
             RemoveDirs, DropBackups, DropManifest, Cleared, RemoveDeployed, Restore,
             RestoreFails, TakeItem, BackupBegins, BackupEnds, BackupFails, Unlink,
             CopyBegins, CopyEnds, CopyFails, SaveManifestBegins, SaveManifestEnds, Crash,
             CreateOwn, ReplaceOwn, AllFaults
    <3>4. QED
      BY <3>1, <3>2, <3>3
  <2>3. WayBack
    BY <2>2 DEF Undo
  <2>4. CASE Next
    BY <2>1, <2>3, <2>4, WayBackAtRest, WayBackInClear, WayBackInDeploy DEF Next
  <2>5. CASE UNCHANGED vars
    BY <2>3, <2>5 DEF vars, disk, record, loop, memory, owner, history, WayBack, UndoAtRest,
         UndoInClear, UndoInDeploy, Known, Undoable, Untouched, Restorable, Recorded,
         NothingRecorded, Deploying, Clearing, AtItem, DirsKnown
  <2>6. QED
    BY <2>4, <2>5
<1>2. QED
  BY <1>1, TypeInductive, RecordsInductive, OwnDirsInductive, WayBackInit DEF Undo

\* When a session is over the game directory is as it was, unless a fault harmed.
THEOREM GameRestored == Spec => []RestoredWhenOff
<1>1. ASSUME TypeOK, WayBack, session = "off", pc = "idle"
      PROVE  game = orig /\ subdirs = origDirs
  <2>1. Undoable([deployed |-> {}, dirs |-> {}, backups |-> {}])
    BY <1>1 DEF WayBack, UndoAtRest, Known
  <2>2. subdirs = origDirs /\ \A p \in Paths : game[p] = orig[p]
    BY <2>1 DEF Undoable, Untouched, DirsKnown
  <2>3. QED
    BY <1>1, <2>2 DEF TypeOK
<1>2. QED
  <2>1. TypeOK /\ Undo => RestoredWhenOff
    BY <1>1 DEF Undo, RestoredWhenOff
  <2>2. QED
    BY <2>1, UndoInductive, PTL DEF Spec

\* At every step each file of the game is in its place or in the backup directory, and
\* a manifest knows what a crash would leave, unless a fault harmed.
THEOREM OriginalAlwaysKept == Spec => []OriginalKept
<1>1. ASSUME TypeOK, Records, WayBack, NEW p \in Paths, orig[p] # Absent
      PROVE  orig[p] \in {game[p], bak[p]}
  <2> USE DEF WayBack, Undoable, Untouched, Restorable
  <2>1. CASE pc \in {"idle", "clear"}
    BY <1>1, <2>1 DEF UndoAtRest
  <2>2. CASE pc \in {"remove", "restore", "dirs", "backups", "manifest", "cleared"}
    BY <1>1, <2>2 DEF UndoInClear
  <2>3. CASE Deploying
    BY <1>1, <2>3 DEF UndoInDeploy, Deploying, AtItem
  <2>4. QED
    BY <1>1, <2>1, <2>2, <2>3 DEF TypeOK, Clearing
<1>2. ASSUME TypeOK, WayBack, pc = "idle", session # "off"
      PROVE  /\ manifest # NoManifest
             /\ \A p \in Paths : game[p] # orig[p] => p \in manifest.deployed
             /\ \A p \in Paths : bak[p] # Absent /\ game[p] # orig[p] => p \in manifest.backups
             /\ subdirs \ origDirs \subseteq manifest.dirs
  BY <1>2 DEF WayBack, UndoAtRest, Undoable, Untouched, Restorable, DirsKnown, Known
<1>3. TypeOK /\ Records /\ Undo => OriginalKept
  BY <1>1, <1>2 DEF OriginalKept, Undo
<1>4. QED
  BY <1>3, UndoInductive, PTL DEF Spec
-----------------------------------------------------------------------------
(* The mod whose file is deployed.                                          *)

\* Winners is inductive.
LEMMA WinnersInductive ==
  (Init => Winners) /\ (TypeOK /\ Records /\ Winners /\ [Next]_vars => Winners')
<1> USE DEF Winners, AtItem, Deploying, Clearing, Goto, disk, record, loop, memory, owner,
            history
<1>1. Init => Winners
  BY DEF Init
<1>2. TypeOK /\ Records /\ Winners /\ [Next]_vars => Winners'
  <2> SUFFICES ASSUME TypeOK, Records, Winners, [Next]_vars, TypeOK', faults' = 0
               PROVE  Winners'
    BY TypeInductive
  <2>1. ASSUME NEW on \in BOOLEAN, NEW files \in SUBSET (Mods \X Paths), Prepare(on, files)
        PROVE  Winners'
    BY <2>1, FaultStep DEF Prepare
  <2>2. CASE Unmount \/ ClearLoad \/ RemoveDone \/ RestoreDone \/ RemoveDirs \/ DropBackups
    BY <2>2 DEF Unmount, ClearLoad, RemoveDone, RestoreDone, RemoveDirs, DropBackups
  <2>3. CASE DropManifest \/ Cleared
    BY <2>3 DEF DropManifest, Cleared
  <2>4. ASSUME NEW p \in Paths, RemoveDeployed(p) \/ Restore(p) \/ RestoreFails(p)
        PROVE  Winners'
    BY <2>4 DEF RemoveDeployed, Restore, RestoreFails
  <2>5. ASSUME NEW i \in Mods \X Paths, TakeItem(i)
        PROVE  Winners'
    BY <2>5 DEF TakeItem, Candidates, TypeOK, Mods
  <2>6. CASE BackupBegins
    BY <2>6 DEF BackupBegins
  <2>7. CASE BackupEnds
    BY <2>7 DEF BackupEnds
  <2>8. CASE BackupFails \/ CopyFails
    BY <2>8, FaultStep DEF BackupFails, CopyFails
  <2>9. CASE Unlink
    BY <2>9 DEF Unlink, TypeOK, Records
  <2>10. CASE CopyBegins
    BY <2>10 DEF CopyBegins, TypeOK, Records
  <2>11. CASE CopyEnds
    BY <2>11 DEF CopyEnds, TypeOK, Records
  <2>12. CASE SaveManifestBegins \/ SaveManifestEnds
    BY <2>12 DEF SaveManifestBegins, SaveManifestEnds
  <2>13. CASE Crash
    BY <2>13, FaultStep DEF Crash
  <2>14. ASSUME NEW p \in Paths, NEW c \in Contents, CreateOwn(p, c) \/ ReplaceOwn(p, c)
         PROVE  Winners'
    <3>1. pc = "idle" /\ UNCHANGED <<memory, session, history>>
          /\ game' = [game EXCEPT ![p] = c] /\ (session = "on" => game[p] \notin Mods)
      BY <2>14, LayoutAssumption DEF CreateOwn, ReplaceOwn, TypeOK
    <3>2. \A q \in deployed : <<game[q], q>> \in payload => game[q] \in Mods
      BY DEF TypeOK
    <3>3. QED
      BY <3>1, <3>2 DEF TypeOK
  <2>15. CASE UNCHANGED vars
    BY <2>15 DEF vars
  <2>16. QED
    BY <2>1, <2>2, <2>3, <2>4, <2>5, <2>6, <2>7, <2>8, <2>9, <2>10, <2>11, <2>12, <2>13,
       <2>14, <2>15 DEF Next, Clear, Deploy
<1>3. QED
  BY <1>1, <1>2

\* A prepared session sees, of every path, the file of the mod of highest priority.
THEOREM WinnerIsDeployed == Spec => []WinnerDeployed
<1>1. TypeOK /\ Winners => WinnerDeployed
  <2> SUFFICES ASSUME TypeOK, Winners, session = "on", pc = "idle", enabled, faults = 0,
                      NEW i \in payload, \A j \in payload : j[2] = i[2] => j[1] <= i[1]
               PROVE  game[i[2]] = i[1]
    BY DEF WinnerDeployed
  <2>1. i[2] \in deployed
    BY DEF TypeOK, Winners, Deploying, AtItem
  <2>2. <<game[i[2]], i[2]>> \in payload /\ i[1] <= game[i[2]]
    BY <2>1 DEF Winners
  <2>3. game[i[2]] <= i[1]
    BY <2>2
  <2>4. game[i[2]] \in Nat /\ i[1] \in Nat
    BY <2>2 DEF TypeOK, Mods
  <2>5. QED
    BY <2>2, <2>3, <2>4
<1>2. QED
  BY <1>1, TypeInductive, RecordsInductive, WinnersInductive, PTL DEF Spec
=============================================================================
