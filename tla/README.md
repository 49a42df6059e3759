# Fluorine Manager: a TLA+ model of sessions, files and downloads

Fluorine Manager is Mod Organizer 2 for Linux. Mods are kept in directories of
their own; for the duration of a game session they are merged, with the game's
data directory and an *overwrite* directory, into one tree that a FUSE file
system mounts over the game's data directory. What a game writes must end up in
the overwrite directory, the mods must change only where the user expects it,
and the game's own installation must look afterwards as it did before. These
promises have to survive sixteen request threads, crashes of the manager, full
disks, programs that edit the same directories, and games that hide from their
launcher. They are what this project is about, together with the downloads the
mods come from.

Paths below are relative to `src/src/src/` of the repository. Each module names
in its header what it leaves out.

## 1. Inventory

### 1.1 The virtual file system

| Part | State it keeps | Operations | Hard behaviours | What makes it correct |
|---|---|---|---|---|
| **Connector** `fuseconnector.cpp` | the FUSE session and its threads, the staging directory, deployed root files, external links | `mount`, `prepareMount`, `updateMapping`, `rebuild`, `unmount` | a crash leaves mount point, staging directory, root files and links behind | the next mount restores or promotes what an earlier session left before it exposes anything |
| **Staging promotion** `vfs/stagingpromotion.cpp` | on disk: staged files, a journal, the archived staging directory and its marker | `promote` at unmount, `recover` before a mount | durable steps with a crash between any two; files edited by others since; a changed output folder | no write that the mounted file system accepted is lost or silently hidden; nothing is overwritten without a journal |
| **Root builder** `fuseconnector.cpp:1982-2296` | deployed files, created directories, backups; their manifest on disk | `deployRootFiles`, `clearRootFiles` | crash and failing copies or renames between the steps; preparing twice | after a session the game directory is what it was |
| **Request handlers** `vfs/mo2filesystem.cpp` | `open_files` with descriptors, the tree, inode table, runtime index, caches, invalidation queue | lookup, open, read, write, create, setattr, rename, unlink, flush, release, ... | 16 workers; values copied under one lock and used after it | a session sees an ordinary directory; game files are never written |
| **Overwrite manager** `vfs/overwritemanager.cpp` | the files in staging and overwrite | `copyOnWrite`, `createFile`, `rename`, `removeFile` | two writable layers per path; partial copies | the index and the layers agree about which file is meant |
| **Runtime index, inode table** `vfs/runtimeindex.cpp`, `vfs/inodetable.cpp` | base (immutable), overlay, hidden inodes, negative entries; path and inode maps | `lookup`, `publish`, `tombstone`, `recordNegative`, `rename` | `lookup` takes its lock three times; bounded negative cache | a lookup returns what was true at some moment of it |
| **Kernel invalidations** `mo2filesystem.cpp:1477-1554` | a queue and its thread | queue, run, stop | invalidating from within a write deadlocks; cache refilled from an old descriptor | the page cache does not keep contents from before a copy |
| **Catalog** `vfs/vfscatalog.cpp`, `vfsindex.cpp`, `scancache.cpp` | an SQLite database of the files of all providers | incremental refresh, forced refresh of dirty paths | list of dirty paths is in memory | no stale entry after a crash |
| **External mappings** `fuseconnector.cpp:1463-1694` | symbolic links and directories, remembered in memory | deploy, cleanup | crash | links do not outlive the session |
| **Tree** `vfs/vfstree.cpp` | the merged tree | built once per mount | none: sequential | priorities |
| **Root locator, permission repair, save migration** | files on disk | deploy, one pass over a directory | crash during deployment | idempotent |

### 1.2 The rest of the program

| Part | State it keeps | Operations | Hard behaviours | What makes it correct |
|---|---|---|---|---|
| **Process lifetime** `processrunner.cpp`, `processlifetime.cpp` | per launch: the process tracked, the one that may become it, timers; per process of the user: whether the mount is there | run, poll, unlock, kill, report, unmount | the processes fork, exec, exit and are reparented between any two looks at `/proc`; queries fail; SIGKILL may not help | the mount outlasts the game, and is given up when the game is gone |
| **Downloads** `downloadmanager.cpp`, `downloadwritelifecycle.h`, `downloadresponse.h` | per download: state, reply, partial file, archive, metadata of both | add, start, pause, resume, cancel, remove, publish, list | handlers re-enter each other through `abort()`; nested event loops; crashes between two renames; servers that ignore ranges | what is published is whole; what is partial can be resumed; private URLs do not outlive their use |

*Single instance and links* (`multiprocess.cpp`, `nxmhandler_linux.cpp`,
`curatedguidenxmbroker.cpp`). *Nexus access*, *curated guides and collections*,
*updater*, *prefix setup*, *Steam cloud*: sequences of external calls. *Mods,
profiles, plugins* and the *user interface*: the code of Mod Organizer 2,
sequential on one thread. `libs/` holds vendored and ported libraries.
`PROJECT.json` lists each of them with the reason it is not modelled, and the
hazards at their lines.

### 1.3 How the parts interact

```
 game ──requests──► FUSE workers ──► open_files, index ──► own files (mods, game)
                     (16 threads)          │               overwrite
                                           └─► OverwriteManager ─► VFS_staging
 Connector: prepareMount ─► recover VFS_staging ─► mount ─► … ─► unmount
                          ─► deploy root files                   ├─ close open files
                                                                 ├─ promote VFS_staging
                                                                 └─ clear root files
                     ▲                                     ▲
 ProcessRunner: run ─┘ … waitForProcessTree polls /proc … ─┘ when the game is gone
```

A launch mounts before it starts its program, and unmounts when the waiter says
that the program completed; two launches and the browse dialog share one mount.
During a session the workers share the table of open files
(`open_files_mutex`), the index (its own lock) and, for operations that change
names, `namespace_mutation_mutex`. A name is kept in five places (tree, inode
table, runtime index, listing caches, node cache), each under a mutex of its own. At unmount the FUSE loop has ended, hence
promotion runs alone; across crashes it communicates with the next launch
through the disk only.

## 2. Modules

| Module | Stands for | Kind |
|---|---|---|
| `WriteBackStore` | what promotion promises | abstract specification |
| `StagingPromotion` | `stagingpromotion.cpp` with its calls in `FuseConnector`, copy-on-write as far as it stages files | refines `WriteBackStore` |
| `RootBuilder` | `deployRootFiles`, `clearRootFiles` and when they are called | |
| `OpenFiles` | the open-file table and the process's descriptors under concurrent workers | |
| `SessionDirectory` | what the mounted file system promises its programs | abstract specification |
| `VirtualFiles` | the handlers that change files of the session, overwrite manager included | refines `SessionDirectory` |
| `InodeTable`, `RuntimeIndex` | the two classes, as operators on records: one call is one critical section | used by `Namespace` |
| `Namespace` | the handlers that change names, and lookups, stats and listings beside them | composes the two |
| `Launch` | a launch, its waiter and the processes it watches; who mounts and unmounts | |
| `Downloads` | one download from its link to its archive | |
| `MC…` | instances for TLC | |
| `StagingPromotion_proofs`, `RootBuilder_proofs`, `OpenFiles_proofs`, `VirtualFiles_proofs`, `Launch_proofs`, `Downloads_proofs`, `RuntimeIndex_proofs` (with `InodeTable`), `Namespace_proofs` | theorems of the module each is named for | proofs |

### 2.1 StagingPromotion

*State.* On disk: the destinations (`dst`), `VFS_staging` and its archived copy
(`file`, indexed by tree), a journal and a temporary journal in each (`journal`,
`jtmp`), the marker file `.fluorine-unresolved`, temporary copies next to the
destinations (`tmp`). In memory and lost in a crash: what the connector does
(`session`), the step of the promotion (`pc`) and its locals. For the
properties only: `owed`, the last content the file system accepted for a path,
`base`, the destinations as the mounted session saw them, and `torn`, the names
under which an unmount promotes a truncated copy over a complete file.

*Actions.* One per durable step. `promote` and `recover` choose a branch
(`PromoteJournals`, `BlockedByMarker`, `RecoverJournals`,
`RecoverArchives`, `RecoverReplays`); writing a journal is create, write and
rename; replay considers one entry at a time in any order, and installs it by
copying to a temporary file, verifying and renaming; the removal of a tree
deletes one file at a time in any order, because `remove_all` has none.
`Crash` may happen between any two, `CopyVerifiedFails` and `CopyOnWriteFails` are
copies that fail. A copy-on-write copy may be of a name that the destination has
already (a rename, a read-only file of a mod). Other programs edit destinations and users reconfigure
the output folder or reconcile an archive only while no session runs.

*A digest is a content*: SHA-256 of two contents differ.

### 2.2 RootBuilder

*State.* The game's root directory (`game`, and `subdirs`, the directories below
it that exist), the backup directory (`bak`), the manifest on disk; in memory
`deployed`, `dirs`, `backups` and the loop variables of the two functions.
`orig` and `origDirs` are the game's own files and directories, for the
properties. `session` is "on" from preparation to unmount and "stale" after a
crash.

*Actions.* `Prepare` and `Unmount` start the functions as the connector does,
with whatever mods are active; each file operation is one step, a copy two
(begun and ended). Faults are crashes in each of three places, failing backups,
copies and renames, and the setting being switched off; `Faults` selects those
an instance looks at.

### 2.3 OpenFiles

*State.* `fds` maps a descriptor number to the file it is open on, `open_files`
is the table, `provider` what the index says, `req` what each worker has copied
and opened. Numbers are reused, lowest first, which is what makes a stale copy
of one dangerous.

*Actions.* Each request is cut at the places where the code takes or releases
`open_files_mutex`. For instance a first read is `ReadBegins` (copy the entry),
`ReadOpens` (open(2) without the lock), `Retains` or `ReadRefused` (the entry
under the lock), `Prunes`, `Splices`. The kernel's inode lock keeps writes,
resizes and truncating opens of a file apart, reads it does not.

### 2.4 VirtualFiles

*State.* `disk` has three layers per path (own, overwrite, staged), `index`
names the file and size a path has for programs, `open_files` the handles opened
for writing, `flushing` what a worker is about to publish.

*Actions.* One per request, with everything `OverwriteManager` does for it;
only a flush is two steps, since it is the one that holds no lock in between
(`FlushBegins` copies under `open_files_mutex`, `Publishes` writes the index).
`Open` and `Create`, `Write` (with the copy-on-write of the first), `Resize`,
`ResizePath`, `Release`, `Unlink`, `Rename`.

*Refinement.* `view` of `SessionDirectory` is the disk's file that the index
names for each path. A file is told apart by the name it was created under, so
that a rename that brings up another file is noticed.

### 2.5 Namespace, InodeTable, RuntimeIndex

*State.* `tree` is the VFS tree, `store` what is on disk in staging or overwrite,
`table` the inode table, `base` and `index` the runtime index (the base never
changes), `nodes` the cache of tree nodes by inode, `entries` and `blobs` the two
listing caches, `handle` a file open for writing, with the path it was opened
under. `mut` is the change that holds `namespace_mutation_mutex`, `req` the
request that runs beside it.

*Actions.* A change begins in its handler (`Create`, `Mkdir`, `Rename`,
`Unlink`, `Rmdir`, `Flush`, …) and then goes through the steps between which no lock is held:
`ChangeTree`, `ChangeInodes`, `TombstonePath`, `PublishChange`,
`InvalidateListings`. A lookup is `OverlaySection`, `BaseSection`,
`NegativeSection`, as in `VfsRuntimeIndex::lookup`, then `TreeSection` and
`Heal` (which publishes what it read) or `RecordMissing`; a stat and a listing
is cut in the same way. The kernel's directory lock belongs to the environment
(the directories that `mut` and `req` hold): it excludes a lookup in a directory that is being changed,
but not a revalidation, a stat or a flush. Spellings are kept for the first
component, the one thing letter case can do to the caches.

*Paths* have two levels: directories of the root, and files in the root or in one of
these, which is what the handlers tell apart (a path, its parent, what is below it).

*Observers.* Five variables are there for the properties only. `seen` collects whether a
name that is being looked up was there, at each step; `late` has the paths that a
request has published after a change of them, `revived` those that a flush has put
back into the tree, `misfiled` the directories that were renamed while they
were listed (section 5, *Names*, has why the properties leave these out); `changes`
counts.

*Inodes* are never reused by the code; `MaxIno` bounds them. The inodes of the initial
paths and of the names of a listing are given out at once (`Numbered`), those of a listing in an
arbitrary order, where the code has that of its container. The two containers
of the negative cache are both there, and the entries that have expired are a
prefix of the one ordered by expiry.

### 2.6 Launch

*State.* `proc` are the processes of the user: whose they are, whether they carry
the launch's token, what they execute, their parent. `runner` is
`ProcessRunner`, `waiter` the loop of `waitForProcessTree` with the values it
keeps between two polls, `mounted`, `browsing` and `up` the rest of the manager.
For the properties only: `withdrawn`, who took the mount away, and `unseen`, what has hidden
from a waiter since it last saw a process of its launch.

*Actions.* The processes are the environment: `Fork`, `Exec`, `Exit`,
reparenting, a daemon that starts a game on request. The waiter's steps are its
looks at `/proc` in their order (the tree of the launch, then the prefix), the
candidate that is pending, the verdict, and, when the user unlocks, one signal
per tree. The descendants of a process are the least set that has its children and
those of its members. Timers are values that `Elapse` runs down. `AfterRun` is what the main
thread does with the verdict: unmount, or keep the mount after an error.

*Queries fail* in two ways. In `Poll` a failure is an error, and ends the wait as one
(`PollFails`). In a scan the code takes what it cannot read for absent: a directory that cannot be opened, an
environment that cannot be read and a status of `Error` all hide a candidate, so
`ScanTree`, `ScanPrefix`, `ScanPending` and `Snapshot` each overlook any part of what is
there (`Overlook`). After the SIGTERM of `Strike` a status that cannot be read
counts as an exit. What is overlooked goes into `unseen`, where the properties find it.

### 2.7 Downloads

*State.* `dl` is the row with its reply and its files: the partial file, the
archive and the metadata of both. Contents are sequences of bytes, for what matters
is where a range is put. `suppressed`, `pending`, `asked` are the admission of
new downloads. A name is what the code asks of it: whether it looks like an object key
(`key`) and whether it lacks `.unfinished` (`bare`). `flaws` is there for the properties: it has what went
wrong with the files (metadata lost with an old name, an archive of unknown length, a
partial file listed as an archive, URLs that were left with or without telling the user).

*Actions.* Handlers are functions of the download, composed as the code calls
them, because `abort()` runs `finished` before it returns; each takes the set of
system calls that fail meanwhile. Four things are interrupted and have actions
of their own: `startDownload` (its event loop, then `StartContinue`), `pauseAll`
(`EndPauseAll`), the renaming of a partial file to the name of `Content-Disposition`
(`Answer` moves the file, `MoveMeta` its metadata, with the ways back if that fails) and the
publication (`RenameArchive`, `RenameMeta`, `WriteMeta`, `Publish`). A server
answers with the rest, with the whole file, with its length or without, with another range
or with an error page, and may fall silent. `Crash` may come
between any two steps; `Restart` and `Refresh` list what is on disk.

## 3. Runs

| Run | Instance | Shows |
|---|---|---|
| `promo_safety` | 2 paths, 2 contents, 1 destination, 2 failures, 2 interventions | no accepted write is lost; marker, journal and archive are what the next launch needs; `WriteBackStore` is implemented |
| `promo_profiles` | 1 path, 2 destinations, fairness | the invariant of the proofs; a journal goes only where it says; staged data is resolved by later launches or they refuse |
| `root_sessions` | 2 paths (one in a directory), 2 mods, 2 contents, 2 faults of six kinds | restored after every session, originals kept and covered by the manifest at every step, the winner deployed, clearing deletes nothing of the game or the user |
| `open_files` | 2 workers, 2 handles, 2 files, 3 descriptors, 1 retained | no descriptor lost or closed twice, no write to a game file, entries agree with descriptors, writers read what they write |
| `files_session` | 2 paths, 2 handles, 2 flushing workers, sizes 0 and 1 | a directory of files is implemented; game files unmodified; writers share one copy; sizes right when all handles are closed |
| `namespace` | 4 paths, 2 of them directories, 3 changes beside one request | no pointer to a freed node; a lookup is of one moment; tree, index, inodes and listings agree at rest; the negative cache's two containers agree |
| `launch` | 1 launch, 3 processes, 2 faults, browse dialog and quitting | completion means that nothing of the launch runs; an unlock kills what it was for and nothing of others; a launch takes no mount from its own game; waits end. What a failing query hid is excused, in that very process only after an unlock, in any after a completion |
| `downloads` | 1 file of 3 bytes, 1 retry, 3 starts, 3 faults, fairness | only whole files are published; what is partial can be resumed; private URLs are retired; active rows have a reply; pauses keep the file; each with the exceptions that `flaws` names; no download hangs |
| `root_crash_deploy` | a crash while deploying | **fails**: see 5.1 |
| `files_rename_over` | renaming over a staged file | **fails**: see 5.2 |
| `namespace_rename_dir` | renaming a directory with files | **fails**: see 5.3 |
| `launch_shared` | 2 launches | **fails**: see 5.4 |

### Bounds, and why they are enough

* *Two paths, two contents* (promotion): an interrupted operation needs one entry
  installed and one not; a conflict needs two contents, a third is never
  compared. Two failures are a crash and a crash during its recovery, the
  deepest nesting the code distinguishes (journal, archive). Two interventions
  are an edit before and after a crash. With one path a second destination
  fits, which `promo_profiles` needs and `promo_safety` does not.
* *Two mods, two paths* (root builder): a conflict of priorities, a file at the top
  and one in a directory to be created. Two faults are a failing operation
  and a crash after it, or the other way round.
* *Two workers, two handles, three descriptors*: every race in the table is one
  of two requests about one handle, plus a second handle to be evicted or to get
  the freed number. With two workers three descriptors also run out, which fires the
  error paths. `MaxTicks = 4` permits four reads of read-only handles. A
  variant with three workers (330 000 states) shows nothing new.
* *Four paths, three changes* (names): a directory with a file that mods provide
  and a directory that a program makes; three changes are a removal, a creation and
  a rename that meets both. Five inodes are the root and the four paths: a name that
  is made again gets one only while there is room. One request
  beside the changes is enough for the promises about it, since requests that
  only read do not change what another one reads but through `Heal`. Here at most one name
  is cached as missing at a time, so an entry expires or is dropped but is never evicted for room.
  The theorems (4.7) are about any other instance. What they leave out was found by simulating one
  with three directories, seven files, 16 inodes, eight changes and two negative entries: the cases of `late`,
  `revived` and `misfiled` take more changes than three, or more paths.
* *Three processes* (launch): a launcher, the game and a stranger's process or the
  wineserver. Two faults are two queries, of one process or of one after the other. The run has
  one launch; without a run of their own and without habits, one launch with four processes and a
  fault (2.2 million states), and two launches with three processes and no fault (3.6 million) or
  two and a fault (385 000), satisfy the same properties but liveness.
* *Three bytes, one retry, three starts* (downloads): partial files that are neither
  empty nor whole, of two lengths, so that a range can be the wrong one; a retry that is used up, two
  resumptions. Three faults are a renaming that fails, the way back that fails and a
  crash after them. With two retries (478 200 states) the same properties hold.
* *One unit of size*: a size is what it was, longer or zero. The directory has a
  game's file and a mod's file that overwrite has too: every layer and every
  copy-on-write decision.

### Fairness

`StagingPromotion!FairSpec` requires that a running promotion takes its next
step (the code is sequential, nothing blocks it), that a copy-on-write in
progress ends, that a session is at some time unmounted and that, when none
runs, one is mounted again. The last two are a decision of the user; they state
the premise of the property ("repeated launches") and are not claimed of the
code. Crashes and failures are bounded by `MaxFailures`, and no fairness is
assumed of them, nor of the user who would reconcile an archive.

`Launch!Spec` has weak fairness of the waiter's steps (its loop sleeps 50 ms at
most) and of what the main thread does with its verdict (it is in its queue), and
strong fairness of `Elapse`: time passes whenever a timer runs, even though polls
that find a candidate stop the timer again. `Elapse` waits for nobody: a daemon may be about to start the
game when the 250 ms are over, which the code cannot know. Nothing is assumed of the processes, so
`WaitEnds` says only that a launch ends once its processes are gone for good.

`Downloads!Spec` has weak fairness of the timer (`Timeout`), of the queued abort
(`DeferredAbort`), of the end of `pauseAll`'s wait, of the renaming of a partial file
(`MoveMeta`) and of the publication, which run on one thread that nothing blocks, and strong fairness of `StartContinue`:
it cannot go on within a `pauseAll`, and the user may call that again and again. The latter is written
with its guard, `MayContinue`, in place of `ENABLED`: the guard is all that enables it, and TLC evaluates it
a hundred times faster.
Servers, Nexus and the user may do nothing for ever.

The other modules have no liveness property: a FUSE request ends after finitely many steps of its handler, and what may
block one (a lock, the kernel) is not modelled there.

## 4. Proofs

Each component has a module of theorems, which hold for any values of
the constants that satisfy the named assumptions of the component's module:
sentinels differ from the values they stand beside, bounds are natural numbers, the
files a run starts with are files of the instance, and where something is counted
(descriptors, handles, workers) it is a finite set. TLC evaluates these assumptions in every
run. What a theorem assumes beyond them is in its statement and in the tables below.

Every proof is an induction. The property a run checks is hardly ever
inductive, for it says nothing of what the steps rely on in between: the values a
request has copied, the record a crash will leave, how far a loop has come. The
invariant that is, is a conjunction of named parts; each action has a step or
a lemma, and each part it can disturb a step below. These invariants have no run of
their own (`IndInv`, which `promo_profiles` checks, excepted): TLC has checked
them on the instances named below.

### 4.1 StagingPromotion

| Theorem | Statement |
|---|---|
| `TypeCorrect` | `Spec => []TypeOK` |
| `InvariantHolds` | `Spec => []IndInv` |
| `WritesSurvive` | `Spec => []NoAcceptedWriteLost`: the last content accepted for a path is at a destination, staged, or in an archive whose marker tells the user (unless another program or the user has since replaced it, or a truncated copy of that path was promoted over it: 5.5) |
| `ExposureIsComplete` | `Spec => []ExposedComplete`: nothing is mounted while data of an earlier session is unresolved, and what is shown is what was accepted, but for `torn` (5, *Promotion*) |
| `TouchesAreJournaled` | destinations change only while the journal that says so is on disk |
| `JournalsAreRetained` | a journal disappears only when all its entries are in place or moved to an archive |
| `PromotionIsStore` | `Spec => ImplementsStore`: the journal protocol implements `WriteBackStore` |
| `CrashesAreReplayed` | `Spec => []CrashAloneNeverBlocks`: without interventions no journaled promotion becomes a conflict, and no temporary copy stays |

`NoAcceptedWriteLost` is not inductive: whether deleting a staged file is safe
depends on what the journal says about it, and whether the journal can be
believed depends on how far replay has come. `IndInv` therefore adds, each as a
named conjunct: what the journal in memory says of the tree (`JournalsDescribe`),
that the entries replay has passed are installed (`InstalledSoFar`), that the
journal replayed is the one on disk (`JournalOnDisk`), in which steps a marker
can be present (`MarkerPhases`), that the live and the archived tree are not
both in the role of pending data (`TreesApart`), that a staged file is the
content owed (`StagedIsOwed`), and that the previous contents a journal records
are those the mounted session saw (`PreviousSeen`); a truncated copy is journaled over
a complete file only by an unmount, which `torn` has recorded, because `recover`
archives what differs and has no journal. `IndInvStep` has a lemma per conjunct and each lemma
a step per action that can disturb it; actions where nothing obvious happens
have lemmas of their own (`ClearMarkerApart`, `ResumeArchiveApart`, …).

The refinement needs no more than `IndInv`: the installation of an entry is an `Install` of what is
held because the staged file has the journal's digest, the removal of a staged file
is a `Release` and the clearing of the marker a `ReleaseAside` because all entries are installed by then,
and everything about journals and temporary files is invisible. `CrashesAreReplayed`
has an invariant of its own (`Undisturbed`): all journals that count are for the configured
destination, each entry is installed or can be, and a temporary copy is of an
entry that is not installed yet; hence replay never takes its blocking branch. TLC: 199 000 states
with three failures.

### 4.2 RootBuilder

| Theorem | Statement |
|---|---|
| `TypeCorrect` | `Spec => []TypeOK` |
| `OriginalAlwaysKept` | `Spec => []OriginalKept`: in every step of deploying and clearing each file of the game is in its place or in its backup, unless a fault has harmed |
| `GameRestored` | `Spec => []RestoredWhenOff`: after a session the game directory is what it was, likewise |
| `WinnerIsDeployed` | `Spec => []WinnerDeployed` |
| `OwnSpared` | `Spec => ClearSparesOwn`, if `"crash in clear" \notin Faults` (5, *Root builder*) |

What makes a deployment undoable is that a record says how: every path it lists has
the file of a mod, and the original, if there was one, in the backup directory; every
other path is untouched; the directories beside the game's are the listed ones
(`Undoable`). The invariant says where such a record is: at rest the manifest or the
process's memory (`UndoAtRest`), within `clearRootFiles` the memory less what the
loop has restored (`UndoInClear`), within `deployRootFiles` the memory with the one
path that is between its backup and its record (`UndoInDeploy`). That holds as long as no
fault harms (`Undo`); `Harms` shows which do, and that backups which fail are not among
them. That no manifest is on disk while files are being deployed
(`Records`) is what makes a crash there harmful. `Winners` is about sessions without faults.
TLC: 2.5 million states with all faults.

### 4.3 OpenFiles

| Theorem | Statement |
|---|---|
| `TypeCorrect` | `Spec => []TypeOK`, in which the number of retained descriptors is bounded |
| `DescriptorsOwnedOnce` | `Spec => []OneHolder`: each open descriptor belongs to one entry or one request, and none is leaked |
| `GameInstallSpared` | `Spec => []GameFilesSpared`: what a write or resize uses is open on the staged copy of the file its handle is for |
| `EntriesNameTheirFiles` | `Spec => []EntriesMatch` |

Numbers are used again, so it does not suffice that a descriptor is open: `FdsSound`
has the parties (entries and requests) that have one, says that it is open on the object
the party means, that no two have the same, and that every open one has a party. `RequestSound`
says for each step of a request what its copied entry still tells of the table:
a step that only reads relies on little, a write that has chosen its descriptor
relies on the entry being writable with that number, which holds because the kernel's inode
lock keeps other changes of the file away (`LocksSound`, `RegistersSound`). The bound
of `TypeOK` counts the requests about to prune (`RetainedBounded`): each retains one
descriptor before it drops others. Lemmas say what becomes of all the descriptors when one
is closed, opened, kept or handed over (`FdsClosing` and those after it) and of all other requests when
one moves on (`OtherRequests`, `QuietRequests`); the steps cite them. TLC: 1.0 million states.

### 4.4 VirtualFiles

| Theorem | Statement |
|---|---|
| `TypeCorrect` | `Spec => []TypeOK` |
| `GameStaysUnmodified` | `Spec => GameNeverModified`: no step changes one of the game's own files (files of mods that may be written are written in place) |
| `WritersAgree` | `Spec => []WritersShareFile`, if `Sharing = {}` |
| `FilesAreDirectory` | `Spec => ImplementsDirectory`, if `Sharing = {}`: the handlers implement `SessionDirectory` |
| `RenamedFileMoves` | `Spec => RenameMovesFile`, if `Sharing = {}` |
| `SizesAgreeAtRest` | `Spec => []SizesAtRest`, if `Sharing = {}` |

`Sharing` lists what programs do to files that others have open; each member breaks what is
assumed away here (section 5: `files_rename_over`, *Files*). Two or more handles and
writers of one path are not among them and are covered. For `GameNeverModified`, which
needs no such premise, it is enough that a handle whose copy is not due has no
descriptor of the game's file (`DescriptorsSpareGame`). For the rest, `Sound` says that the index
names the topmost of the layers and that a handle is open on the file the index
names, or on the game's file until its copy is made, which somebody else may have
made already; a flush in between publishes what is there already. The refinement has one step
per action: a request is a step of the directory, whose programs see one file per path, or
leaves their view alone, and `Publishes` is always a stutter. `SizesSound` adds what the
one handle, the flushes and the index of a path know of its size. TLC: 276 000 states.

### 4.5 Launch

| Theorem | Statement |
|---|---|
| `TypeCorrect` | `Spec => []TypeOK` |
| `CompletedLaunchIsGone` | `Spec => []CompletedMeansGone`: a launch reported completed has no process left but the wineserver, and none is about to come, unless since the waiter last saw one a query of its overlooked one or a daemon was late |
| `UnlockedIsKilled` | `Spec => UnlockedMeansKilled`: a forced unlock without an error leaves no root of a tree, but one whose status could not be read after the SIGTERM |
| `LaunchKeepsItsMount` | `Spec => OwnGameServed`: a launch takes the mount from under its own processes only after a forced unlock, or when something hid from its waiter |
| `UnlockIsSelective` | `Spec => UnlockSparesOthers`: an unlock kills nothing of another launch |

These hold for any number of launches at once; what two launches do to each other's mount
is `launch_shared` (5.4). Completion is a verdict about the past: the looks at `/proc`
are steps apart, and processes fork, are reparented and exit in between. The invariant
(`WaiterSound`) carries what each look has established to the verdict: the root has exited,
nobody who could start or ask for a process is left since the timer was started
(`Starters`), and a daemon that was asked has answered before it elapsed; or else
something is in `unseen`, which is emptied only when the timer is off or the waiter sees a
process of the launch. A launch that is cut short by failing queries thus completes with `unseen` not empty, and all others
as they should. `Lasting`
shows once, for every step of the environment, that what is known of processes that are
gone stays true. `KillSound` is the same for the trees of an unlock; that a
tree never leaves a launch is an induction on descendants, and comes from their being the least
closed set. TLC has checked the invariant on
the instance of `launch` (922 525 states) and the three of section 3.

### 4.6 Downloads

| Theorem | Statement |
|---|---|
| `TypeCorrect` | `Spec => []TypeOK` |
| `FilesAreSound` | `Spec => []FilesSound`: partial files are prefixes, published ones whole; those of unknown length, and partial files under a final name, prefixes |
| `ResumableAlways` | `Spec => []RecoveryKept`: a partial file has its metadata, but for a crash between its own renaming and that of its metadata |
| `UrlsAreRetired` | `Spec => []CapabilitiesRetired`: private URLs are beside their partial file or were reported, to the user or to the log |
| `ActiveAlwaysServed` | `Spec => []ActiveIsServed` |
| `PausedIsKept` | `Spec => PausedKept`, if `Habits = {}` (5, *Downloads*) |

A file may have any size. `BodySound` relates the five numbers a reply goes by: the
partial file is the piece up to where the reply began and what it has received, the
buffer the piece that follows, up to what has arrived; of a reply that was rejected
(`bad`) or whose output is lost nothing is claimed, because nothing of it will be written. `RowSound`
has, for each state of a row, which files and which reply it may have: a partial file and no archive
(`Resumable`, `Partial`), files without a reply as a restart finds them (`Still`), an
archive whose publication is under way (`Published`). While a partial file is renamed its row is not yet what it
will be; `Good` says then that it is sound but for that (`Settled`). Handlers
re-enter each other, so each has a lemma that takes it from what it may be called with to
what it leaves (`Partial`, `Gone`, `Outcome`, `Served`), and an action is
proved from the lemmas of the handlers it composes. Most leave alone what may have gone wrong with
the files (`Alike`). Pieces are joined by the library's lemmas on `SubSeq`. TLC has checked
`Good` on the instance of `downloads` (300 308 states).

### 4.7 Names and the runtime index

| Theorem | Statement |
|---|---|
| `TypeInvariant` | `Spec => []TypeOK`, in which the two maps of the inode table are each other's inverse and the two containers of the negative cache agree |
| `NoNodeDangles` | `Spec => []NoDanglingNode`, if `OneSpelling` |
| `IndexFollowsTree` | `Spec => []LeavesSound`, if `NoFullRename`: the inductive invariant of the index |
| `LookupsAnswerTruly` | `Spec => []LookupIsOfOneMoment`, if `NoFullRename` |
| `NamesAgreeAtRest` | `Spec => []LookupsMatchTree`, if `NoFullRename` |
| `ListingsAgreeAtRest` | `Spec => []ListedFilesCurrent`, if `NoFullRename` and `OneSpelling` |

They hold for any directories and names, any number of inodes and changes and any size of the
negative cache (from which nothing is evicted in the run). `NoFullRename` says that
no program renames a directory that has files, for that leaves the files behind in the index
(`namespace_rename_dir`); `OneSpelling`, that a name is spelled in one way, since another
spelling makes pointers dangle (5, *Names*) and has its listings cached under keys of its own. Renames and
removals of open files are covered.

`RuntimeIndex_proofs` has what the operators do: `GetOrCreate`, `RenameInode` and the
numbering of a listing keep the maps of the table inverse of each other, and each
operator of the index keeps its types and the agreement of the two containers
of the negative cache. `Namespace_proofs` has four invariants, each resting on the one before.

* `Sound` types the table, the caches, the change under way (`MutSound`) and the request beside it
  (`ReqSound`) step by step: which inodes are there by then, that the table only grows but for a
  rename. `TypeInvariant` and `NoNodeDangles` need no more: what a change frees is at, below
  or above a path that it invalidates.
* `LeavesSound` says that the index has for a leaf what the tree has (`LeavesTold`). In the middle of a change
  that is false, for tree and index are updated one after the other; the leaf is then
  *in flight* (`Arrives`, `Departs`), and `MutGoes` and `LeavesNumbered` have what the remaining steps of the change rely on,
  from the guards of the handler that began it. A lookup may publish what
  it has read before (`Heal`); `ReadSound` says that what it read is
  still so unless a change has got further since (`StepsDone`), in which case the path is in `late`.
  On this, `LookupSound` follows a lookup through its three locked sections: at each step it knows
  which answers were true since it began.
* `DirsSound` has the same for directories, where it is weaker: a directory that was pruned
  with its last file is found by lookups still, so its name leads to its inode or nowhere
  (`DirTold`), and it must lead there while the directory is in the tree, unless a flush has brought
  it back. Since a path is found only by way of its directory, `NamesAgreeAtRest` needs both.
* `ListingsSound` says that each listing, cached or about to be (`ReqTold`), has the files of its directory
  (`CachesTold`), except for those that a change has moved and not invalidated yet. That a listing under way is not
  overtaken rests on the kernel's directory lock (`Excludes`), not on the caches' mutexes.

TLC has checked these invariants on the instance of `namespace` (696 678 states) and, by
simulation, on the larger one of section 3.

### 4.8 What is only model-checked

* Liveness, which the prover does not support: `NextMountResolvesOrRefuses`,
  `WaitEnds`, `DownloadsSettle`; nothing is said of ENABLED either.
* What holds of `Namespace` at rest with programs that rename directories that have files: that is
  `namespace_rename_dir`, and false.

Every other property of a passing run is a theorem.

## 5. Where the code differs from what it says

Each of these has a run that TLC must find violated, and a finding in
`PROJECT.json` with the line that says otherwise.

1. **A crash while root files are deployed** (`root_crash_deploy`). The manifest
   is written last. After a crash the next launch takes the mod's file for the
   original, over the real backup.
2. **Renaming over a staged file** (`files_rename_over`). `copyOnWrite` keeps the
   staged file of the new name, so the renamed file's contents are dropped.
3. **Renaming a directory that has files** (`namespace_rename_dir`). The tree
   gets an empty directory under the new name, the inode table and the index
   keep the files: lookups and listings disagree.
4. **Two launches share one mount** (`launch_shared`). The first that ends, or that
   fails before it started, unmounts what the other one runs on.

Seen with other constants or properties, without a run of their own (a property that
is named here as failing is in its module, and TLC finds a counterexample):

* *Promotion.* A copy-on-write copy is written straight into `VFS_staging`
  (`vfs/overwritemanager.cpp:179`), so what a crash or an error truncates is promoted
  like a complete file (`NoPartialFileInstalled`). If overwrite has a file of that name
  (renaming over it, writing to a read-only file of a mod that hides it) and the copy *fails*,
  the unmount of that session installs the truncated file over content that had been
  accepted: those are the names of `torn`, which `NoAcceptedWriteLost` and `ExposedComplete`
  except. After a *crash* the file overwrite has is kept and the truncated one archived.
  `NextMountResolves` fails: the temporary journal is created with
  `O_EXCL` (`vfs/stagingpromotion.cpp:200`), a crash before its rename leaves it,
  and each later recovery fails on it. Data is safe, the mount is refused
  (`NextMountResolvesOrRefuses` holds).
* *Root builder.* With the game on another file system than the instance every
  rename of a backup fails with `EXDEV` unnoticed, then the backups are removed
  (`fuseconnector.cpp:2266`). A crash after the originals were restored and
  before the manifest is deleted makes the next clearing delete them. A copy that
  fails halfway is backed up over the original by the next mod. The original
  of a path whose copy failed comes back only with a later clearing. A session
  deployed with the setting on and ended with it off is not cleared. The
  properties name these cases in what they exclude.
* *Descriptors.* `FirstReadsAnswered` fails: of two first reads of a handle, one
  gets `EBADF` (`vfs/mo2filesystem.cpp:2652`). An eviction, a copy-on-write or a
  resize closes a descriptor that another read has copied from the table (1321):
  the read fails or reads the file that got the number.
* *Files.* With `Sharing` containing "rename while open" or "unlink while open", a
  dirty handle flushed afterwards puts the old name back into the index. The
  size of a handle is its own: of two writers, or two flushes that overlap, the
  last to publish wins (`SizesAtRest` excludes paths where this happened).
* *Names.* A lookup that heals the index publishes what it read before a change
  (`late` has the paths of the inodes for which this is excused). A flush that ends after its
  directory was removed brings back the directory with the file, in the tree and not in the index: the file is there
  and lookups do not reach it (`revived`; 1420-1441). A listing that is going on while its directory is
  renamed is cached under the old name, and is what a new directory of that name gets (`misfiled`; 1147-1176). A flush drops no
  listing: a name it puts back after its removal is missing in the cached listing of
  its directory (`revived` again). `FoundDirectoriesExist` and
  `ListedDirectoriesCurrent` fail: a directory is pruned from the tree with its last
  file (696-698) while lookups still find it, and comes back with the next
  file unseen by its parent's cached listing (484). `NoDanglingNode` fails when a
  name is created again in another letter case (`Habits = {"respell"}`, two
  spellings, four changes). Renaming over a virtual directory that is not
  empty is accepted.
* *Launches.* A scan that cannot read its candidate (291-294, 319-326, 348-349, 373) takes it for absent;
  after 250 ms without one the launch has completed, and the mount is taken from a running game
  (`ErrorsKeepMount`), against the comment at `processrunner.cpp:729`. A status that cannot be read
  after SIGTERM (449-456) counts as an exit: no SIGKILL is sent, the verdict is `Unlocked`, and the mount
  goes (`UnlockedMeansExited`), against the comment at `processlifetime.cpp:422`. The browse dialog and quitting take the mount from whoever has it.
  Processes forked while a captured tree is being killed survive, against
  `processrunner.cpp:651-653`; `UnlockedMeansKilled` is about the roots of the trees.
  The wineserver is shared by launches and killed with one of them. Detached
  launches leave the mount for the user to take away. A daemon that takes longer than 250 ms to start the
  game it was asked for has the launch completed under it (`processlifetime.cpp:497-498`, 565):
  `CompletedMeansGone` and `OwnGameServed` except launches where that happened.
* *Downloads.* The response to a download that is `PAUSING` renames its partial file without
  `.unfinished` (300, 3330-3352; `PartialsReserved`), which `downloadmetadatapolicy.h:43` reserves for
  partial files: it can never be published, and if the program crashes while it is resumed it is
  listed as an archive and its URLs are retired. `PausedKept` fails with `Habits = {"pause before connected"}`: a
  resumed download that arrives while `startDownload` is at it and is paused then
  has a closed output, and its file is truncated. A start that was asked for
  within `pauseAll` is not paused if it is private. A download that is pausing
  when its server stalls stays so. There is no `If-Range`: two versions of a file
  may be joined. A file that cannot be removed loses its row all the same. A body that
  comes without a length, or encoded, is published wherever it ends (3012-3014). A crash between the renaming of a
  partial file and that of its metadata (305, 319) leaves a partial file without URLs;
  the metadata under the old name is removed as an orphan. URLs of a discarded
  download (3097-3101), or of an archive found at start (202-209), that cannot be retired stay with a
  line in the log. No document or comment promises otherwise of the last three: the
  properties name each of them as an exception.

## 6. Plan

Done: promotion, root builder, descriptors, files, names and the runtime index,
launches, downloads; proofs of all of these. Left, in order:

1. `PageCache`: the invalidation queue, its thread and its stop, what the kernel
   keeps and which descriptor refilled it; liveness: a queued invalidation is
   carried out unless the session ends; no wait in a circle.
2. `CatalogRefresh`: dirty paths, in-place writes, crash, and the next mount's
   verification.
3. External mappings as a variant of `RootBuilder`; the broker of `nxm` links.

Runs are chosen so that each asks a question of its own; properties that say
parts of one thing are conjuncts of one definition (`TypeOK` of `Namespace` has the
agreement of the maps, `LookupsMatchTree` both directions), and the remaining modules
replace a run of section 5 when they come.

## 7. Not modelled, and why

Contents are values, not bytes, except in `Downloads`; times, permissions and letter case are left out,
apart from where the properties compare them. Promotion syncs
journal, destination, marker and their directories, so a power loss is like a
crash for them; the session's own writes and the root builder's files are never synced,
and what a power loss does to those is out. The kernel is modelled by what the handlers rely on
(inode lock, directory lock, lowest descriptor first, release last).

*Of the modelled parts.* `Namespace`: one reading request at a time, one handle;
staging and overwrite are one store; `readdirplus` as far as it fills the same blobs as `readdir`
(the sizes in them after a flush, 1424, are not compared); `chmod`,
`utimensat`, `fallocate`, `copy_file_range`. `Launch`: one Wine prefix; a scan
of `/proc` is one step; a list of expected executables is never empty; `shouldRefresh` without
`TriggerRefresh` is a mode of its own, in which nobody unmounts; `WINE` set-up before a launch. `Downloads`: one
download at a time, hence no index into the list that becomes stale during a
dialog (1379); names of `Content-Disposition` that look like object keys again; an output that
cannot be opened at the start; retries of a partial file found at start count from zero, as in
the code; hashing and queries to Nexus are choices.

*Parts that are out.* The kernel's page cache and the invalidation queue, the
catalog and external mappings are planned (section 6). The root locator,
permission repair and save migration are single passes without a second
actor. The conflict index, mods, profiles, plugins and instances are sequential data
structures of the user interface's thread: a model of them would restate them.
Nexus, curated guides, the updater, prefix setup and Steam cloud are sequences of
external programs and requests. The SQLite database, the network, Wine, Qt and the user
interface are outside.
