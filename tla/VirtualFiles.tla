---------------------------- MODULE VirtualFiles ----------------------------
(***************************************************************************)
(* One session of the mounted file system (mo2filesystem.cpp) and the      *)
(* directories behind it (overwritemanager.cpp): which file on disk the    *)
(* index names for each path, what creating, writing, truncating, renaming *)
(* and unlinking do to both, and the sizes that open handles publish to    *)
(* the index when they are flushed.                                        *)
(*                                                                         *)
(* A path may have a file of the base game or a mod ("own"), one in the    *)
(* overwrite directory and one in the staging directory.  Files of the     *)
(* base game are copied to staging before the first write, all others are  *)
(* written in place.                                                       *)
(*                                                                         *)
(* Writes, resizes, renames and unlinks of a file are single steps: the    *)
(* kernel holds its inode lock and the handlers that change the index hold *)
(* namespace_mutation_mutex.  A flush holds neither: it copies what it     *)
(* publishes under one lock and publishes it under another.                *)
(*                                                                         *)
(* Not modelled: directories, the letter case of names, mtimes, reading,   *)
(* failing system calls, caches.  A staged file that was created by another*)
(* name is a file of its own; all names are in one directory.              *)
(***************************************************************************)
EXTENDS Naturals, FiniteSets

CONSTANTS
    Paths,     \* names of files
    Backing,   \* those the base game provides, if the path has an own file
    Installed, \* the files on disk when the session starts
    Handles,   \* values of fh of handles opened for writing
    Workers,   \* FUSE worker threads that may be flushing
    MaxSize,   \* bound: size of a file
    Sharing,   \* what programs do with files others have open, of AllSharing
    Absent,    \* no file, no entry
    None       \* no handle, no path, no flush

AllSharing == {"rename while open", "unlink while open", "replace a staged file"}

ASSUME VirtualFilesAssumption ==
    /\ Backing \subseteq Paths /\ MaxSize \in Nat
    /\ Installed \subseteq Paths \X {"own", "overwrite"}
    /\ Sharing \subseteq AllSharing
    /\ None \notin Paths /\ Absent \notin Paths

Layers    == {"own", "overwrite", "staged"}
Locations == Paths \X Layers
Content   == [by : Paths, size : 0..MaxSize]
Entry     == [real : Locations, size : 0..MaxSize]

\* real: real_path; fd: the file the descriptor is open on, which follows renames
\* on disk and is None once that file is removed; path: relative_path; ino: the
\* path InodeTable has for the inode of the handle.
OpenFile == [path : Paths, real : Locations, fd : Locations \cup {None},
             ino : Paths \cup {None}, cow_pending : BOOLEAN,
             metadata_dirty : BOOLEAN, virtual_size : 0..MaxSize]

Flush == [h : Handles, path : Paths, real : Locations, size : 0..MaxSize,
          closing : BOOLEAN]

ASSUME AbsentAssumption ==
    /\ Absent \notin Content \cup Entry
    /\ None \notin OpenFile \cup Flush \cup Locations

VARIABLES
    disk,       \* the files on disk
    index,      \* the tree and the runtime index
    open_files, \* the table of handles
    flushing,   \* what each worker is about to publish
    overlapped  \* history: paths with two writers or two flushes at a time

vars == <<disk, index, open_files, flushing, overlapped>>

Live == {h \in Handles : open_files[h] # None}

Size(c) == IF c = Absent THEN 0 ELSE c.size

Larger(m, n) == IF m < n THEN n ELSE m

\* Open handles that a change of the path's name or size concerns.
Writers(p) == {h \in Live : p \in {open_files[h].path, open_files[h].ino}}

\* Mutant: only the layer is looked at, not who provides the file.
BaseOfNobody(loc) == FALSE

\* is_backing: a file of the base game.
Base(loc) == loc[2] = "own" /\ loc[1] \in Backing

\* A file in staging or overwrite, or another one that exists and is not the
\* game's, is written where it is.
AlreadyWritable(p, loc) == loc \in {<<p, "staged">>, <<p, "overwrite">>}
InPlace(p, loc) == AlreadyWritable(p, loc) \/ (~Base(loc) /\ disk[loc] # Absent)

-----------------------------------------------------------------------------
(* OverwriteManager                                                         *)

\* copyOnWrite: a staged file of that name is kept, a source that has gone gives
\* an empty file.
CopyOnWrite(table, source, p) ==
    IF table[<<p, "staged">>] # Absent THEN table
    ELSE [table EXCEPT ![<<p, "staged">>] =
             IF table[source] # Absent THEN table[source] ELSE [by |-> p, size |-> 0]]

\* Where rename and removeFile look for a path.
WrittenLayers(p) == {l \in {"staged", "overwrite"} : disk[<<p, l>>] # Absent}

-----------------------------------------------------------------------------
(* mo2_open for writing and mo2_create                                      *)

OpenHandle(h, p, real, cow, size) ==
    open_files' = [open_files EXCEPT ![h] =
        [path |-> p, real |-> real, fd |-> real, ino |-> p, cow_pending |-> cow,
         metadata_dirty |-> FALSE, virtual_size |-> size]]

NoteWriter(p) ==
    overlapped' = IF Writers(p) # {} THEN overlapped \cup {p} ELSE overlapped

\* A file that can be written in place, or that is truncated, is opened there or
\* on its copy; the open of a game file waits for the first write to be copied.
Open(p, h, truncate) ==
    /\ open_files[h] = None /\ index[p] # Absent
    /\ LET real   == index[p].real
           copy   == truncate /\ ~InPlace(p, real)
           target == IF copy THEN <<p, "staged">> ELSE real
           table  == IF copy THEN CopyOnWrite(disk, real, p) ELSE disk
       IN  /\ table[target] # Absent
           /\ IF truncate
                THEN /\ disk' = [table EXCEPT ![target].size = 0]
                     /\ index' = [index EXCEPT ![p] = [real |-> target, size |-> 0]]
                     /\ OpenHandle(h, p, target, FALSE, 0)
                ELSE /\ UNCHANGED <<disk, index>>
                     /\ OpenHandle(h, p, real, ~InPlace(p, real), index[p].size)
    /\ NoteWriter(p)
    /\ UNCHANGED flushing

\* createFile makes, or truncates, the staged file.
Create(p, h) ==
    /\ open_files[h] = None /\ index[p] = Absent
    /\ disk' = [disk EXCEPT ![<<p, "staged">>] = [by |-> p, size |-> 0]]
    /\ index' = [index EXCEPT ![p] = [real |-> <<p, "staged">>, size |-> 0]]
    /\ OpenHandle(h, p, <<p, "staged">>, FALSE, 0)
    /\ NoteWriter(p)
    /\ UNCHANGED flushing

-----------------------------------------------------------------------------
(* mo2_write and mo2_setattr with a size                                    *)

Closing(h) == \E w \in Workers : flushing[w] # None /\ flushing[w].h = h /\ flushing[w].closing

Usable(h) == h \in Live /\ ~Closing(h)

\* The files after a descriptor's file got a size.
Sized(table, fd, n) == IF fd = None THEN table ELSE [table EXCEPT ![fd].size = n]

\* Mutant: the copy is not made known to the index.
IndexedLater(p, loc, table) == index

\* updateFileNode: the index takes the file and its size from the disk.
Indexed(p, loc, table) == [index EXCEPT ![p] = [real |-> loc, size |-> Size(table[loc])]]

\* Mutant: the copy stays pending.
WrittenKeepsPending(of, target, fd, n) ==
    [of EXCEPT !.real = target, !.fd = fd, !.metadata_dirty = TRUE,
               !.virtual_size = Larger(@, n)]

\* Mutant: the size is not extended.
WrittenWithin(of, target, fd, n) ==
    [of EXCEPT !.real = target, !.fd = fd, !.cow_pending = FALSE, !.metadata_dirty = TRUE]

\* markOpenFileDirty, after a copy-on-write if there was one.
Written(of, target, fd, n) ==
    [of EXCEPT !.real = target, !.fd = fd, !.cow_pending = FALSE,
               !.metadata_dirty = TRUE, !.virtual_size = Larger(@, n)]

\* A write that ends at n.  The first one to a game file copies it.
Write(h, n) ==
    /\ Usable(h)
    /\ LET of     == open_files[h]
           target == IF of.cow_pending THEN <<of.path, "staged">> ELSE of.real
           fd     == IF of.cow_pending THEN target ELSE of.fd
           table  == IF of.cow_pending THEN CopyOnWrite(disk, of.real, of.path) ELSE disk
       IN  /\ disk' = IF fd = None THEN table ELSE Sized(table, fd, Larger(table[fd].size, n))
           /\ index' = IF of.cow_pending THEN Indexed(of.path, target, table) ELSE index
           /\ open_files' = [open_files EXCEPT ![h] = Written(of, target, fd, n)]
    /\ UNCHANGED <<flushing, overlapped>>

\* ftruncate: the inode's path of the moment says where a copy goes.
Resize(h, n) ==
    /\ Usable(h) /\ open_files[h].ino # None
    /\ LET of     == open_files[h]
           p      == of.ino
           copy   == ~InPlace(p, of.real)
           source == IF Base(of.real) THEN <<p, "own">> ELSE of.real
           target == IF copy THEN <<p, "staged">> ELSE of.real
           fd     == IF copy THEN target ELSE of.fd
           table  == Sized(IF copy THEN CopyOnWrite(disk, source, p) ELSE disk, fd, n)
       IN  /\ disk' = table
           /\ index' = Indexed(p, target, table)
           /\ open_files' = [open_files EXCEPT ![h] =
                 [of EXCEPT !.real = target, !.fd = fd, !.cow_pending = @ /\ ~copy,
                            !.metadata_dirty = TRUE, !.virtual_size = n]]
    /\ UNCHANGED <<flushing, overlapped>>

\* truncate(2), without a handle.
ResizePath(p, n) ==
    /\ index[p] # Absent
    /\ LET real   == index[p].real
           copy   == ~InPlace(p, real)
           target == IF copy THEN <<p, "staged">> ELSE real
           table  == IF copy THEN CopyOnWrite(disk, real, p) ELSE disk
       IN  /\ table[target] # Absent
           /\ disk' = Sized(table, target, n)
           /\ index' = Indexed(p, target, disk')
    /\ NoteWriter(p)
    /\ UNCHANGED <<open_files, flushing>>

-----------------------------------------------------------------------------
(* mo2_flush, mo2_fsync and mo2_release                                     *)

\* What is dirty is copied, and clean from then on.  A release comes after every
\* other request of the handle.
FlushBegins(w, h, closing) ==
    /\ flushing[w] = None /\ Usable(h) /\ open_files[h].metadata_dirty
    /\ LET of     == open_files[h]
           others == {v \in Workers : flushing[v] # None /\ flushing[v].path = of.path}
       IN  /\ closing => \A v \in others : flushing[v].h # h
           /\ flushing' = [flushing EXCEPT ![w] =
                 [h |-> h, path |-> of.path, real |-> of.real, size |-> of.virtual_size,
                  closing |-> closing]]
           /\ overlapped' = IF others = {} THEN overlapped ELSE overlapped \cup {of.path}
    /\ open_files' = [open_files EXCEPT ![h].metadata_dirty = FALSE]
    /\ UNCHANGED <<disk, index>>

\* updateFileNodeKnown, whatever has become of the path since.
Publishes(w) ==
    /\ flushing[w] # None
    /\ LET f == flushing[w]
       IN  /\ index' = [index EXCEPT ![f.path] = [real |-> f.real, size |-> f.size]]
           /\ open_files' = IF f.closing THEN [open_files EXCEPT ![f.h] = None] ELSE open_files
    /\ flushing' = [flushing EXCEPT ![w] = None]
    /\ UNCHANGED <<disk, overlapped>>

\* A clean handle is only erased.
Release(h) ==
    /\ Usable(h) /\ ~open_files[h].metadata_dirty
    /\ \A w \in Workers : flushing[w] # None => flushing[w].h # h
    /\ open_files' = [open_files EXCEPT ![h] = None]
    /\ UNCHANGED <<disk, index, flushing, overlapped>>

-----------------------------------------------------------------------------
(* mo2_unlink and mo2_rename                                                *)

\* Descriptors follow a file that is moved and lose one that is removed.
Moved(fd, from, to) == IF fd = from THEN to ELSE IF fd = to THEN None ELSE fd

\* The layer in which rename and removeFile find a path.
FoundIn(p) == IF "staged" \in WrittenLayers(p) THEN "staged" ELSE "overwrite"

\* A file of a mod or the game stays on disk, and the path leaves the index.
Unlink(p) ==
    /\ index[p] # Absent
    /\ Writers(p) # {} => "unlink while open" \in Sharing
    /\ IF WrittenLayers(p) = {} THEN UNCHANGED <<disk, open_files>>
       ELSE LET loc == <<p, FoundIn(p)>>
            IN  /\ disk' = [disk EXCEPT ![loc] = Absent]
                /\ open_files' = [h \in Handles |->
                      IF h \in Live /\ open_files[h].fd = loc
                      THEN [open_files[h] EXCEPT !.fd = None] ELSE open_files[h]]
    /\ index' = [index EXCEPT ![p] = Absent]
    /\ overlapped' = IF Writers(p) = {} THEN overlapped \ {p} ELSE overlapped
    /\ UNCHANGED flushing

\* Mutant: the old name stays.
RenamedKeepsOld(p, q, real) ==
    [index EXCEPT ![q] = [real |-> real, size |-> index[p].size]]

\* The index after a rename: the new name has the entry's old size.
Renamed(p, q, real) ==
    [index EXCEPT ![p] = Absent, ![q] = [real |-> real, size |-> index[p].size]]

\* A file in staging or overwrite is moved within its directory, any other is
\* copied to staging under the new name.
Rename(p, q) ==
    /\ p # q /\ index[p] # Absent
    /\ Writers(p) \cup Writers(q) # {} => "rename while open" \in Sharing
    /\ disk[<<q, "staged">>] # Absent /\ "staged" \notin WrittenLayers(p) =>
          "replace a staged file" \in Sharing
    /\ LET moves == WrittenLayers(p) # {}
           from  == <<p, FoundIn(p)>>
           to    == <<q, FoundIn(p)>>
       IN  /\ disk' = IF moves THEN [disk EXCEPT ![to] = disk[from], ![from] = Absent]
                               ELSE CopyOnWrite(disk, index[p].real, q)
           /\ index' = Renamed(p, q, IF disk'[<<q, "staged">>] # Absent
                                     THEN <<q, "staged">> ELSE <<q, "overwrite">>)
           /\ open_files' = [h \in Handles |-> IF h \notin Live THEN None
                 ELSE [open_files[h] EXCEPT
                         !.fd  = IF moves THEN Moved(@, from, to) ELSE @,
                         !.ino = IF @ = p THEN q ELSE IF @ = q THEN None ELSE @]]
    /\ overlapped' = IF p \in overlapped THEN overlapped \cup {q} ELSE overlapped
    /\ UNCHANGED flushing

-----------------------------------------------------------------------------

\* A session starts with nothing staged; files of the overwrite directory come
\* before those of the mods and the game.
Init ==
    /\ disk = [loc \in Locations |->
          IF loc \in Installed THEN [by |-> loc[1], size |-> MaxSize] ELSE Absent]
    /\ index = [p \in Paths |->
          IF <<p, "overwrite">> \in Installed
            THEN [real |-> <<p, "overwrite">>, size |-> MaxSize]
          ELSE IF <<p, "own">> \in Installed THEN [real |-> <<p, "own">>, size |-> MaxSize]
          ELSE Absent]
    /\ open_files = [h \in Handles |-> None]
    /\ flushing = [w \in Workers |-> None]
    /\ overlapped = {}

Next ==
    \/ \E p \in Paths, h \in Handles : Create(p, h) \/ \E truncate \in BOOLEAN : Open(p, h, truncate)
    \/ \E h \in Handles, n \in 0..MaxSize : (n > 0 /\ Write(h, n)) \/ Resize(h, n)
    \/ \E p \in Paths, n \in 0..MaxSize : ResizePath(p, n)
    \/ \E w \in Workers : Publishes(w) \/ \E h \in Handles, c \in BOOLEAN : FlushBegins(w, h, c)
    \/ \E h \in Handles : Release(h)
    \/ \E p \in Paths : Unlink(p) \/ \E q \in Paths : Rename(p, q)

Spec == Init /\ [][Next]_vars

-----------------------------------------------------------------------------
(* Properties.                                                              *)

\* The type of every variable.  A descriptor's file exists, a pending copy is that
\* of a game file, and what is not yet published is known to be dirty or going.
TypeOK ==
    /\ disk \in [Locations -> Content \cup {Absent}]
    /\ index \in [Paths -> Entry \cup {Absent}]
    /\ open_files \in [Handles -> OpenFile \cup {None}]
    /\ flushing \in [Workers -> Flush \cup {None}]
    /\ overlapped \subseteq Paths
    /\ \A h \in Live :
          /\ open_files[h].fd # None => disk[open_files[h].fd] # Absent
          /\ open_files[h].cow_pending => Base(open_files[h].real)

\* What a program finds under each name.
View == [p \in Paths |-> IF index[p] = Absent THEN Absent ELSE disk[index[p].real]]

Directory == INSTANCE SessionDirectory WITH view <- View

\* The index and the three directories together are the directory of files that
\* the programs of the session rely on: nothing appears, vanishes or changes
\* places except by the operation that says so.
ImplementsDirectory == Directory!Spec

\* "So the game install is never modified."
GameNeverModified ==
    [][\A p \in Backing : disk'[<<p, "own">>] = disk[<<p, "own">>]]_vars

\* "Only the last write survives" must not happen: all handles that write a path
\* write one file, the one the index names for it and that later opens will read.  It
\* is the staged file if there is one, so that promoting it to the overwrite directory
\* when the session is over changes nothing for programs.
WritersShareFile ==
    /\ \A h \in Live : ~open_files[h].cow_pending =>
        /\ index[open_files[h].path] # Absent
        /\ open_files[h].fd = index[open_files[h].path].real
    /\ \A p \in Paths : disk[<<p, "staged">>] # Absent =>
        index[p] # Absent /\ index[p].real = <<p, "staged">>

\* The sizes that programs are told are those of the files once every handle has
\* been flushed, if writers or flushes of the path have never overlapped.
SizesAtRest ==
    \A p \in Paths \ overlapped :
        /\ index[p] # Absent
        /\ \A h \in Writers(p) : ~open_files[h].metadata_dirty
        /\ \A w \in Workers : flushing[w] # None => flushing[w].path # p
        => index[p].size = Size(disk[index[p].real])

\* "The file appears at the new path and disappears from the old path."
RenameMovesFile ==
    [][\A p, q \in Paths : Rename(p, q) => View'[q] = View[p] /\ View'[p] = Absent]_vars
=============================================================================
