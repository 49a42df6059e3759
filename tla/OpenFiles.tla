------------------------------ MODULE OpenFiles ------------------------------
(***************************************************************************)
(* The table of open files of the mounted file system (mo2filesystem.cpp)  *)
(* and the descriptors behind it.  Requests run on several FUSE workers; a *)
(* request copies what it needs from the table under a lock and works with *)
(* the copy after it has released the lock.                                *)
(*                                                                         *)
(* A handle opened for reading gets its descriptor from the first read,    *)
(* and at most MAX_RETAINED_RO_FDS such descriptors are retained.  A base  *)
(* game file is copied to the staging directory before the first write     *)
(* (copy on write); any other file is written in place.                    *)
(*                                                                         *)
(* Modelled of the kernel: a descriptor number is the lowest free one; the *)
(* inode lock keeps writes, resizes and truncating opens of one file apart *)
(* but not reads; a handle is released after its last request.  Handles    *)
(* are named again after their release, which next_fh never does, because  *)
(* nothing mentions a released one.  The contents, sizes and index entries *)
(* of the files are not modelled here.                                     *)
(***************************************************************************)
EXTENDS Integers, FiniteSets

CONSTANTS
    Workers,             \* FUSE worker threads
    Files,               \* files of the mounted directory
    Backing,             \* those not written in place: of the base game, or of a
                         \* mod whose directory is read-only
    Handles,             \* values of fh
    Fds,                 \* descriptor numbers of the process
    MAX_RETAINED_RO_FDS, \* limit of retained read-only descriptors
    MaxTicks,            \* bound: reads of read-only handles
    Closed,              \* a descriptor number that is free
    None                 \* no handle, no entry

NoFd == -1

ASSUME OpenFilesAssumption ==
    /\ Backing \subseteq Files
    /\ Fds \subseteq Nat /\ IsFiniteSet(Fds) /\ IsFiniteSet(Handles) /\ IsFiniteSet(Workers)
    /\ MAX_RETAINED_RO_FDS \in Nat /\ MaxTicks \in Nat
    /\ Closed \notin Files \X {"own", "staged"}

\* A file of the disk: that of the mod or game that provides it, or the copy in
\* the staging directory.
Objects == Files \X {"own", "staged"}

OpenFile == [file : Files, object : Objects, fd : Fds \cup {NoFd},
             writable : BOOLEAN, cow_pending : BOOLEAN, last_read_tick : Nat]

ASSUME NoneAssumption == None \notin OpenFile \cup Handles

VARIABLES
    provider,    \* what the index says provides each file
    fds,         \* the descriptors of the process
    open_files,  \* the table
    fd_lru_tick, \* counter of reads
    req          \* what each worker has copied and opened

vars == <<provider, fds, open_files, fd_lru_tick, req>>

\* at: the next step; of: the entry copied from the table; fd: a descriptor the
\* request has opened and not yet handed over; use: the one it reads or writes.
Steps == {"idle", "register", "open", "retain", "touch", "prune", "splice", "cow",
          "close", "table", "pwrite", "resize", "upgrade", "swap", "ftruncate"}

Request == [at : Steps, h : Handles \cup {None}, of : OpenFile \cup {None},
            fd : Fds \cup {NoFd}, use : Fds \cup {NoFd}, tick : Nat]

NoRequest == [at |-> "idle", h |-> None, of |-> None, fd |-> NoFd, use |-> NoFd,
              tick |-> 0]

Live == {h \in Handles : open_files[h] # None}

\* Where a write of a file may go.
Target(f) == IF f \in Backing THEN <<f, "staged">> ELSE <<f, "own">>

FreeFds == {d \in Fds : fds[d] = Closed}

\* open(2): the lowest free descriptor; without one it fails with EMFILE.
IsNextFd(d) == d \in FreeFds /\ \A e \in FreeFds : d <= e

Retained == {h \in Live : ~open_files[h].writable /\ open_files[h].fd # NoFd}

Idle(w)       == req[w].at = "idle"
At(w, step)   == req[w].at = step
Goto(w, step) == req' = [req EXCEPT ![w].at = step]
Reply(w)      == req' = [req EXCEPT ![w] = NoRequest]

\* The kernel serialises these requests of one file.
Changing(w) == req[w].at \in {"cow", "close", "table", "pwrite", "resize", "upgrade",
                              "swap", "ftruncate"}
InodeLocked(f) == \E w \in Workers : Changing(w) /\ req[w].of.file = f

-----------------------------------------------------------------------------
(* mo2_open                                                                 *)

\* A free value of fh that no request being answered has taken.
IsNextHandle(h) ==
    /\ open_files[h] = None
    /\ \A w \in Workers : At(w, "register") => req[w].h # h

\* A handle for reading is created without a descriptor.
OpenForReading(w, f, h) ==
    /\ Idle(w) /\ IsNextHandle(h)
    /\ open_files' = [open_files EXCEPT ![h] =
            [file |-> f, object |-> <<f, provider[f]>>, fd |-> NoFd, writable |-> FALSE,
             cow_pending |-> FALSE, last_read_tick |-> 0]]
    /\ UNCHANGED <<provider, fds, fd_lru_tick, req>>

\* A handle for writing: a game file keeps its own content until the first write,
\* unless it is truncated; everything else is opened in place.
OpenForWriting(w, f, h, truncate) ==
    /\ Idle(w) /\ IsNextHandle(h)
    /\ truncate => ~InodeLocked(f)
    /\ LET inPlace == <<f, provider[f]>> = Target(f)
           object  == IF inPlace \/ truncate THEN Target(f) ELSE <<f, provider[f]>>
       IN  \E d \in Fds :
             /\ IsNextFd(d)
             /\ fds' = [fds EXCEPT ![d] = object]
             /\ provider' = [provider EXCEPT ![f] = object[2]]
             /\ req' = [req EXCEPT ![w] =
                    [at |-> "register", h |-> h, fd |-> d, use |-> NoFd, tick |-> 0,
                     of |-> [file |-> f, object |-> object, fd |-> d, writable |-> TRUE,
                             cow_pending |-> object # Target(f), last_read_tick |-> 0]]]
    /\ UNCHANGED <<open_files, fd_lru_tick>>

Register(w) ==
    /\ At(w, "register")
    /\ open_files' = [open_files EXCEPT ![req[w].h] = req[w].of]
    /\ Reply(w)
    /\ UNCHANGED <<provider, fds, fd_lru_tick>>

-----------------------------------------------------------------------------
(* mo2_read                                                                 *)

\* Reads that will still draw a tick.
TicksDue == Cardinality({w \in Workers : req[w].at \in {"open", "touch"}})

\* The entry is copied under the lock.
ReadBegins(w, h) ==
    /\ Idle(w) /\ h \in Live
    /\ fd_lru_tick + TicksDue < MaxTicks
    /\ LET of == open_files[h]
       IN  req' = [req EXCEPT ![w] =
              [at |-> CASE of.fd = NoFd -> "open"
                        [] of.fd # NoFd /\ ~of.writable -> "touch"
                        [] OTHER -> "splice",
               h |-> h, of |-> of, fd |-> NoFd, use |-> of.fd, tick |-> 0]]
    /\ UNCHANGED <<provider, fds, open_files, fd_lru_tick>>

\* The first read opens the file.
ReadOpens(w) ==
    /\ At(w, "open")
    /\ \E d \in Fds :
         /\ IsNextFd(d)
         /\ fds' = [fds EXCEPT ![d] = req[w].of.object]
         /\ fd_lru_tick' = fd_lru_tick + 1
         /\ req' = [req EXCEPT ![w].at = "retain", ![w].fd = d, ![w].use = d,
                               ![w].tick = fd_lru_tick + 1]
    /\ UNCHANGED <<provider, open_files>>

\* Without a free descriptor the read is answered with EIO.
ReadOpenFails(w) ==
    /\ At(w, "open") /\ FreeFds = {}
    /\ Reply(w)
    /\ UNCHANGED <<provider, fds, open_files, fd_lru_tick>>

\* Mutant: the descriptor is stored whatever the entry holds by now.
RetainsBlindly(w) ==
    /\ At(w, "retain")
    /\ open_files' = [open_files EXCEPT ![req[w].h].fd = req[w].fd,
                                        ![req[w].h].last_read_tick = req[w].tick]
    /\ req' = [req EXCEPT ![w].at = "prune", ![w].fd = NoFd]
    /\ UNCHANGED <<provider, fds, fd_lru_tick>>

\* The descriptor is handed to the entry, if that still has none.
Retains(w) ==
    /\ At(w, "retain")
    /\ open_files[req[w].h].fd = NoFd /\ ~open_files[req[w].h].writable
    /\ open_files' = [open_files EXCEPT ![req[w].h].fd = req[w].fd,
                                        ![req[w].h].last_read_tick = req[w].tick]
    /\ req' = [req EXCEPT ![w].at = "prune", ![w].fd = NoFd]
    /\ UNCHANGED <<provider, fds, fd_lru_tick>>

\* Otherwise it is closed and the read is answered with EBADF.
ReadRefused(w) ==
    /\ At(w, "retain")
    /\ open_files[req[w].h].fd # NoFd \/ open_files[req[w].h].writable
    /\ fds' = [fds EXCEPT ![req[w].fd] = Closed]
    /\ Reply(w)
    /\ UNCHANGED <<provider, open_files, fd_lru_tick>>

\* The entries whose descriptors pruneRetainedReadOnlyFds closes: the least
\* recently read, as many as there are too many.
IsVictims(V) ==
    /\ V \subseteq Retained
    /\ Cardinality(Retained \ V) =
         IF Cardinality(Retained) <= MAX_RETAINED_RO_FDS THEN Cardinality(Retained)
                                                         ELSE MAX_RETAINED_RO_FDS
    /\ \A v \in V, h \in Retained \ V :
         open_files[v].last_read_tick <= open_files[h].last_read_tick

CloseVictims(V) ==
    /\ fds' = [d \in Fds |-> IF \E h \in V : open_files[h].fd = d THEN Closed ELSE fds[d]]
    /\ open_files' = [h \in Handles |->
         IF h \in V THEN [open_files[h] EXCEPT !.fd = NoFd] ELSE open_files[h]]

\* Mutant: one descriptor is closed although the limit is reached, not passed.
PrunesLate(w) ==
    /\ At(w, "prune")
    /\ IF Cardinality(Retained) <= MAX_RETAINED_RO_FDS + 1
         THEN UNCHANGED <<fds, open_files>>
         ELSE \E V \in SUBSET Handles : IsVictims(V) /\ CloseVictims(V)
    /\ Goto(w, "splice")
    /\ UNCHANGED <<provider, fd_lru_tick>>

\* pruneRetainedReadOnlyFds
Prunes(w) ==
    /\ At(w, "prune")
    /\ \E V \in SUBSET Handles : IsVictims(V) /\ CloseVictims(V)
    /\ Goto(w, "splice")
    /\ UNCHANGED <<provider, fd_lru_tick>>

\* A later read only renews the entry's place in the order.
Touches(w) ==
    /\ At(w, "touch")
    /\ fd_lru_tick' = fd_lru_tick + 1
    /\ open_files' = [open_files EXCEPT ![req[w].h].last_read_tick = fd_lru_tick + 1]
    /\ Goto(w, "splice")
    /\ UNCHANGED <<provider, fds>>

\* The kernel splices the data out of the descriptor.
Splices(w) ==
    /\ At(w, "splice")
    /\ Reply(w)
    /\ UNCHANGED <<provider, fds, open_files, fd_lru_tick>>

-----------------------------------------------------------------------------
(* mo2_write, and the writes of fallocate and copy_file_range               *)

\* The entry is copied under the lock.
WriteBegins(w, h) ==
    /\ Idle(w) /\ h \in Live
    /\ open_files[h].writable /\ ~InodeLocked(open_files[h].file)
    /\ LET of == open_files[h]
       IN  req' = [req EXCEPT ![w] =
              [at |-> IF of.cow_pending THEN "cow" ELSE "pwrite",
               h |-> h, of |-> of, fd |-> NoFd, use |-> of.fd, tick |-> 0]]
    /\ UNCHANGED <<provider, fds, open_files, fd_lru_tick>>

\* Mutant: the game's file is opened instead of its copy.
OpensSource(w) ==
    /\ At(w, "cow")
    /\ \E d \in Fds :
         /\ IsNextFd(d)
         /\ fds' = [fds EXCEPT ![d] = req[w].of.object]
         /\ req' = [req EXCEPT ![w].at = "close", ![w].fd = d]
    /\ UNCHANGED <<provider, open_files, fd_lru_tick>>

\* The file is copied, unless a copy exists, and the copy opened.
OpensCopy(w) ==
    /\ At(w, "cow")
    /\ \E d \in Fds :
         /\ IsNextFd(d)
         /\ fds' = [fds EXCEPT ![d] = Target(req[w].of.file)]
         /\ req' = [req EXCEPT ![w].at = "close", ![w].fd = d]
    /\ UNCHANGED <<provider, open_files, fd_lru_tick>>

\* Without a free descriptor the write is answered with EIO.
CopyOpenFails(w) ==
    /\ At(w, "cow") /\ FreeFds = {}
    /\ Reply(w)
    /\ UNCHANGED <<provider, fds, open_files, fd_lru_tick>>

\* The descriptor of the game's file is closed while the entry still has it.
ClosesSource(w) ==
    /\ At(w, "close")
    /\ fds' = [fds EXCEPT ![req[w].of.fd] = Closed]
    /\ Goto(w, "table")
    /\ UNCHANGED <<provider, open_files, fd_lru_tick>>

\* The entry and the index now have the copy.
StoresCopy(w) ==
    /\ At(w, "table")
    /\ LET f == req[w].of.file
       IN  /\ open_files' = [open_files EXCEPT ![req[w].h].fd = req[w].fd,
                   ![req[w].h].object = Target(f), ![req[w].h].cow_pending = FALSE]
           /\ provider' = [provider EXCEPT ![f] = "staged"]
    /\ req' = [req EXCEPT ![w].at = "pwrite", ![w].use = req[w].fd, ![w].fd = NoFd]
    /\ UNCHANGED <<fds, fd_lru_tick>>

Writes(w) ==
    /\ At(w, "pwrite")
    /\ Reply(w)
    /\ UNCHANGED <<provider, fds, open_files, fd_lru_tick>>

-----------------------------------------------------------------------------
(* mo2_setattr with a size, by handle                                       *)

SwapsIn(h, d, object) ==
    /\ open_files' = [open_files EXCEPT ![h].fd = d, ![h].object = object,
            ![h].writable = TRUE, ![h].cow_pending = FALSE]
    /\ fds' = [e \in Fds |-> IF e = d THEN object
                             ELSE IF e = open_files[h].fd THEN Closed ELSE fds[e]]

ResizeBegins(w, h) ==
    /\ Idle(w) /\ h \in Live
    /\ ~InodeLocked(open_files[h].file)
    /\ req' = [req EXCEPT ![w] =
          [at |-> IF open_files[h].object = Target(open_files[h].file)
                  THEN "upgrade" ELSE "resize",
           h |-> h, of |-> open_files[h], fd |-> NoFd, use |-> NoFd, tick |-> 0]]
    /\ UNCHANGED <<provider, fds, open_files, fd_lru_tick>>

\* A game file is copied; the copy is opened and stored under the lock.
ResizeCopies(w) ==
    /\ At(w, "resize")
    /\ \E d \in Fds : IsNextFd(d) /\ SwapsIn(req[w].h, d, Target(req[w].of.file))
    /\ Goto(w, "upgrade")
    /\ UNCHANGED <<provider, fd_lru_tick>>

\* A handle that is not writable, or has no descriptor, gets one opened for
\* writing, first without the lock.
ResizeUpgrades(w) ==
    /\ At(w, "upgrade")
    /\ IF open_files[req[w].h].writable /\ open_files[req[w].h].fd # NoFd
         THEN Goto(w, "ftruncate") /\ UNCHANGED fds
         ELSE \E d \in Fds :
                /\ IsNextFd(d)
                /\ fds' = [fds EXCEPT ![d] = Target(req[w].of.file)]
                /\ req' = [req EXCEPT ![w].at = "swap", ![w].fd = d]
    /\ UNCHANGED <<provider, open_files, fd_lru_tick>>

\* Mutant: the descriptor a read has retained meanwhile is not closed.
ResizeSwapsOver(w) ==
    /\ At(w, "swap")
    /\ open_files' = [open_files EXCEPT ![req[w].h].fd = req[w].fd,
            ![req[w].h].object = Target(req[w].of.file), ![req[w].h].writable = TRUE,
            ![req[w].h].cow_pending = FALSE]
    /\ UNCHANGED fds
    /\ req' = [req EXCEPT ![w].at = "ftruncate", ![w].fd = NoFd]
    /\ UNCHANGED <<provider, fd_lru_tick>>

\* Then stored under it; the descriptor of the entry is closed.
ResizeSwaps(w) ==
    /\ At(w, "swap")
    /\ SwapsIn(req[w].h, req[w].fd, Target(req[w].of.file))
    /\ req' = [req EXCEPT ![w].at = "ftruncate", ![w].fd = NoFd]
    /\ UNCHANGED <<provider, fd_lru_tick>>

ResizeFails(w) ==
    /\ \/ At(w, "resize")
       \/ At(w, "upgrade") /\ (~open_files[req[w].h].writable \/ open_files[req[w].h].fd = NoFd)
    /\ FreeFds = {}
    /\ Reply(w)
    /\ UNCHANGED <<provider, fds, open_files, fd_lru_tick>>

\* ftruncate of the entry's descriptor; the index gets the target.
Resizes(w) ==
    /\ At(w, "ftruncate")
    /\ provider' = [provider EXCEPT ![req[w].of.file] = Target(req[w].of.file)[2]]
    /\ Reply(w)
    /\ UNCHANGED <<fds, open_files, fd_lru_tick>>

-----------------------------------------------------------------------------
(* mo2_release and unmounting                                               *)

Used(h) == \E w \in Workers : req[w].h = h

CloseAll(H) ==
    /\ fds' = [d \in Fds |-> IF \E h \in H \cap Live : open_files[h].fd = d
                            THEN Closed ELSE fds[d]]
    /\ open_files' = [h \in Handles |-> IF h \in H THEN None ELSE open_files[h]]

Release(w, h) ==
    /\ Idle(w) /\ h \in Live /\ ~Used(h)
    /\ CloseAll({h})
    /\ UNCHANGED <<provider, fd_lru_tick, req>>

\* mo2CloseOpenFiles, when the session has ended: the next mount starts with an
\* empty table.
CloseOpenFiles ==
    /\ \A w \in Workers : Idle(w)
    /\ CloseAll(Handles)
    /\ UNCHANGED <<provider, fd_lru_tick, req>>

Init ==
    /\ provider \in [Files -> {"own", "staged"}]
    /\ \A f \in Files : provider[f] = "staged" => f \in Backing
    /\ fds = [d \in Fds |-> Closed]
    /\ open_files = [h \in Handles |-> None]
    /\ fd_lru_tick = 0
    /\ req = [w \in Workers |-> NoRequest]

Opening(w) ==
    \E f \in Files, h \in Handles :
        OpenForReading(w, f, h) \/ \E truncate \in BOOLEAN : OpenForWriting(w, f, h, truncate)

Reading(w) ==
    \/ \E h \in Handles : ReadBegins(w, h)
    \/ ReadOpens(w) \/ ReadOpenFails(w) \/ Retains(w) \/ ReadRefused(w)
    \/ Prunes(w) \/ Touches(w) \/ Splices(w)

Writing(w) ==
    \/ \E h \in Handles : WriteBegins(w, h)
    \/ OpensCopy(w) \/ CopyOpenFails(w) \/ ClosesSource(w) \/ StoresCopy(w) \/ Writes(w)

Resizing(w) ==
    \/ \E h \in Handles : ResizeBegins(w, h)
    \/ ResizeCopies(w) \/ ResizeUpgrades(w) \/ ResizeSwaps(w) \/ ResizeFails(w)
    \/ Resizes(w)

Next ==
    \/ \E w \in Workers : Opening(w) \/ Register(w) \/ Reading(w) \/ Writing(w) \/ Resizing(w)
    \/ \E w \in Workers, h \in Handles : Release(w, h)
    \/ CloseOpenFiles

Spec == Init /\ [][Next]_vars

-----------------------------------------------------------------------------
(* Properties.                                                              *)

\* The type of every variable; only a handle for reading is without descriptor.
TypeOK ==
    /\ provider \in [Files -> {"own", "staged"}]
    /\ fds \in [Fds -> Objects \cup {Closed}]
    /\ open_files \in [Handles -> OpenFile \cup {None}]
    /\ fd_lru_tick \in Nat
    /\ req \in [Workers -> Request]
    /\ \A w \in Workers : Idle(w) <=> req[w] = NoRequest
    /\ \A h \in Live : open_files[h].writable => open_files[h].fd # NoFd
    /\ Cardinality(Retained) <= MAX_RETAINED_RO_FDS
                                  + Cardinality({w \in Workers : At(w, "prune")})

\* A copy-on-write has closed the descriptor that the entry still has.
Dangling(h) == \E w \in Workers : At(w, "table") /\ req[w].h = h

Holders(d) == {h \in Live : open_files[h].fd = d /\ ~Dangling(h)}
                 \cup {w \in Workers : req[w].fd = d}
                 \cup {w \in Workers : At(w, "register") /\ req[w].of.fd = d}

\* No descriptor is lost and none is closed twice: an open one belongs to exactly
\* one entry or request, whichever way reads, writes, resizes and releases of the
\* same handle overlap, and a free one to none.
OneHolder ==
    \A d \in Fds : Cardinality(Holders(d)) = IF fds[d] = Closed THEN 0 ELSE 1

\* "So the game install is never modified": the descriptor that a write or resize
\* uses is that of the staged copy, or of the mod file written in place, of the
\* file the handle was opened for, however descriptors are closed and their
\* numbers used again between the lock and the system call.
GameFilesSpared ==
    \A w \in Workers :
        /\ At(w, "pwrite") => fds[req[w].use] = Target(req[w].of.file)
        /\ At(w, "ftruncate") =>
              fds[open_files[req[w].h].fd] = Target(req[w].of.file)

\* A handle reads what the index said provides its file when the handle was
\* opened, or the copy made since: its descriptor is open, on that file.  One opened
\* for writing in place is read in place: its descriptor is not replaced or closed
\* under a read that has copied it.
EntriesMatch ==
    /\ \A h \in Live :
        /\ open_files[h].fd # NoFd /\ ~Dangling(h) =>
              fds[open_files[h].fd] = open_files[h].object
        /\ open_files[h].object[1] = open_files[h].file
        /\ open_files[h].writable /\ ~open_files[h].cow_pending =>
              open_files[h].object = Target(open_files[h].file)
    /\ \A w \in Workers :
        At(w, "splice") /\ req[w].of.writable /\ ~req[w].of.cow_pending =>
            fds[req[w].use] = req[w].of.object

\* "Open the backing fd on the first read": a read of a read-only handle whose file
\* could be opened is not answered with an error.  Not so when two first reads of a
\* handle overlap.
FirstReadsAnswered ==
    [][\A w \in Workers :
          At(w, "retain") /\ ~open_files[req[w].h].writable => ~ReadRefused(w)]_vars
=============================================================================
