--------------------------- MODULE StagingPromotion ---------------------------
(***************************************************************************)
(* Promotion of the copy-on-write files of a FUSE session into the         *)
(* Overwrite folder (or the profile's custom output folder): class         *)
(* StagingPromotion, vfs/stagingpromotion.cpp, with the calls FuseConnector*)
(* makes to it when it mounts and unmounts the VFS.                        *)
(*                                                                         *)
(* Every durable step (create, rename, unlink, marker write) is an action  *)
(* of its own, so that the program may die or a system call may fail       *)
(* between any two of them.  A digest identifies a content, hence digests  *)
(* and contents are the same values here.                                  *)
(*                                                                         *)
(* Not modelled: the fallback of archiveConflict for a rename across file  *)
(* systems, destination snapshots and README files of an archive (they are *)
(* copies nothing reads back), symbolic links inside staging (the VFS never*)
(* creates one), writes in place to files that are in the Overwrite folder *)
(* (they bypass staging), and power loss of data that was never synced.    *)
(***************************************************************************)
EXTENDS Naturals, FiniteSets

CONSTANTS
    Paths,       \* relative paths of files a session writes
    Contents,    \* complete file contents
    Dests,       \* destination roots a profile may configure
    Absent,      \* no file
    Partial,     \* a file whose copy-on-write copy was cut short
    NoJournal,   \* no journal file
    NoPath,      \* no path
    MaxFailures, \* bound: crashes and failing system calls
    MaxInterventions  \* bound: what users and other programs do to files and profiles

ASSUME SentinelAssumption ==
    /\ Absent \notin Contents
    /\ Partial \notin Contents
    /\ Absent # Partial
    /\ NoPath \notin Paths
    /\ NoJournal \notin [dest : Dests,
                         digest : [Paths -> Contents \cup {Absent, Partial}],
                         previous : [Paths -> Contents \cup {Absent, Partial}]]

ASSUME BoundAssumption == MaxFailures \in Nat /\ MaxInterventions \in Nat

Stored  == Contents \cup {Absent, Partial}
Trees   == {"staging", "archive"}
Journal == [dest : Dests, digest : [Paths -> Stored], previous : [Paths -> Stored]]

VARIABLES
    \* On disk.
    dst,         \* the files below each destination root
    tmp,         \* temporary copies <<root, path, content>> next to them
    file,        \* the data files of VFS_staging and of the archived staging
    journal,     \* the journal file of each of the two trees
    jtmp,        \* whether a tree holds .fluorine-promotion-v1.tmp
    marker,      \* text of .fluorine-unresolved: none, torn, conflict, unjournaled
    conf,        \* the destination root the current profile configures
    \* In memory, lost in a crash.
    session,     \* what FuseConnector is doing
    copying,     \* copy-on-write copies in progress
    pc,          \* next durable step of the running promotion
    src,         \* tree being promoted
    resume,      \* running inside recoverUnjournaledArchive
    jrn,         \* the Journal object
    todo,        \* its entries replay has not looked at yet
    cur,         \* the entry copyVerified is installing
    \* History, for the properties.
    owed,        \* last content the VFS accepted for a path
    base,        \* destinations as they were when the VFS was last mounted
    torn,        \* files an unmount lets a truncated copy replace, see Unmount
    failures,      \* crashes and failed system calls so far
    interventions  \* edits, reconfigurations and reconciliations so far

disk    == <<dst, tmp, file, journal, jtmp, marker>>
promo   == <<pc, src, resume, jrn, todo, cur>>
memory  == <<session, copying, promo>>
history == <<owed, base, torn, failures, interventions>>
vars    == <<disk, conf, memory, history>>

-----------------------------------------------------------------------------
(* What the code computes from a tree.                                      *)

Empty == [p \in Paths |-> Absent]

HasFiles(t)   == \E p \in Paths : file[t][p] # Absent
hasPayload(t) == HasFiles(t) \/ jtmp[t] \/ journal[t] # NoJournal

\* The journal of tree t for destination d: what is staged and what is there now.
buildJournal(t, d) == [dest |-> d, digest |-> file[t],
                       previous |-> [p \in Paths |->
                           IF file[t][p] = Absent THEN Absent ELSE dst[d][p]]]

\* requireMissingOrIdenticalDestination: a staged file whose destination differs.
Conflicting(t, d) == \E p \in Paths : /\ file[t][p] # Absent
                                      /\ dst[d][p] \notin {Absent, file[t][p]}

Entries(j) == {p \in Paths : j.digest[p] # Absent}

Idle == /\ pc' = "idle" /\ src' = "staging" /\ resume' = FALSE
        /\ jrn' = NoJournal /\ todo' = {} /\ cur' = NoPath

\* Mutant: writeJournal is not called.
StartUnjournaled(t, j, r) ==
    /\ pc' = "replay" /\ src' = t /\ resume' = r
    /\ jrn' = j /\ todo' = Entries(j) /\ cur' = NoPath
    /\ UNCHANGED <<session, copying>>

\* Start to write journal j into tree t.
StartJournal(t, j, r) ==
    /\ pc' = "createJournal" /\ src' = t /\ resume' = r
    /\ jrn' = j /\ todo' = Entries(j) /\ cur' = NoPath
    /\ UNCHANGED <<session, copying>>

StartReplay(t, j, r) ==
    /\ pc' = "replay" /\ src' = t /\ resume' = r
    /\ jrn' = j /\ todo' = Entries(j) /\ cur' = NoPath
    /\ UNCHANGED <<session, copying>>

Goto(step) == pc' = step /\ UNCHANGED <<session, copying, src, resume, jrn, todo, cur>>

\* The promotion returns: mount exposes the VFS unless it is blocked, unmount
\* ends the session either way.
Return(blocked) ==
    /\ Idle
    /\ session' = IF session = "launching" /\ ~blocked THEN "mounted" ELSE "down"
    /\ base' = IF session' = "mounted" THEN dst ELSE base
    /\ UNCHANGED copying

\* An exception leaves promote or recover: mount fails, unmount logs it.
Throw == Idle /\ session' = "down" /\ copying' = {}

-----------------------------------------------------------------------------
(* The session: files are staged while the VFS is mounted.                  *)

\* FuseConnector::mount begins by recovering what an earlier session left.
Mount ==
    /\ session = "down"
    /\ session' = "launching" /\ pc' = "recover"
    /\ UNCHANGED <<disk, conf, copying, src, resume, jrn, todo, cur, history>>

\* A file of the VFS is created, renamed or rewritten in staging.
StageWrite(p, c) ==
    /\ session = "mounted"
    /\ p \notin copying
    /\ file["staging"][p] # c
    /\ file' = [file EXCEPT !["staging"][p] = c]
    /\ owed' = [owed EXCEPT ![p] = c]
    /\ torn' = torn \ {p}
    /\ UNCHANGED <<dst, tmp, journal, jtmp, marker, conf, memory, base,
                   failures, interventions>>

\* OverwriteManager::copyOnWrite copies a file of the game or of a mod straight to
\* its staging path, whether Overwrite has a file of that name (renamed over it, or
\* below a read-only file of a mod) or not.
CopyOnWriteBegin(p) ==
    /\ session = "mounted"
    /\ file["staging"][p] = Absent
    /\ copying' = copying \cup {p}
    /\ file' = [file EXCEPT !["staging"][p] = Partial]
    /\ UNCHANGED <<dst, tmp, journal, jtmp, marker, conf, session, promo, history>>

\* The copy is complete and the write that asked for it is applied.
CopyOnWriteEnd(p, c) ==
    /\ p \in copying
    /\ copying' = copying \ {p}
    /\ file' = [file EXCEPT !["staging"][p] = c]
    /\ owed' = [owed EXCEPT ![p] = c]
    /\ torn' = torn \ {p}
    /\ UNCHANGED <<dst, tmp, journal, jtmp, marker, conf, session, promo, base,
                   failures, interventions>>

\* The copy fails and what it has copied stays in staging.  copyOnWrite refuses the
\* operation; copyOnWriteFromFd does not look, and the file that results is nobody's.
CopyOnWriteFails(p) ==
    /\ p \in copying /\ failures < MaxFailures
    /\ failures' = failures + 1
    /\ copying' = copying \ {p}
    /\ UNCHANGED <<disk, conf, session, promo, owed, base, torn, interventions>>

\* Truncated copies of names for which the destination has a complete file.
Truncated == {p \in Paths : /\ file["staging"][p] = Partial
                            /\ dst[conf][p] \notin {Absent, Partial}}

\* FuseConnector::unmount has joined the FUSE workers and promotes the staging,
\* truncated copies included: promote takes whatever is staged.
Unmount ==
    /\ session = "mounted"
    /\ copying = {}
    /\ session' = "unmounting" /\ pc' = "promote"
    /\ torn' = torn \cup Truncated
    /\ UNCHANGED <<disk, conf, copying, src, resume, jrn, todo, cur, owed, base,
                   failures, interventions>>

\* The session was started with the discard flag: its writes are dropped.
UnmountDiscarding ==
    /\ session = "mounted"
    /\ copying = {}
    /\ file' = [file EXCEPT !["staging"] = Empty]
    /\ owed' = [p \in Paths |->
                  IF file["staging"][p] \in {Absent, Partial} THEN owed[p] ELSE Absent]
    /\ session' = "down"
    /\ UNCHANGED <<dst, tmp, journal, jtmp, marker, conf, copying, promo,
                   base, torn, failures, interventions>>

-----------------------------------------------------------------------------
(* StagingPromotion::promote and StagingPromotion::recover                  *)

\* Nothing to promote: what is left of the staging directory is removed.
NothingToDo ==
    /\ \/ pc = "promote"
       \/ pc = "recover" /\ marker = "none"
    /\ ~hasPayload("staging")
    /\ Return(FALSE)
    /\ UNCHANGED <<disk, conf, owed, torn, failures, interventions>>

\* promote journals whatever the destination holds.  Its branch for a journal that
\* is already there cannot be taken: recover has run before the mount (TreesApart).
PromoteJournals ==
    /\ pc = "promote"
    /\ hasPayload("staging")
    /\ journal["staging"] = NoJournal
    /\ StartJournal("staging", buildJournal("staging", conf), FALSE)
    /\ UNCHANGED <<disk, conf, history>>

\* An unresolved recovery whose archive no code can replay blocks the launch.
BlockedByMarker ==
    /\ pc = "recover"
    /\ marker # "none"
    /\ \/ marker # "unjournaled"
       \/ \A t \in Trees : ~hasPayload(t)
    /\ Return(TRUE)
    /\ UNCHANGED <<disk, conf, owed, torn, failures, interventions>>

\* recover finds staged files without a journal, none of which would replace
\* different data: it journals them now.
RecoverJournals ==
    /\ pc = "recover" /\ marker = "none"
    /\ hasPayload("staging") /\ journal["staging"] = NoJournal
    /\ ~Conflicting("staging", conf)
    /\ StartJournal("staging", buildJournal("staging", conf), FALSE)
    /\ UNCHANGED <<disk, conf, history>>

\* Unjournaled files that would replace different data, and a journal written
\* for another destination, are archived.
RecoverArchives ==
    /\ pc = "recover" /\ marker = "none"
    /\ hasPayload("staging")
    /\ IF journal["staging"] = NoJournal THEN Conflicting("staging", conf)
                                         ELSE journal["staging"].dest # conf
    /\ Goto("createMarker")
    /\ UNCHANGED <<disk, conf, history>>

\* Mutant: the recorded destination is not validated, the configured one is used.
RecoverReplaysAnywhere ==
    /\ pc = "recover" /\ marker = "none"
    /\ journal["staging"] # NoJournal
    /\ StartReplay("staging", [journal["staging"] EXCEPT !.dest = conf], FALSE)
    /\ UNCHANGED <<disk, conf, history>>

\* Mutant: the journal file is deleted once it has been read.
RecoverConsumesJournal ==
    /\ pc = "recover" /\ marker = "none"
    /\ journal["staging"] # NoJournal
    /\ journal["staging"].dest = conf
    /\ StartReplay("staging", journal["staging"], FALSE)
    /\ journal' = [journal EXCEPT !["staging"] = NoJournal]
    /\ UNCHANGED <<dst, tmp, file, jtmp, marker, conf, history>>

RecoverReplays ==
    /\ pc = "recover" /\ marker = "none"
    /\ journal["staging"] # NoJournal
    /\ journal["staging"].dest = conf
    /\ StartReplay("staging", journal["staging"], FALSE)
    /\ UNCHANGED <<disk, conf, history>>

\* recoverUnjournaledArchive prefers the archived tree over the original place.
ArchivedSource == IF hasPayload("archive") THEN "archive" ELSE "staging"

\* Its four outcomes: an archive of an older version is replayed from its
\* journal, journaled first, left blocked, or refused by an exception.
ResumeArchive ==
    /\ pc = "recover" /\ marker = "unjournaled"
    /\ LET t == ArchivedSource
           j == journal[t]
       IN  /\ hasPayload(t)
           /\ \/ j # NoJournal /\ j.dest = conf /\ StartReplay(t, j, TRUE) /\ UNCHANGED base
              \/ j # NoJournal /\ j.dest # conf /\ Throw /\ UNCHANGED base
              \/ j = NoJournal /\ Conflicting(t, conf) /\ Return(TRUE)
              \/ /\ j = NoJournal /\ ~Conflicting(t, conf)
                 /\ StartJournal(t, buildJournal(t, conf), TRUE) /\ UNCHANGED base
    /\ UNCHANGED <<disk, conf, owed, torn, failures, interventions>>

-----------------------------------------------------------------------------
(* writeJournal: create a new temporary file, publish it by rename.         *)

\* open with O_CREAT | O_EXCL, write and fsync.
CreateJournalTemp ==
    /\ pc = "createJournal"
    /\ ~jtmp[src]
    /\ jtmp' = [jtmp EXCEPT ![src] = TRUE]
    /\ Goto("publishJournal")
    /\ UNCHANGED <<dst, tmp, file, journal, marker, conf, history>>

\* O_EXCL refuses the temporary file an interrupted attempt has left.
JournalTempExists ==
    /\ pc = "createJournal"
    /\ jtmp[src]
    /\ Throw
    /\ UNCHANGED <<disk, conf, history>>

PublishJournal ==
    /\ pc = "publishJournal"
    /\ jtmp' = [jtmp EXCEPT ![src] = FALSE]
    /\ journal' = [journal EXCEPT ![src] = jrn]
    /\ Goto("replay")
    /\ UNCHANGED <<dst, tmp, file, marker, conf, history>>

-----------------------------------------------------------------------------
(* replay and copyVerified, one journal entry at a time in any order.       *)

\* Mutant: a destination that already has the content is not recognised.
NeverInstalled(p) == FALSE

Installed(p)    == dst[jrn.dest][p] = jrn.digest[p]
Replaceable(p)  == /\ file[src][p] = jrn.digest[p]
                   /\ dst[jrn.dest][p] = jrn.previous[p]

\* Mutant: continue without advancing to the next entry.
ReplaySkipStuck(p) ==
    /\ pc = "replay" /\ p \in todo
    /\ Installed(p)
    /\ UNCHANGED vars

\* The destination already has the journaled content.
ReplaySkip(p) ==
    /\ pc = "replay" /\ p \in todo
    /\ Installed(p)
    /\ todo' = todo \ {p}
    /\ UNCHANGED <<disk, conf, session, copying, pc, src, resume, jrn, cur, history>>

\* copyVerified: unlink the temporary file of an interrupted copy, copy again.
ReplayCopy(p) ==
    /\ pc = "replay" /\ p \in todo
    /\ ~Installed(p) /\ Replaceable(p)
    /\ tmp' = tmp \cup {<<jrn.dest, p, jrn.digest[p]>>}
    /\ cur' = p /\ pc' = "install"
    /\ UNCHANGED <<dst, file, journal, jtmp, marker, conf, session, copying, src, resume,
                   jrn, todo, history>>

\* Mutant: an entry that cannot be replayed is skipped.
ReplayBlockSkips(p) ==
    /\ pc = "replay" /\ p \in todo
    /\ ~Installed(p) /\ ~Replaceable(p)
    /\ todo' = todo \ {p}
    /\ UNCHANGED <<disk, conf, session, copying, pc, src, resume, jrn, cur, history>>

\* Neither the journaled nor the previous content is there, or the staged file
\* changed: block, and archive the staging unless it already is an archive.
ReplayBlock(p) ==
    /\ pc = "replay" /\ p \in todo
    /\ ~Installed(p) /\ ~Replaceable(p)
    /\ IF resume THEN Return(TRUE) ELSE Goto("createMarker") /\ UNCHANGED base
    /\ UNCHANGED <<disk, conf, owed, torn, failures, interventions>>

\* rename over the destination, sync the directory, hash the result again.
CopyVerifiedInstall ==
    /\ pc = "install"
    /\ dst' = [dst EXCEPT ![jrn.dest][cur] = jrn.digest[cur]]
    /\ tmp' = tmp \ {<<jrn.dest, cur, jrn.digest[cur]>>}
    /\ todo' = todo \ {cur}
    /\ cur' = NoPath /\ pc' = "replay"
    /\ UNCHANGED <<file, journal, jtmp, marker, conf, session, copying, src, resume, jrn,
                   history>>

\* A write to the temporary copy fails: copyVerified unlinks it and throws.
CopyVerifiedFails ==
    /\ pc = "install" /\ failures < MaxFailures
    /\ failures' = failures + 1
    /\ tmp' = tmp \ {<<jrn.dest, cur, jrn.digest[cur]>>}
    /\ Throw
    /\ UNCHANGED <<dst, file, journal, jtmp, marker, conf, owed, base, torn, interventions>>

\* Every entry is installed.
ReplayDone ==
    /\ pc = "replay" /\ todo = {}
    /\ Goto(IF resume THEN "clearMarker" ELSE "removeTree")
    /\ UNCHANGED <<disk, conf, history>>

\* recoverUnjournaledArchive clears the marker before it removes the archive.
ClearMarker ==
    /\ pc = "clearMarker"
    /\ marker' = "none"
    /\ Goto("removeTree")
    /\ UNCHANGED <<dst, tmp, file, journal, jtmp, conf, history>>

\* fs::remove_all deletes the entries of a tree in directory order, i.e. any.
RemoveEntry ==
    /\ pc = "removeTree"
    /\ \/ \E p \in Paths : /\ file[src][p] # Absent
                           /\ file' = [file EXCEPT ![src][p] = Absent]
                           /\ UNCHANGED <<journal, jtmp>>
       \/ /\ journal[src] # NoJournal
          /\ journal' = [journal EXCEPT ![src] = NoJournal]
          /\ UNCHANGED <<file, jtmp>>
    /\ UNCHANGED <<dst, tmp, jtmp, marker, conf, memory, history>>

RemoveDone ==
    /\ pc = "removeTree"
    /\ ~hasPayload(src)
    /\ Return(FALSE)
    /\ UNCHANGED <<disk, conf, owed, torn, failures, interventions>>

-----------------------------------------------------------------------------
(* archiveConflict: a durable marker first, then the move.                  *)

\* A new recovery directory with an empty marker; an older directory whose
\* marker was cleared is no longer looked at.
CreateMarker ==
    /\ pc = "createMarker"
    /\ marker' = "torn"
    /\ file' = [file EXCEPT !["archive"] = Empty]
    /\ journal' = [journal EXCEPT !["archive"] = NoJournal]
    /\ jtmp' = [jtmp EXCEPT !["archive"] = FALSE]
    /\ Goto("writeMarker")
    /\ UNCHANGED <<dst, tmp, conf, history>>

WriteMarker ==
    /\ pc = "writeMarker"
    /\ marker' = "conflict"
    /\ Goto("moveTree")
    /\ UNCHANGED <<dst, tmp, file, journal, jtmp, conf, history>>

\* Mutant: the conflict is archived but not reported as blocked.
MoveTreeUnreported ==
    /\ pc = "moveTree"
    /\ file' = [file EXCEPT !["archive"] = file["staging"], !["staging"] = Empty]
    /\ journal' = [journal EXCEPT !["archive"] = journal["staging"],
                                  !["staging"] = NoJournal]
    /\ jtmp' = [jtmp EXCEPT !["archive"] = jtmp["staging"], !["staging"] = FALSE]
    /\ Return(FALSE)
    /\ UNCHANGED <<dst, tmp, marker, conf, owed, torn, failures, interventions>>

MoveTree ==
    /\ pc = "moveTree"
    /\ file' = [file EXCEPT !["archive"] = file["staging"], !["staging"] = Empty]
    /\ journal' = [journal EXCEPT !["archive"] = journal["staging"],
                                  !["staging"] = NoJournal]
    /\ jtmp' = [jtmp EXCEPT !["archive"] = jtmp["staging"], !["staging"] = FALSE]
    /\ Return(TRUE)
    /\ UNCHANGED <<dst, tmp, marker, conf, owed, torn, failures, interventions>>

-----------------------------------------------------------------------------
(* The environment.                                                         *)

\* The program dies, or a system call fails and the exception is not handled.
Crash ==
    /\ session # "down" /\ failures < MaxFailures
    /\ failures' = failures + 1
    /\ Throw
    /\ UNCHANGED <<disk, conf, owed, base, torn, interventions>>

\* Content the program still holds for p besides the destination.
Parked(p) == \/ file["staging"][p] = owed[p]
             \/ marker # "none" /\ file["archive"][p] = owed[p]

\* While the program is not running, another one edits a destination.
Edit(d, p, c) ==
    /\ session = "down" /\ interventions < MaxInterventions
    /\ c # dst[d][p]
    /\ dst' = [dst EXCEPT ![d][p] = c]
    /\ owed' = [owed EXCEPT ![p] = IF Parked(p) THEN @ ELSE Absent]
    /\ interventions' = interventions + 1
    /\ UNCHANGED <<tmp, file, journal, jtmp, marker, conf, memory, base, torn, failures>>

\* Another profile, or another custom output folder, is selected.
Reconfigure(d) ==
    /\ session = "down" /\ d # conf /\ interventions < MaxInterventions
    /\ conf' = d
    /\ interventions' = interventions + 1
    /\ UNCHANGED <<disk, memory, owed, base, torn, failures>>

\* The user keeps some of the archived files, drops the others and removes the
\* marker, as the message of a blocked launch asks.
Reconcile(kept) ==
    /\ session = "down" /\ marker # "none" /\ interventions < MaxInterventions
    /\ interventions' = interventions + 1
    /\ kept \subseteq {p \in Paths : file["archive"][p] # Absent}
    /\ dst' = [dst EXCEPT ![conf] = [p \in Paths |->
                  IF p \in kept THEN file["archive"][p] ELSE @[p]]]
    /\ marker' = "none"
    /\ file' = [file EXCEPT !["archive"] = Empty]
    /\ journal' = [journal EXCEPT !["archive"] = NoJournal]
    /\ jtmp' = [jtmp EXCEPT !["archive"] = FALSE]
    /\ owed' = [p \in Paths |-> IF /\ file["archive"][p] # Absent
                                   /\ file["staging"][p] # owed[p]
                                THEN Absent ELSE owed[p]]
    /\ UNCHANGED <<tmp, conf, memory, base, torn, failures>>

-----------------------------------------------------------------------------
(* An older version left nothing, or unjournaled files it had marked as     *)
(* unresolved and, unless it was interrupted, moved to the archive.         *)
Init ==
    /\ dst \in [Dests -> [Paths -> Contents \cup {Absent}]]
    /\ conf \in Dests
    /\ tmp = {}
    /\ \E legacy \in [Paths -> Contents \cup {Absent}], t \in Trees :
          /\ file = [u \in Trees |-> IF u = t THEN legacy ELSE Empty]
          /\ marker = IF legacy = Empty THEN "none" ELSE "unjournaled"
          /\ owed = legacy
    /\ journal = [t \in Trees |-> NoJournal]
    /\ jtmp = [t \in Trees |-> FALSE]
    /\ session = "down" /\ copying = {} /\ pc = "idle" /\ src = "staging" /\ resume = FALSE
    /\ jrn = NoJournal /\ todo = {} /\ cur = NoPath
    /\ base = dst
    /\ torn = {}
    /\ failures = 0 /\ interventions = 0

\* The steps of one launch or unmount, which the program takes by itself.
Promotion ==
    \/ NothingToDo \/ PromoteJournals
    \/ BlockedByMarker \/ RecoverJournals \/ RecoverArchives \/ RecoverReplays
    \/ ResumeArchive
    \/ CreateJournalTemp \/ JournalTempExists \/ PublishJournal
    \/ \E p \in Paths : ReplaySkip(p) \/ ReplayCopy(p) \/ ReplayBlock(p)
    \/ CopyVerifiedInstall \/ ReplayDone \/ ClearMarker
    \/ RemoveEntry \/ RemoveDone
    \/ CreateMarker \/ WriteMarker \/ MoveTree

Session ==
    \/ Mount \/ Unmount \/ UnmountDiscarding
    \/ \E p \in Paths : CopyOnWriteBegin(p)
    \/ \E p \in Paths, c \in Contents : StageWrite(p, c) \/ CopyOnWriteEnd(p, c)

Environment ==
    \/ Crash \/ CopyVerifiedFails \/ \E p \in Paths : CopyOnWriteFails(p)
    \/ \E d \in Dests, p \in Paths, c \in Contents \cup {Absent} : Edit(d, p, c)
    \/ \E d \in Dests : Reconfigure(d)
    \/ \E kept \in SUBSET Paths : Reconcile(kept)

Next == Promotion \/ Session \/ Environment

Spec == Init /\ [][Next]_vars

\* The program runs its own steps to the end, and the user keeps launching and
\* closing it.  Nobody has to edit, crash, reconcile or write.
FairSpec ==
    /\ Spec
    /\ WF_vars(Promotion) /\ WF_vars(Mount) /\ WF_vars(Unmount)
    /\ WF_vars(\E p \in Paths, c \in Contents : CopyOnWriteEnd(p, c))

-----------------------------------------------------------------------------
(* Properties.                                                              *)

\* The steps that use the Journal object.
Working == {"createJournal", "publishJournal", "replay", "install", "clearMarker",
            "removeTree"}

\* The type of every variable, and which of them a step of the promotion uses.
TypeOK ==
    /\ dst \in [Dests -> [Paths -> Stored]]
    /\ tmp \subseteq Dests \X Paths \X Stored
    /\ file \in [Trees -> [Paths -> Stored]]
    /\ journal \in [Trees -> Journal \cup {NoJournal}]
    /\ jtmp \in [Trees -> BOOLEAN]
    /\ marker \in {"none", "torn", "conflict", "unjournaled"}
    /\ conf \in Dests
    /\ session \in {"down", "launching", "mounted", "unmounting"}
    /\ copying \subseteq Paths
    /\ pc \in {"idle", "recover", "promote", "createJournal", "publishJournal",
               "replay", "install", "clearMarker", "removeTree",
               "createMarker", "writeMarker", "moveTree"}
    /\ src \in Trees
    /\ resume \in BOOLEAN
    /\ jrn \in Journal \cup {NoJournal}
    /\ todo \subseteq Paths
    /\ cur \in Paths \cup {NoPath}
    /\ owed \in [Paths -> Stored]
    /\ base \in [Dests -> [Paths -> Stored]]
    /\ torn \subseteq Paths
    /\ failures \in Nat /\ interventions \in Nat
    /\ pc = "idle" <=> session \in {"down", "mounted"}
    /\ pc = "promote" => session = "unmounting"
    /\ copying # {} => session = "mounted"
    /\ IF pc = "install" THEN cur \in todo ELSE cur = NoPath
    /\ pc \in Working => jrn \in Journal /\ todo \subseteq Entries(jrn)

\* The last content the VFS accepted for a path is never lost, whatever step a
\* crash interrupts: it is in a destination, still staged, or in an archive that
\* a marker shows to the user.  (remove_all after replay, archiveConflict's move,
\* recoverUnjournaledArchive's clean-up.)  Unless it was in the destination and an
\* unmount promoted a truncated copy over it (see NoPartialFileInstalled).
NoAcceptedWriteLost ==
    \A p \in Paths : \/ owed[p] = Absent
                     \/ \E d \in Dests : dst[d][p] = owed[p]
                     \/ Parked(p)
                     \/ p \in torn

\* While the VFS is exposed nothing an earlier session wrote is hidden in an
\* archive: mount comes after recover, and recover blocks on unresolved data.  What
\* it exposes is what was accepted, except where a truncated copy was promoted.
ExposedComplete ==
    session = "mounted" =>
        /\ marker = "none"
        /\ \A p \in Paths : \/ owed[p] = Absent
                            \/ file["staging"][p] = owed[p]
                            \/ \E d \in Dests : dst[d][p] = owed[p]
                            \/ p \in torn

\* A crash or a failed copy alone never turns a journaled promotion into a
\* conflict, and its temporary copies are gone once the VFS is exposed again.
CrashAloneNeverBlocks ==
    interventions = 0 =>
        /\ marker = "conflict" => journal["archive"] = NoJournal
        /\ session = "mounted" => tmp = {}

\* The journals on disk; that of an archive counts while its marker is there.
JournalsOnDisk ==
    {journal[t] : t \in IF marker = "none" THEN {"staging"} ELSE Trees} \ {NoJournal}

\* "The journal is created before the destination is touched": every change the
\* program makes to a destination installs an entry of a journal on disk for it,
\* and replaces nothing but a missing file or the one the last session saw.
JournalBeforeTouch ==
    [][ Promotion => \A d \in Dests, p \in Paths :
          dst'[d][p] # dst[d][p] =>
            /\ dst[d][p] \in {Absent, base[d][p]}
            /\ \E j \in JournalsOnDisk : j.dest = d /\ j.digest[p] = dst'[d][p]
      ]_vars

\* "... and is retained until every destination has been re-hashed": a journal
\* leaves the disk only when each of its entries has been installed.
JournalRetained ==
    [][ Promotion => \A j \in JournalsOnDisk \ (JournalsOnDisk') :
          \A p \in Entries(j) : dst[j.dest][p] = j.digest[p]
      ]_vars

\* Data at rest in the staging directory.
Unresolved == session = "down" /\ HasFiles("staging") /\ marker = "none"

\* "The next mount will replay or preserve it before exposing the VFS again":
\* staged data left by a crash or a failed promotion ends up promoted, archived
\* or mounted again.  What unmount's comment promises, without a condition.
NextMountResolves == Unresolved ~> (~HasFiles("staging") \/ marker # "none")

\* The same as the code keeps it: unless the interruption left the temporary
\* file of the journal behind.
NextMountResolvesOrRefuses ==
    Unresolved ~> (~HasFiles("staging") \/ marker # "none" \/ jtmp["staging"])

\* "Crash-safe promotion of FUSE copy-on-write files" (stagingpromotion.h): no
\* destination receives a file whose copy a crash or an error cut short.  Not so:
\* copy-on-write copies in place, and recover and promote take what they find.
NoPartialFileInstalled ==
    \A d \in Dests, p \in Paths : dst[d][p] # Partial

-----------------------------------------------------------------------------
(* The inductive invariant: what makes the properties above hold.           *)

\* A journal speaks of the files next to it, on disk and in memory.
JournalDescribes(j, t) ==
    \A p \in Paths : file[t][p] # Absent => j.digest[p] = file[t][p]

JournalsDescribe ==
    /\ \A t \in Trees : journal[t] # NoJournal => JournalDescribes(journal[t], t)
    /\ pc \in Working => JournalDescribes(jrn, src)

\* Entries replay is done with are installed, the current one may be.
InstalledSoFar ==
    /\ pc \in Working => \A p \in Entries(jrn) \ todo : Installed(p)
    /\ pc \in {"clearMarker", "removeTree"} => todo = {}
    /\ pc = "install" => Replaceable(cur)

\* The journal in memory is on disk while destinations are touched.
JournalOnDisk ==
    /\ pc \in {"replay", "install", "clearMarker"} => journal[src] = jrn
    /\ pc = "removeTree" => journal[src] \in {jrn, NoJournal}
    /\ pc \in {"createJournal", "publishJournal"} => journal[src] = NoJournal

\* Which marker each step of the promotion can see.
MarkerPhases ==
    /\ session \in {"mounted", "unmounting"} /\ pc \notin {"writeMarker", "moveTree"}
         => marker = "none"
    /\ pc \in Working \ {"clearMarker", "removeTree"} =>
         marker = IF resume THEN "unjournaled" ELSE "none"
    /\ pc \in {"promote", "createMarker", "removeTree"} => marker = "none"
    /\ pc = "clearMarker" => marker = "unjournaled" /\ resume
    /\ pc = "writeMarker" => marker = "torn"
    /\ pc = "moveTree" => marker = "conflict"
    /\ pc \in {"writeMarker", "moveTree"} =>
         file["archive"] = Empty /\ journal["archive"] = NoJournal

\* Only the archive of an older version is promoted, alone.
TreesApart ==
    /\ ~resume => src = "staging"
    /\ resume => /\ pc \in Working /\ session = "launching"
                 /\ src = "staging" => ~hasPayload("archive")
    /\ (marker = "unjournaled" /\ hasPayload("archive")) \/ src = "archive"
         => ~hasPayload("staging")
    /\ session = "mounted" \/ pc = "promote" => journal["staging"] = NoJournal

\* A complete staged or archived file is the last content accepted for its path.
StagedIsOwed ==
    /\ owed \in [Paths -> Contents \cup {Absent}]
    /\ \A p \in Paths, t \in Trees :
          file[t][p] \in Contents /\ (t = "archive" => marker # "none")
            => owed[p] = file[t][p]
    /\ pc = "promote" => Truncated \subseteq torn

\* What a journal takes for the previous content of a destination was there when
\* the VFS was last mounted: nothing else changes a destination in between but
\* outside programs, and a truncated copy replaces a complete file only where torn
\* has it: recover archives what it finds without a journal.
PreviousOf(j) ==
    \A p \in Entries(j) :
        /\ j.previous[p] \in {Absent, j.digest[p], base[j.dest][p]}
        /\ j.digest[p] = Partial => j.previous[p] \in {Absent, Partial} \/ p \in torn

PreviousSeen ==
    /\ session = "mounted" \/ pc = "promote" => dst = base
    /\ \A t \in Trees :
          journal[t] # NoJournal /\ (t = "archive" => marker # "none")
            => PreviousOf(journal[t])
    /\ pc \in Working => PreviousOf(jrn)

IndInv == /\ TypeOK /\ JournalsDescribe /\ InstalledSoFar /\ JournalOnDisk
          /\ MarkerPhases /\ TreesApart /\ StagedIsOwed /\ PreviousSeen
          /\ NoAcceptedWriteLost

-----------------------------------------------------------------------------
\* The abstract store this module implements: an archive counts while its marker
\* is there.
Store == INSTANCE WriteBackStore WITH
             Values     <- Contents \cup {Partial},
             dest       <- dst,
             held       <- file["staging"],
             aside      <- IF marker = "none" THEN Empty ELSE file["archive"],
             unresolved <- marker # "none",
             exposed    <- session = "mounted"

\* Every step of the journal protocol, interrupted anywhere, is a step of the
\* store or invisible to it.
ImplementsStore == Store!Spec
=============================================================================
