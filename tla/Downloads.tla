----------------------------- MODULE Downloads ------------------------------
(***************************************************************************)
(* One download (downloadmanager.cpp): a link, the request a server        *)
(* answers with the file or the rest of it, the partial file, the metadata *)
(* it is resumed from, pauses, retries, stalls, the publication of the     *)
(* archive, and crashes.  The file is the bytes 1, 2, ..., Size.           *)
(*                                                                         *)
(* Everything runs on the main thread.  Handlers call each other: abort()  *)
(* emits finished() before it returns, so that setState may find the row   *)
(* gone.  They are functions of the download here, composed as the code    *)
(* calls them; f is the set of what fails meanwhile.  Four things are      *)
(* interrupted: startDownload, which lets the event loop run before it     *)
(* connects the reply; pauseAll, which waits in one; and the renaming of a *)
(* partial file and the publication, which a crash may cut short.          *)
(*                                                                         *)
(* QNetworkReply is external: abort() closes the reply, which loses what   *)
(* is buffered, and emits finished() unless the reply is finished already. *)
(***************************************************************************)
EXTENDS Integers, FiniteSets, Sequences

CONSTANTS
    NoFile, NoReply,
    Habits,      \* what the user does beside the ordinary, a subset of AllHabits
    Size,        \* of the file
    Retries,     \* AUTOMATIC_RETRIES
    MaxStarts,   \* bound: times the user adds or resumes
    MaxFaults    \* bound: failing writes, renames and removals, crashes, bodies cut short

\* Pausing a resumed download that has arrived while startDownload is still at it.
AllHabits == {"pause before connected"}

ASSUME DownloadsAssumption ==
    /\ Size \in Nat \ {0} /\ Retries \in Nat /\ MaxStarts \in Nat /\ MaxFaults \in Nat
    /\ Habits \subseteq AllHabits

VARIABLES
    dl,          \* the row of the download, its reply and its files
    suppressed,  \* m_AdmissionSuppressed, which only pauseAll sets
    pending,     \* whether the link is in m_PendingDownloads
    asked,       \* whether its request for download URLs is under way
    up, begun, faults

vars == <<dl, suppressed, pending, asked, up, begun, faults>>

Bytes      == [i \in 1..Size |-> i]
Active     == {"downloading", "pausing", "canceling"}
Publishing == {"finished", "renamed", "named", "written"}
States     == Active \cup Publishing \cup
              {"none", "canceled", "paused", "error", "fetching", "ready"}
Failing    == {"disk", "meta", "remove", "retire"}

\* What has gone wrong with the files: the metadata of a partial file was lost with its old
\* name, an archive was published although nobody knew its length, or found under a final
\* name that was a partial file's, or URLs could not be retired, which the user was told or
\* only the log says.
Flaws == {"torn rename", "unmeasured", "bare name", "told", "logged"}

\* key: the name looks like an object key of a CDN; bare: the partial file lacks the suffix
\* .unfinished; held: its metadata says that it is paused; moving: it has its new name and
\* its metadata still the old one; stray: metadata is left under the old one.
Absent == [state |-> "none", listed |-> FALSE, tries |-> 0, urls |-> FALSE, open |-> FALSE,
           data |-> FALSE, net |-> NoReply, key |-> FALSE, bare |-> FALSE, held |-> FALSE,
           moving |-> FALSE, stray |-> FALSE, flaws |-> {},
           part |-> NoFile, pmeta |-> "none", full |-> NoFile, fmeta |-> "none"]

-----------------------------------------------------------------------------
(* A reply.                                                                 *)

\* ranged: whether a Range header asks for the bytes after pos, the size of the partial
\* file; recorded: whether createMetaFile went well; wired: whether startDownload has
\* connected the reply.
Request(ranged, pos, recorded) ==
    [ranged |-> ranged, pos |-> pos, recorded |-> recorded, answer |-> "none", arrived |-> 0,
     buf |-> <<>>, end |-> "running", wired |-> FALSE, valid |-> FALSE, expected |-> 0,
     received |-> 0, bad |-> FALSE]

HasReply(d)  == d.net # NoReply
IsRunning(d) == HasReply(d) /\ d.net.end = "running"
IsOpen(d)    == HasReply(d) /\ d.net.end # "aborted"
Starting(d)  == HasReply(d) /\ ~d.net.wired

\* What a server may answer, where the body it sends begins, and how much is to come.  An
\* unmeasured answer is a whole file that comes without a length, or encoded.
Answers(n) ==
    {"whole", "unmeasured", "refused"} \cup
    (IF n.ranged /\ n.pos < Size THEN {"partial"} ELSE {}) \cup
    (IF n.ranged /\ n.pos > 0 THEN {"other range"} ELSE {})
Begins(n) == IF n.answer = "partial" THEN n.pos ELSE 0
ToCome(n) == IF n.answer \in {"none", "refused"} THEN 0 ELSE Size - Begins(n) - n.arrived

Retired(d) == [d EXCEPT !.net = NoReply]
Cut(d)     == [d EXCEPT !.net.end = "aborted", !.net.buf = <<>>]
Failed(d)  == [d EXCEPT !.net.bad = TRUE]

Unmeasured == -1

\* Mutant: the answer to a range is taken to be that range.
ValidatedAnyRange(d) ==
    LET n == d.net IN
    IF n.bad \/ n.valid THEN d
    ELSE CASE n.answer \in {"whole", "unmeasured"} ->
                [d EXCEPT !.part = <<>>, !.net.valid = TRUE,
                          !.net.expected = IF n.answer = "whole" THEN Size ELSE Unmeasured]
           [] n.answer \in {"partial", "other range"} ->
                [d EXCEPT !.net.valid = TRUE, !.net.expected = Size - Begins(n)]
           [] OTHER -> Failed(d)

\* validateDownloadResponse and DownloadResponse::prepare.  A whole file replaces the
\* partial one; a closed output is emptied, but cannot be positioned.
Validated(d) ==
    LET n == d.net
        whole == n.answer \in {"whole", "unmeasured"}
    IN
    IF n.bad \/ n.valid THEN d
    ELSE CASE whole /\ n.pos > 0 /\ ~d.open -> [Failed(d) EXCEPT !.part = <<>>]
           [] whole /\ (n.pos = 0 \/ d.open) ->
                [d EXCEPT !.part = IF n.pos > 0 THEN <<>> ELSE @, !.net.valid = TRUE,
                          !.net.expected = IF n.answer = "whole" THEN Size ELSE Unmeasured]
           [] n.answer = "partial" /\ Len(d.part) = n.pos ->
                [d EXCEPT !.net.valid = TRUE, !.net.expected = Size - n.pos]
           [] OTHER -> Failed(d)

-----------------------------------------------------------------------------
(* Handlers.                                                                *)

\* The files of a download whose row is gone.
OnDisk(d) ==
    [Absent EXCEPT !.part = d.part, !.pmeta = d.pmeta, !.full = d.full, !.fmeta = d.fmeta,
                   !.key = d.key, !.bare = d.bare, !.held = d.held, !.stray = d.stray,
                   !.flaws = d.flaws]

\* URLs on disk that are not beside their partial file, and a row about which the log says
\* so if something has failed.
Exposed(d) == d.stray \/ d.fmeta = "urls" \/ (d.pmeta = "urls" /\ d.part = NoFile)
Logged(d, failed) == [d EXCEPT !.flaws = IF failed /\ Exposed(d) THEN @ \cup {"logged"} ELSE @]

\* Mutant: the metadata is retired although the partial file could not be removed.
DiscardedAnyway(d, f) ==
    [Absent EXCEPT !.full = d.full, !.fmeta = d.fmeta,
                   !.part = IF "remove" \in f THEN d.part ELSE NoFile]

\* downloadFinished for a canceled download, or one that has no tries left.  The metadata
\* goes after the file; that it stays is only logged.
Discarded(d, f) ==
    LET gone == [Absent EXCEPT !.full = d.full, !.fmeta = d.fmeta]
        kept == [gone EXCEPT !.pmeta = d.pmeta, !.stray = d.stray]
    IN  CASE "remove" \in f -> Logged(OnDisk(d), TRUE)
          [] "remove" \notin f /\ "retire" \in f -> Logged(kept, TRUE)
          [] "remove" \notin f /\ "retire" \notin f -> gone

\* createMetaFile for what can be resumed.
Recorded(d, f) ==
    IF "meta" \in f THEN d
    ELSE [d EXCEPT !.pmeta = "urls", !.held = d.state \in {"paused", "error"}]

\* setState(STATE_PAUSED): the abort runs downloadFinished, if that is connected.
Paused(d, f) ==
    LET p == [d EXCEPT !.state = "paused", !.open = FALSE] IN
    IF ~IsRunning(d) THEN p
    ELSE IF d.net.wired THEN Retired(Recorded(p, f)) ELSE Cut(p)

\* setState(STATE_CANCELING) and setState(STATE_CANCELED), likewise.
Canceled(d, state, f) ==
    LET c == [d EXCEPT !.state = state] IN
    IF ~IsRunning(d) THEN c ELSE IF d.net.wired THEN Discarded(c, f) ELSE Cut(c)

\* writeData.  A short write cancels the download; so does a closed output.
Written(d, f) ==
    LET v == Validated(d) IN
    IF v.net.bad THEN v
    ELSE IF v.open /\ ("disk" \notin f \/ v.net.buf = <<>>)
         THEN [v EXCEPT !.part = @ \o v.net.buf, !.net.buf = <<>>,
                        !.net.received = @ + Len(v.net.buf)]
         ELSE Canceled([v EXCEPT !.net.buf = <<>>], "canceled", f)

\* Mutant: the output is opened without Append.
RequestedTruncates(d, f) ==
    IF ~d.urls THEN d
    ELSE Recorded([d EXCEPT !.net = Request(d.state # "error", Len(d.part), "meta" \notin f), !.part = <<>>,
                            !.state = "downloading", !.open = TRUE], f)

\* resumeDownloadInt from the request on, and startDownload up to its event loop.
Requested(d, f) ==
    IF ~d.urls THEN d
    ELSE Recorded([d EXCEPT !.net = Request(d.state # "error", Len(d.part), "meta" \notin f),
                            !.state = "downloading", !.open = TRUE], f)

\* Whether what a finished reply has brought counts as a failure.
Failure(d) ==
    \/ d.net.bad \/ ~d.net.valid \/ d.part = <<>> \/ d.net.end = "failed"
    \/ d.net.expected >= 0 /\ d.net.received # d.net.expected

\* resumeDownloadInt as downloadFinished and checkDownloadTimeout call it, with a try less.
Retried(d, f) ==
    LET t == [d EXCEPT !.tries = @ - 1] IN IF suppressed THEN t ELSE Requested(t, f)

\* downloadFinished, up to the publication.
Finished(d, f) ==
    LET held == {"canceling", "canceled", "pausing", "paused"}
        v == IF d.state \in held THEN d ELSE Validated(d)
        w == IF IsOpen(v) /\ v.data THEN Written(v, f) ELSE v
        c == [w EXCEPT !.open = FALSE]
    IN  CASE w.state = "none" -> w
          [] c.state \in {"canceling", "canceled"} -> Discarded(c, f)
          [] c.state \in {"pausing", "paused"} -> Retired(Recorded(Paused(c, f), f))
          [] c.state = "downloading" /\ ~Failure(c) -> [c EXCEPT !.state = "finished"]
          [] c.state = "downloading" /\ Failure(c) /\ c.tries = 0 -> Discarded(c, f)
          [] c.state = "downloading" /\ Failure(c) /\ c.tries > 0 ->
                Retried(Retired(Recorded([c EXCEPT !.state = "error"], f)), f)

\* Mutant: a stall costs no try.
StalledForFree(d, f) ==
    LET p == [d EXCEPT !.state = "pausing"]
        w == IF p.data THEN Written(p, f) ELSE p
        q == Paused([w EXCEPT !.open = FALSE], f)
    IN  IF w.state = "none" THEN w ELSE IF suppressed THEN q ELSE Requested(q, f)

\* checkDownloadTimeout for a download that stalls: pauseDownload, downloadFinished, and
\* another try.
Stalled(d, f) ==
    LET p == [d EXCEPT !.state = "pausing"]
        w == IF p.data THEN Written(p, f) ELSE p
        q == Paused([w EXCEPT !.open = FALSE], f)
    IN  IF w.state = "none" THEN w ELSE IF q.tries = 0 THEN q ELSE Retried(q, f)

\* resumeDownload.  The state pausing is brought to an end first.
Resumed(d, f) ==
    LET r == [d EXCEPT !.tries = Retries]
        w == IF r.state = "pausing" THEN Written(r, f) ELSE r
    IN  IF w.state \notin {"pausing", "paused", "error"} THEN w
        ELSE Requested(IF w.state = "pausing" THEN Paused(w, f) ELSE w, f)

\* pauseDownload.
Held(d, f) ==
    CASE d.state = "downloading" /\ IsRunning(d) -> [d EXCEPT !.state = "pausing"]
      [] d.state = "downloading" /\ ~IsRunning(d) -> Paused(d, f)
      [] d.state = "fetching" -> [d EXCEPT !.state = "ready", !.fmeta = "clean"]
      [] OTHER -> d

\* Mutant: startDownload does not look whether the reply has finished meanwhile.
ConnectedBlindly(d, f) ==
    LET w == [d EXCEPT !.listed = TRUE, !.net.wired = TRUE] IN
    IF w.net.buf # <<>> THEN Written([w EXCEPT !.data = TRUE], f) ELSE w

\* startDownload from the connections on: what has arrived meanwhile is caught up.
Connected(d, f) ==
    LET w == [d EXCEPT !.listed = TRUE, !.net.wired = TRUE]
        c == IF w.net.buf # <<>> THEN Written([w EXCEPT !.data = TRUE], f) ELSE w
    IN  IF HasReply(c) /\ ~IsRunning(c) THEN Finished(c, f) ELSE c

\* rejectStart, when createMetaFile has failed.  A new file is removed, or stays: it is
\* still empty, and its metadata is what could not be written.
Rejected(d, f) ==
    IF d.listed THEN [Retired(d) EXCEPT !.state = "paused", !.open = FALSE]
    ELSE [Absent EXCEPT !.part = IF "remove" \in f THEN <<>> ELSE NoFile]

\* setName has given the partial file the name of Content-Disposition, which is an
\* archive's.  A download that is pausing is not given the suffix.
Renamed(d) == [d EXCEPT !.key = FALSE, !.bare = (d.state = "pausing")]

\* Its metadata has stayed behind.
Torn(d) == [Renamed(d) EXCEPT !.pmeta = "none", !.stray = TRUE,
                              !.flaws = @ \cup {"torn rename"}]

\* metaDataChanged, after the renaming, which has closed the output.
Reopened(d, f) ==
    IF "open" \in f THEN Canceled(d, "canceling", f) ELSE [d EXCEPT !.open = TRUE]

-----------------------------------------------------------------------------
(* Steps.                                                                   *)

Init ==
    /\ dl = Absent /\ suppressed = FALSE
    /\ pending = FALSE /\ asked = FALSE
    /\ up = TRUE /\ begun = 0 /\ faults = 0

\* What may fail in a step, of the things s, within the bound.
Failures(s) == {f \in SUBSET s : faults + Cardinality(f) <= MaxFaults}
Costs(f)    == faults' = faults + Cardinality(f) /\ faults' <= MaxFaults

\* The event loop runs: not while a file is renamed or an archive published.
Idle == up /\ dl.state \notin Publishing /\ ~dl.moving

Becomes(new, f) == Costs(f) /\ dl' = new

\* addNXMDownload of a link that is not pending: its download URLs are asked for.
AddLink ==
    /\ Idle /\ ~suppressed /\ ~pending /\ dl = Absent /\ begun < MaxStarts
    /\ pending' = TRUE /\ asked' = TRUE /\ begun' = begun + 1
    /\ UNCHANGED <<dl, suppressed, up, faults>>

\* Mutant: pauseAll rejects the start, and the link stays pending.
UrlsAvailableKeepsPending ==
    /\ Idle /\ asked /\ dl = Absent /\ asked' = FALSE /\ pending' = suppressed
    /\ \E f \in Failures({"meta"}), key \in BOOLEAN :
          IF suppressed THEN f = {} /\ UNCHANGED <<dl, faults>>
          ELSE Becomes(Recorded([Absent EXCEPT !.state = "downloading", !.tries = Retries,
                                               !.urls = TRUE, !.open = TRUE, !.part = <<>>,
                                               !.key = key,
                                               !.net = Request(FALSE, 0, "meta" \notin f)], f), f)
    /\ UNCHANGED <<suppressed, up, begun>>

\* nxmDownloadURLsAvailable, addDownload and startDownload up to its event loop: a row
\* that is not listed yet.
UrlsAvailable ==
    /\ Idle /\ asked /\ dl = Absent /\ asked' = FALSE /\ pending' = FALSE
    /\ \E f \in Failures({"meta"}), key \in BOOLEAN :
          IF suppressed THEN f = {} /\ UNCHANGED <<dl, faults>>
          ELSE Becomes(Recorded([Absent EXCEPT !.state = "downloading", !.tries = Retries,
                                               !.urls = TRUE, !.open = TRUE, !.part = <<>>,
                                               !.key = key,
                                               !.net = Request(FALSE, 0, "meta" \notin f)], f), f)
    /\ UNCHANGED <<suppressed, up, begun>>

\* nxmRequestFailed.
UrlsRefused ==
    /\ Idle /\ asked /\ asked' = FALSE /\ pending' = FALSE
    /\ UNCHANGED <<dl, suppressed, up, begun, faults>>

\* The event loop that startDownload lets run may return: pauseAll, if it was called in
\* there, has returned.
MayContinue == Idle /\ Starting(dl) /\ ~suppressed

StartContinue ==
    /\ MayContinue
    /\ \E f \in Failures(Failing) :
          Becomes(IF dl.net.recorded THEN Connected(dl, f) ELSE Rejected(dl, f), f)
    /\ UNCHANGED <<suppressed, pending, asked, up, begun>>

-----------------------------------------------------------------------------
(* The network.                                                             *)

\* The head of a response: metaDataChanged.  A name that looks like an object key gives
\* way to the one the server sends, if it sends one: the output is renamed (or not: disk),
\* and its metadata is there (recorded), so that it is next.
Answer ==
    /\ Idle /\ IsRunning(dl) /\ dl.net.answer = "none"
    /\ \E a \in Answers(dl.net), f \in Failures({"disk", "open", "remove", "retire"}) :
          LET d == [dl EXCEPT !.net.answer = a]
              v == IF d.net.wired THEN Validated(d) ELSE d
          IN  /\ "disk" \notin f => f = {}
              /\ "open" \notin f => f \cap {"remove", "retire"} = {}
              /\ \/ f = {} /\ Becomes(v, f)
                 \/ /\ v.net.valid /\ v.key
                    /\ Becomes(IF "disk" \in f THEN Reopened([v EXCEPT !.open = FALSE], f)
                               ELSE [v EXCEPT !.moving = TRUE, !.open = FALSE], f)
    /\ UNCHANGED <<suppressed, pending, asked, up, begun>>

\* setName moves the metadata after the file.  If that fails (meta) the file is renamed
\* back; if that fails as well (disk) the metadata is written anew (or not: write) and the
\* old one retired (or not: old).  Then the output is opened again.
MoveMeta ==
    /\ up /\ dl.moving
    /\ \E f \in Failures({"meta", "disk", "write", "old", "open", "remove", "retire"}) :
          LET d == [dl EXCEPT !.moving = FALSE] IN
          /\ ~({"meta", "disk"} \subseteq f) /\ ~({"write", "old"} \subseteq f)
          /\ "disk" \notin f => f \cap {"write", "old"} = {}
          /\ f \cap {"open", "write", "old"} = {} => f \cap {"remove", "retire"} = {}
          /\ Becomes(CASE "meta" \in f -> Reopened(d, f)
                       [] "write" \in f -> Canceled([Torn(d) EXCEPT !.open = "open" \notin f],
                                                    "canceling", f)
                       [] "old" \in f -> Canceled([Renamed(d) EXCEPT !.stray = TRUE,
                                                                    !.open = "open" \notin f],
                                                  "canceling", f)
                       [] f \cap {"meta", "write", "old"} = {} -> Reopened(Renamed(d), f), f)
    /\ UNCHANGED <<suppressed, pending, asked, up, begun>>

\* downloadProgress.
Progressed(d, f) ==
    LET p == [d EXCEPT !.data = TRUE] IN
    CASE ~HasReply(d) -> d
      [] HasReply(d) /\ d.state = "pausing" -> Paused(p, f)
      [] HasReply(d) /\ d.state # "pausing" -> p

\* A piece of the body: downloadReadyRead, and downloadProgress or not.
Arrive ==
    /\ Idle /\ IsRunning(dl) /\ ToCome(dl.net) > 0
    /\ \E f \in Failures(Failing), progress \in BOOLEAN :
          LET b == Begins(dl.net) + dl.net.arrived + 1
              d == [dl EXCEPT !.net.buf = Append(@, b), !.net.arrived = @ + 1]
              w == IF d.net.wired THEN Written(d, f) ELSE d
          IN  Becomes(IF d.net.wired /\ progress THEN Progressed(w, f) ELSE w, f)
    /\ UNCHANGED <<suppressed, pending, asked, up, begun>>

\* The reply finishes, with all of the body, a part of it, or an error.
End ==
    /\ Idle /\ IsRunning(dl)
    /\ \E f \in Failures(Failing), e \in {"done", "cut short", "failed"} :
          LET d == [dl EXCEPT !.net.end = e] IN
          /\ e = "done"      => dl.net.answer # "none" /\ ToCome(dl.net) = 0
          /\ e = "cut short" => ToCome(dl.net) > 0
          /\ Becomes(IF d.net.wired THEN Finished(d, f) ELSE d,
                     IF e = "done" THEN f ELSE f \cup {e})
    /\ UNCHANGED <<suppressed, pending, asked, up, begun>>

\* The abort that a rejected response has scheduled.
DeferredAbort ==
    /\ Idle /\ IsRunning(dl) /\ dl.net.bad
    /\ \E f \in Failures(Failing) :
          Becomes(IF dl.net.wired THEN Finished(Cut(dl), f) ELSE Cut(dl), f)
    /\ UNCHANGED <<suppressed, pending, asked, up, begun>>

\* checkDownloadTimeout: nothing has arrived for five seconds.
Timeout ==
    /\ Idle /\ ~Starting(dl) /\ dl.state = "downloading" /\ IsOpen(dl)
    /\ \E f \in Failures(Failing) : Becomes(Stalled(dl, f), f)
    /\ UNCHANGED <<suppressed, pending, asked, up, begun>>

\* nxmDescriptionAvailable and nxmRequestFailed for a download that is published.
QueryAnswer ==
    /\ Idle /\ dl.state = "fetching"
    /\ dl' = [dl EXCEPT !.state = "ready", !.fmeta = "clean"]
    /\ UNCHANGED <<suppressed, pending, asked, up, begun, faults>>

-----------------------------------------------------------------------------
(* The user.                                                                *)

\* The download whose start lets the event loop run has arrived in full.
ArrivedEarly == Starting(dl) /\ ~IsRunning(dl)

Pause ==
    /\ Idle /\ dl.listed /\ dl.state \in {"downloading", "fetching"}
    /\ ArrivedEarly => "pause before connected" \in Habits
    /\ Becomes(Held(dl, {}), {})
    /\ UNCHANGED <<suppressed, pending, asked, up, begun>>

Cancel ==
    /\ Idle /\ dl.listed /\ dl.state \in {"downloading", "pausing"}
    /\ \E f \in Failures({"remove", "retire"}) : Becomes(Canceled(dl, "canceling", f), f)
    /\ UNCHANGED <<suppressed, pending, asked, up, begun>>

Resume ==
    /\ Idle /\ dl.listed /\ ~Starting(dl) /\ ~suppressed /\ begun < MaxStarts
    /\ dl.state \in {"paused", "error", "pausing"}
    /\ \E f \in Failures(Failing) : Becomes(Resumed(dl, f), f)
    /\ begun' = begun + 1
    /\ UNCHANGED <<suppressed, pending, asked, up>>

\* pauseAll, and its return: when nothing is active any more, or after five seconds.
PauseAll ==
    /\ Idle /\ ~suppressed
    /\ dl.listed /\ ArrivedEarly => "pause before connected" \in Habits
    /\ suppressed' = TRUE
    /\ Becomes(IF dl.listed THEN Held(dl, {}) ELSE dl, {})
    /\ UNCHANGED <<pending, asked, up, begun>>

EndPauseAll ==
    /\ Idle /\ suppressed /\ suppressed' = FALSE
    /\ UNCHANGED <<dl, pending, asked, up, begun, faults>>

-----------------------------------------------------------------------------
(* The publication of an archive: the end of downloadFinished.              *)

\* What is left of a download whose archive could not be renamed.
Unpublished(d, f) == Retired(Recorded([d EXCEPT !.state = "error"], f))

\* setName: the archive.  A partial file that has the final name already keeps it, and
\* counts as not published.
RenameArchive ==
    /\ up /\ dl.state = "finished"
    /\ \E f \in Failures({"disk", "meta"}) :
          /\ "meta" \in f => "disk" \in f \/ dl.bare
          /\ dl' = IF "disk" \in f \/ dl.bare THEN Unpublished(dl, f)
                   ELSE [dl EXCEPT !.state = "renamed", !.full = dl.part, !.part = NoFile,
                                   !.flaws = IF dl.net.expected = Unmeasured
                                             THEN @ \cup {"unmeasured"} ELSE @]
          /\ Costs(f)
    /\ UNCHANGED <<suppressed, pending, asked, up, begun>>

\* setName: its metadata.  If that fails the archive is renamed back; if that fails as
\* well (disk) the metadata is written anew under the new name.
RenameMeta ==
    /\ up /\ dl.state = "renamed"
    /\ \E f \in Failures({"disk", "meta"}) :
          /\ "disk" \in f => "meta" \in f
          /\ dl' = CASE "meta" \notin f ->
                          [dl EXCEPT !.state = "named", !.fmeta = dl.pmeta, !.pmeta = "none"]
                     [] f = {"meta"} ->
                          Unpublished([dl EXCEPT !.part = dl.full, !.full = NoFile,
                                                 !.flaws = @ \ {"unmeasured"}], {})
                     [] f = {"meta", "disk"} -> [dl EXCEPT !.state = "named"]
          /\ Costs(f)
    /\ UNCHANGED <<suppressed, pending, asked, up, begun>>

\* createMetaFile without the URLs, or else the removal of what there is.
WriteMeta ==
    /\ up /\ dl.state = "named"
    /\ \E f \in Failures({"meta", "remove"}) :
          /\ "remove" \in f => "meta" \in f
          /\ dl' = [dl EXCEPT !.state = "written", !.urls = FALSE,
                              !.fmeta = CASE "meta" \notin f -> "clean"
                                          [] f = {"meta"} -> "none"
                                          [] f = {"meta", "remove"} -> @,
                              !.flaws = IF "remove" \in f THEN @ \cup {"told"} ELSE @]
          /\ Costs(f)
    /\ UNCHANGED <<suppressed, pending, asked, up, begun>>

\* Mutant: metadata that is left over is forgotten.
PublishForgetsObsolete ==
    /\ up /\ dl.state = "written"
    /\ dl' = [Retired(dl) EXCEPT !.state = IF suppressed THEN "ready" ELSE "fetching"]
    /\ UNCHANGED <<suppressed, pending, asked, up, begun, faults>>

\* Metadata that is left over is retired; then the description is asked for.
Publish ==
    /\ up /\ dl.state = "written"
    /\ \E f \in Failures({"remove"}) :
          LET kept == "remove" \in f /\ dl.pmeta # "none"
              told == kept \/ "told" \in dl.flaws
          IN
          /\ "remove" \in f => kept
          /\ dl' = [Retired(dl) EXCEPT
                       !.pmeta = IF kept THEN @ ELSE "none",
                       !.flaws = IF kept THEN @ \cup {"told"} ELSE @,
                       !.state = IF suppressed \/ told THEN "ready" ELSE "fetching",
                       !.fmeta = IF suppressed /\ ~told THEN "clean" ELSE @]
          /\ Costs(f)
    /\ UNCHANGED <<suppressed, pending, asked, up, begun>>

-----------------------------------------------------------------------------
(* Crash and restart.                                                       *)

\* What an open output has not flushed is lost.
Crash ==
    /\ up /\ up' = FALSE
    /\ \E n \in 0..Size :
          /\ dl.part = NoFile => n = 0
          /\ dl.part # NoFile => n <= Len(dl.part) /\ (~dl.open => n = Len(dl.part))
          /\ dl' = [OnDisk(IF dl.moving THEN Torn(dl) ELSE dl) EXCEPT
                       !.part = IF dl.part = NoFile THEN NoFile ELSE SubSeq(dl.part, 1, n)]
    /\ suppressed' = FALSE /\ pending' = FALSE /\ asked' = FALSE
    /\ Costs({"crash"})
    /\ UNCHANGED begun

\* refreshList and createFromMeta.  Metadata without a file is removed (or not: remove).
\* What has a final name, and metadata that does not say paused, counts as an archive,
\* whose URLs are retired (or not: retire, which is only logged).
Relisted(d, f) ==
    LET row == [d EXCEPT !.listed = TRUE, !.stray = @ /\ "remove" \in f,
                         !.pmeta = IF d.part = NoFile /\ "remove" \notin f THEN "none" ELSE @,
                         !.flaws = @ \ {"told", "logged"}]
        kept(m) == IF m = "urls" /\ "retire" \notin f THEN "clean" ELSE m
        archive == d.bare /\ ~(d.held /\ d.pmeta = "urls")
    IN  CASE d.full # NoFile ->
                Logged([row EXCEPT !.state = "ready", !.fmeta = kept(@)], f # {})
          [] d.full = NoFile /\ d.part # NoFile /\ archive ->
                Logged([row EXCEPT !.state = "ready", !.full = d.part, !.fmeta = kept(d.pmeta),
                                   !.part = NoFile, !.pmeta = "none", !.bare = FALSE,
                                   !.flaws = @ \cup {"bare name"}], f # {})
          [] d.full = NoFile /\ d.part # NoFile /\ ~archive ->
                Logged([row EXCEPT !.state = "paused", !.urls = (d.pmeta = "urls")], f # {})
          [] d.full = NoFile /\ d.part = NoFile ->
                Logged([Absent EXCEPT !.pmeta = row.pmeta, !.stray = row.stray], f # {})

Restart ==
    /\ ~up /\ up' = TRUE
    /\ \E f \in Failures({"remove", "retire"}) : Becomes(Relisted(dl, f), f)
    /\ UNCHANGED <<suppressed, pending, asked, begun>>

\* refreshList for what a discarded download has left.
Refresh ==
    /\ Idle /\ dl.state = "none" /\ (dl.part # NoFile \/ Exposed(dl))
    /\ \E f \in Failures({"remove", "retire"}) : Becomes(Relisted(dl, f), f)
    /\ UNCHANGED <<suppressed, pending, asked, up, begun>>

\* removeDownload of a file that is not being downloaded, and refreshList.
Remove ==
    /\ Idle /\ dl.listed /\ ~Starting(dl) /\ dl.state \in {"paused", "error", "ready"}
    /\ \E f \in Failures({"remove"}) :
          Becomes(Relisted([Absent EXCEPT !.stray = dl.stray], f), f)
    /\ UNCHANGED <<suppressed, pending, asked, up, begun>>

Next ==
    \/ AddLink \/ UrlsAvailable \/ UrlsRefused \/ StartContinue
    \/ Answer \/ MoveMeta \/ Arrive \/ End \/ DeferredAbort \/ Timeout \/ QueryAnswer
    \/ Pause \/ Cancel \/ Resume \/ Remove \/ PauseAll \/ EndPauseAll
    \/ RenameArchive \/ RenameMeta \/ WriteMeta \/ Publish
    \/ Crash \/ Restart \/ Refresh

\* The main thread goes on with what it is at, and its timers fire.  startDownload goes on
\* even if the user keeps calling pauseAll: its event loop handles what is queued, once.
\* MayContinue is all that enables it: the first conjunct is its strong fairness.  Nothing
\* is promised of servers, of Nexus or of the user.
Fairness ==
    /\ ([]<>MayContinue => []<><<StartContinue>>_vars) /\ WF_vars(EndPauseAll)
    /\ WF_vars(DeferredAbort) /\ WF_vars(Timeout)
    /\ WF_vars(MoveMeta) /\ WF_vars(RenameArchive \/ RenameMeta \/ WriteMeta \/ Publish)

Spec == Init /\ [][Next]_vars /\ Fairness

-----------------------------------------------------------------------------
(* Properties.                                                              *)

Files == {NoFile} \cup {SubSeq(Bytes, 1, n) : n \in 0..Size}

\* What a reply and a row are made of.
Replies == [ranged : BOOLEAN, pos : 0..Size, recorded : BOOLEAN,
            answer : {"none", "whole", "unmeasured", "partial", "other range", "refused"},
            arrived : 0..Size, buf : Seq(1..Size),
            end : {"running", "done", "cut short", "failed", "aborted"}, wired : BOOLEAN,
            valid : BOOLEAN, expected : 0..Size \cup {Unmeasured}, received : 0..Size, bad : BOOLEAN]
Rows == [state : States, listed : BOOLEAN, tries : 0..Retries, urls : BOOLEAN, open : BOOLEAN,
         data : BOOLEAN, net : {NoReply} \cup Replies, key : BOOLEAN, bare : BOOLEAN,
         held : BOOLEAN, moving : BOOLEAN, stray : BOOLEAN, flaws : SUBSET Flaws,
         part : {NoFile} \cup Seq(1..Size),
         pmeta : {"none", "urls"}, full : {NoFile} \cup Seq(1..Size),
         fmeta : {"none", "urls", "clean"}]

ASSUME SentinelAssumption == NoReply \notin Replies /\ NoFile \notin Seq(1..Size)

\* The type of every variable.  A link that is pending is being asked about: a start
\* that pauseAll rejects retires it (downloadwritelifecycle.h:10-21).
TypeOK ==
    /\ dl \in Rows
    /\ HasReply(dl) => Len(dl.net.buf) <= Size
    /\ suppressed \in BOOLEAN /\ pending \in BOOLEAN /\ asked \in BOOLEAN
    /\ up \in BOOLEAN
    /\ begun \in 0..MaxStarts /\ faults \in 0..MaxFaults
    /\ pending => asked

\* A partial file is a prefix of the file, and what is published under the final name
\* is all of it, whatever servers answer to requests for a range, wherever a body ends
\* whose length is known, and through retries, pauses and crashes.  An archive whose length
\* nobody sent, or that was a partial file under a final name, is a prefix
\* (downloadresponse.h:20-67, downloadmanager.cpp:3009-3030).
FilesSound ==
    /\ dl.part \in Files /\ dl.full \in Files
    /\ dl.flaws \cap {"unmeasured", "bare name"} = {} => dl.full \in {NoFile, Bytes}

\* A partial file can be resumed: its metadata is there, at every crash but one between
\* the renaming of a partial file and that of its metadata, and when a discarded download
\* could not remove the file (downloadmanager.cpp:997-1001, 3097-3109).
RecoveryKept ==
    dl.part \notin {NoFile, <<>>} /\ ~dl.moving /\ "torn rename" \notin dl.flaws =>
        dl.pmeta = "urls"

\* The private URLs of a download are on disk only beside its partial file, unless they
\* could not be retired; then Nexus is asked nothing more about an archive
\* (downloadmanager.cpp:3094-3101, 3226-3296).
CapabilitiesRetired ==
    /\ Idle /\ dl.flaws \cap {"told", "logged"} = {} => ~Exposed(dl)
    /\ Idle /\ dl.state = "fetching" => dl.pmeta = "none" /\ dl.fmeta # "urls"

\* What is listed as partial has the suffix that is reserved for it
\* (downloadmetadatapolicy.h:43-44).
PartialsReserved == dl.part # NoFile => ~dl.bare

\* A row that is active has a reply that will still finish, and will be heard
\* (downloadmanager.cpp:1012-1037).
ActiveIsServed ==
    Idle /\ ~Starting(dl) /\ dl.state \in Active => IsRunning(dl)

\* A paused download keeps its partial file until it is removed or resumed: nothing that
\* is still under way takes it away (downloadmanager.cpp:3110-3127).
PausedKept == [][dl.state = "paused" /\ dl.part # <<>> => dl'.part = dl.part \/ Remove]_vars

\* A download that a server leaves hanging comes to an end
\* (downloadmanager.cpp:3410-3458).
DownloadsSettle == dl.state = "downloading" ~> dl.state # "downloading"
=============================================================================
