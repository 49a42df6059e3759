-------------------------- MODULE Downloads_proofs --------------------------
(***************************************************************************)
(* Proofs about Downloads, for files of any size and any number of         *)
(* retries, starts and faults.                                             *)
(***************************************************************************)
EXTENDS Downloads, FiniteSetTheorems, SequenceTheorems, TLAPS

\* The pieces of the file, and what a partial file may be.
Piece(a, b) == SubSeq(Bytes, a + 1, b)
Prefixes    == {Piece(0, n) : n \in 0..Size}

\* A reply that was accepted goes on where the partial file ends, and what is buffered is
\* what comes next; before that the file is as long as it was when the request was made.
\* How much is to come is known unless the server did not say.
BodySound(d) ==
    LET n == d.net
    IN  /\ n.valid => /\ n.answer \in {"whole", "unmeasured", "partial"}
                      /\ \/ n.expected = Size - Begins(n)
                         \/ n.answer = "unmeasured" /\ n.expected = Unmeasured
                      /\ n.received <= n.arrived
                      /\ d.part = Piece(0, Begins(n) + n.received)
        /\ ~n.valid => n.received = 0 /\ Len(d.part) = n.pos
        /\ n.end # "aborted" => n.buf = Piece(Begins(n) + n.received, Begins(n) + n.arrived)

\* What is known of a reply.  Of a rejected one, and of one whose output was lost, nothing
\* will be written any more.
ReplySound(d) ==
    LET n == d.net
    IN  /\ n.recorded => d.pmeta = "urls"
        /\ n.wired => n.recorded
        /\ n.arrived <= Size - Begins(n) /\ Len(n.buf) <= n.arrived
        /\ n.answer \in {"none", "refused"} => n.arrived = 0 /\ ~n.valid
        /\ n.end = "aborted" => n.buf = <<>>
        /\ d.state = "canceled" => n.valid /\ n.buf = <<>>
        /\ ~n.bad /\ d.state # "canceled" => BodySound(d)

\* A partial file and no archive.  Its metadata may have been lost with its old name.
Resumable(d) ==
    /\ d \in Rows /\ d.part \in Prefixes /\ d.full = NoFile /\ d.fmeta = "none"
    /\ d.part # <<>> => d.pmeta = "urls" \/ "torn rename" \in d.flaws

\* A download that has one, and is not getting a new name.  Metadata under an old name is
\* left only if the log says so.
Partial(d) ==
    /\ Resumable(d) /\ ~d.moving
    /\ d.stray => "logged" \in d.flaws
    /\ HasReply(d) => ReplySound(d)

\* An archive is the whole file, unless nobody knew how long that is or it is a partial
\* file that had a final name.
WholeArchive(d) ==
    /\ d.full \in {NoFile} \cup Prefixes
    /\ d.flaws \cap {"unmeasured", "bare name"} = {} => d.full \in {NoFile, Bytes}

\* A row without a reply, whose files a restart finds.
Still(d) ==
    /\ d \in Rows /\ d.net = NoReply /\ ~d.moving
    /\ d.part \in {NoFile} \cup Prefixes /\ WholeArchive(d)
    /\ d.part \notin {NoFile, <<>>} => d.pmeta = "urls" \/ "torn rename" \in d.flaws
    /\ d.full # NoFile => d.part = NoFile
    /\ d.full = NoFile => d.fmeta = "none"

\* A download that was discarded; what could not be removed can be resumed, or the log says
\* that it is there.
Gone(d) ==
    /\ Still(d) /\ d.state = "none" /\ d.full = NoFile /\ ~d.open
    /\ Exposed(d) => "logged" \in d.flaws

\* What was received when a reply was done.
Received(d) == (d.part = Bytes \/ d.net.expected = Unmeasured) /\ d.pmeta = "urls"

\* How a reply leaves a download that has finished, failed or stalled.
Outcome(d) ==
    \/ Gone(d)
    \/ /\ Partial(d)
       /\ \/ d.state \in {"paused", "error"} /\ ~HasReply(d) /\ (d.state = "paused" => ~d.open)
          \/ d.state = "downloading" /\ Starting(d) /\ IsRunning(d)
          \/ d.state = "finished" /\ Received(d)

\* An archive whose publication is under way.
Published(d) ==
    /\ d.part = NoFile /\ d.full # NoFile /\ WholeArchive(d) /\ ~d.moving
    /\ d.stray => "logged" \in d.flaws
    /\ d.state = "renamed" => d.pmeta = "urls" /\ d.fmeta = "none"
    /\ d.state = "written" /\ d.fmeta = "urls" => "told" \in d.flaws

\* The row, as it is when no handler runs.
RowSound(d) ==
    /\ d.state # "canceled"
    /\ d.state \in Active => /\ Partial(d) /\ HasReply(d) /\ (d.net.wired => IsRunning(d))
                             /\ d.state = "canceling" => ~IsRunning(d)
    /\ d.state = "paused" => Partial(d) /\ (HasReply(d) => ~d.net.wired /\ ~IsRunning(d))
    /\ d.state = "paused" /\ Habits = {} => ~HasReply(d)
    /\ d.state \in {"none", "paused"} => ~d.open
    /\ d.state = "error" => Partial(d) /\ ~HasReply(d)
    /\ d.state = "none" => Still(d)
    /\ d.state \in {"fetching", "ready"} => Still(d) /\ d.full # NoFile
    /\ d.state = "finished" => Partial(d) /\ Received(d)
    /\ d.state \in {"renamed", "named", "written"} => Published(d)

\* How a handler leaves a download that is not published.
Served(d) == Gone(d) \/ (Partial(d) /\ RowSound(d))

\* The row as it was before its partial file was renamed.
Settled(d) == [d EXCEPT !.moving = FALSE]

Good ==
    /\ TypeOK
    /\ ~dl.moving => RowSound(dl)
    /\ dl.moving => /\ up /\ RowSound(Settled(dl)) /\ dl.state \in {"downloading", "pausing"}
                    /\ dl.net.wired
    /\ ~up => dl.state = "none"
    /\ up /\ dl.state = "none" => dl.full = NoFile
    /\ CapabilitiesRetired

-----------------------------------------------------------------------------
(* Pieces of the file.                                                      *)

\* The file is a sequence.
LEMMA BytesSeq == Bytes \in Seq(1..Size) /\ Len(Bytes) = Size /\ Size \in Nat \ {0}
<1>1. Size \in Nat \ {0}
  BY DownloadsAssumption
<1>2. Bytes \in [1..Size -> 1..Size]
  BY DEF Bytes
<1>3. QED
  BY <1>1, <1>2

\* The length of a piece.
LEMMA PieceType ==
  ASSUME NEW a \in 0..Size, NEW b \in a..Size
  PROVE  Piece(a, b) \in Seq(1..Size) /\ Len(Piece(a, b)) = b - a
<1>1. a \in Int /\ b \in Int /\ Size \in Nat /\ a + 1 \in Int
  BY BytesSeq
<1>2. \A i \in (a + 1)..b : Bytes[i] \in 1..Size
  BY <1>1, BytesSeq, ElementOfSeq
<1>3. QED
  BY <1>1, <1>2, SubSeqProperties DEF Piece

\* An empty piece, and the whole file.
LEMMA PieceEnds ==
  /\ \A a \in 0..Size : Piece(a, a) = <<>>
  /\ Piece(0, Size) = Bytes
<1>1. ASSUME NEW a \in 0..Size
      PROVE  Piece(a, a) = <<>>
  BY BytesSeq, SubSeqEmpty DEF Piece
<1>2. Piece(0, Size) = Bytes
  BY BytesSeq, SubSeqFull DEF Piece
<1>3. QED
  BY <1>1, <1>2

\* Two pieces that meet are one.
LEMMA PieceJoined ==
  ASSUME NEW a \in 0..Size, NEW b \in a..Size, NEW c \in b..Size
  PROVE  Piece(a, b) \o Piece(b, c) = Piece(a, c)
<1>1. a + 1 \in 1..(Len(Bytes) + 1) /\ b \in (a + 1 - 1)..Len(Bytes) /\ c \in b..Len(Bytes)
  BY BytesSeq
<1>2. SubSeq(Bytes, a + 1, b) \o SubSeq(Bytes, b + 1, c) = SubSeq(Bytes, a + 1, c)
  BY <1>1, BytesSeq, ConcatAdjacentSubSeq
<1>3. QED
  BY <1>2 DEF Piece

\* So is a piece with the byte that follows it.
LEMMA PieceGrown ==
  ASSUME NEW a \in 0..Size, NEW b \in a..Size, b < Size
  PROVE  Append(Piece(a, b), b + 1) = Piece(a, b + 1)
<1>1. a + 1 \in 1..Len(Bytes) /\ b + 1 \in (a + 1)..Len(Bytes) /\ (b + 1) - 1 = b
  BY BytesSeq
<1>2. SubSeq(Bytes, a + 1, b + 1) = SubSeq(Bytes, a + 1, b) \o <<Bytes[b + 1]>>
  BY <1>1, BytesSeq, SubSeqRecursiveSecond
<1>3. Bytes[b + 1] = b + 1
  BY <1>1, BytesSeq DEF Bytes
<1>4. Append(Piece(a, b), b + 1) = Piece(a, b) \o <<b + 1>>
  <2>1. Piece(a, b) \in Seq(1..Size) /\ b + 1 \in 1..Size
    BY BytesSeq, PieceType
  <2>2. QED
    BY <2>1, AppendIsConcat
<1>5. QED
  BY <1>2, <1>3, <1>4 DEF Piece

\* What a partial file is.
LEMMA PrefixType ==
  ASSUME NEW p \in Prefixes
  PROVE  /\ p \in Seq(1..Size) /\ Len(p) \in 0..Size /\ p = Piece(0, Len(p)) /\ p # NoFile
         /\ p # <<>> => Len(p) # 0
<1>1. PICK n \in 0..Size : p = Piece(0, n)
  BY DEF Prefixes
<1>2. 0 \in 0..Size /\ n \in 0..Size /\ n - 0 = n
  BY BytesSeq
<1>3. p \in Seq(1..Size) /\ Len(p) = n
  BY <1>1, <1>2, PieceType
<1>4. p # NoFile
  BY <1>3, SentinelAssumption
<1>5. p # <<>> => n # 0
  BY <1>1, <1>2, PieceEnds
<1>6. QED
  BY <1>1, <1>2, <1>3, <1>4, <1>5

\* A partial file may be empty.
LEMMA EmptyPrefix == <<>> \in Prefixes /\ <<>> # NoFile /\ Len(<<>>) = 0
<1>1. 0 \in 0..Size
  BY BytesSeq
<1>2. QED
  BY <1>1, PieceEnds, PrefixType DEF Prefixes

\* What is left of one when its end is lost.
LEMMA PrefixCut ==
  ASSUME NEW p \in Prefixes, NEW n \in 0..Len(p)
  PROVE  SubSeq(p, 1, n) \in Prefixes /\ (SubSeq(p, 1, n) # <<>> => p # <<>>)
<1>1. p \in Seq(1..Size) /\ Len(p) \in 0..Size /\ p = Piece(0, Len(p))
  BY PrefixType
<1>2. CASE n = 0
  <2>1. SubSeq(p, 1, 0) = <<>>
    BY SubSeqEmpty
  <2>2. QED
    BY <1>2, <2>1, EmptyPrefix
<1>3. CASE n # 0
  <2>1. /\ 1 \in 1..Len(Bytes) /\ Len(p) \in 1..Len(Bytes)
        /\ 1 \in 1..(Len(p) - 1 + 1) /\ n \in 1..(Len(p) - 1 + 1) /\ 1 + n - 1 = n
        /\ n \in 0..Size
    BY <1>1, <1>3, BytesSeq
  <2>2. SubSeq(SubSeq(Bytes, 1, Len(p)), 1, n) = SubSeq(Bytes, 1 + 1 - 1, 1 + n - 1)
    BY <2>1, BytesSeq, SubSeqOfSubSeq
  <2>3. SubSeq(p, 1, n) = Piece(0, n)
    BY <1>1, <2>1, <2>2 DEF Piece
  <2>4. p # <<>>
    BY <2>1
  <2>5. QED
    BY <2>1, <2>3, <2>4 DEF Prefixes
<1>4. QED
  BY <1>2, <1>3

-----------------------------------------------------------------------------
(* What handlers do to a row.                                               *)

\* Two rows with the same archive, of which as much is known to have gone wrong.
Alike(e, d) ==
    /\ e.full = d.full /\ e.fmeta = d.fmeta
    /\ e.moving = d.moving /\ e.stray = d.stray /\ e.flaws = d.flaws

\* The reply is as good as it was if nothing of what it is about changes.
LEMMA SameReply ==
  ASSUME NEW d, NEW e, ReplySound(d), e.net = d.net, e.part = d.part,
         e.pmeta \in {d.pmeta, "urls"},
         e.state = d.state \/ (e.state # "canceled" /\ d.state # "canceled")
  PROVE  ReplySound(e)
BY DEF ReplySound, BodySound, Begins

\* So is the row, with that reply or none.
LEMMA SamePartial ==
  ASSUME NEW d, NEW e \in Rows, Partial(d), e.net = d.net \/ e.net = NoReply,
         e.part = d.part, Alike(e, d), e.pmeta \in {d.pmeta, "urls"},
         \/ ~HasReply(e)
         \/ e.state = d.state
         \/ (e.state # "canceled" /\ d.state # "canceled")
  PROVE  Partial(e)
<1>1. ASSUME HasReply(e)
      PROVE  ReplySound(e)
  <2>1. HasReply(d) /\ e.net = d.net
    BY <1>1 DEF HasReply
  <2>2. ReplySound(d)
    BY <2>1 DEF Partial, Resumable
  <2>3. e.state = d.state \/ (e.state # "canceled" /\ d.state # "canceled")
    BY <1>1
  <2>4. QED
    BY <2>1, <2>2, <2>3, SameReply
<1>2. QED
  BY <1>1 DEF Partial, Resumable, Alike

\* createMetaFile, for any row and for one that has a partial file.
LEMMA RecordedIs ==
  ASSUME NEW d \in Rows, NEW f, NEW r, r = Recorded(d, f)
  PROVE  /\ r \in Rows /\ r.state = d.state /\ r.net = d.net /\ r.part = d.part
         /\ r.tries = d.tries /\ r.open = d.open /\ Alike(r, d)
         /\ r.pmeta \in {d.pmeta, "urls"} /\ ("meta" \notin f => r.pmeta = "urls")
<1>1. CASE "meta" \in f
  <2>1. r = d
    BY <1>1 DEF Recorded
  <2>2. QED
    BY <1>1, <2>1 DEF Alike
<1>2. CASE "meta" \notin f
  <2>1. ASSUME NEW b \in BOOLEAN, r = [d EXCEPT !.pmeta = "urls", !.held = b]
        PROVE  /\ r \in Rows /\ r.state = d.state /\ r.net = d.net /\ r.part = d.part
               /\ r.tries = d.tries /\ r.open = d.open /\ Alike(r, d) /\ r.pmeta = "urls"
    BY <2>1 DEF Rows, Alike
  <2>2. CASE d.state \in {"paused", "error"}
    <3>1. r = [d EXCEPT !.pmeta = "urls", !.held = TRUE]
      BY <1>2, <2>2 DEF Recorded
    <3>2. QED
      BY <2>1, <3>1
  <2>3. CASE d.state \notin {"paused", "error"}
    <3>1. r = [d EXCEPT !.pmeta = "urls", !.held = FALSE]
      <4>1. (d.state \in {"paused", "error"}) = FALSE
        BY <2>3
      <4>2. QED
        BY <1>2, <4>1 DEF Recorded
    <3>2. QED
      BY <2>1, <3>1
  <2>4. QED
    BY <2>2, <2>3
<1>3. QED
  BY <1>1, <1>2

LEMMA RecordedSound ==
  ASSUME NEW d, Partial(d), NEW f, NEW r \in {Recorded(d, f)}
  PROVE  /\ Partial(r) /\ r.state = d.state /\ r.net = d.net /\ r.part = d.part
         /\ r.tries = d.tries /\ (~d.open => ~r.open) /\ ("meta" \notin f => r.pmeta = "urls")
<1>1. d \in Rows
  BY DEF Partial, Resumable
<1>2. /\ r \in Rows /\ r.state = d.state /\ r.net = d.net /\ r.part = d.part
      /\ r.tries = d.tries /\ r.open = d.open /\ Alike(r, d)
      /\ r.pmeta \in {d.pmeta, "urls"} /\ ("meta" \notin f => r.pmeta = "urls")
  BY <1>1, RecordedIs
<1>3. QED
  BY <1>2, SamePartial

\* No download.
LEMMA AbsentGone == Absent \in Rows /\ Gone(Absent)
<1>1. Absent \in Rows
  BY DownloadsAssumption DEF Absent, Rows, States
<1>2. QED
  BY <1>1 DEF Gone, Still, WholeArchive, Exposed, Absent

\* What the log says of a row, and what it knows of its files.
LEMMA LoggedIs ==
  ASSUME NEW d \in Rows, NEW failed \in BOOLEAN, Exposed(d) => failed,
         NEW r, r = Logged(d, failed)
  PROVE  /\ r \in Rows /\ r.state = d.state /\ r.net = d.net /\ r.open = d.open
         /\ r.part = d.part /\ r.pmeta = d.pmeta /\ r.full = d.full /\ r.fmeta = d.fmeta
         /\ r.moving = d.moving /\ r.stray = d.stray
         /\ r.flaws \in {d.flaws, d.flaws \cup {"logged"}}
         /\ Exposed(r) => "logged" \in r.flaws
<1>1. PICK x : x = IF failed /\ Exposed(d) THEN d.flaws \cup {"logged"} ELSE d.flaws
  OBVIOUS
<1>2. x \in {d.flaws, d.flaws \cup {"logged"}} /\ x \in SUBSET Flaws
  BY <1>1 DEF Rows, Flaws
<1>3. r = [d EXCEPT !.flaws = x]
  BY <1>1 DEF Logged
<1>4. /\ r \in Rows /\ r.state = d.state /\ r.net = d.net /\ r.open = d.open
      /\ r.part = d.part /\ r.pmeta = d.pmeta /\ r.full = d.full /\ r.fmeta = d.fmeta
      /\ r.moving = d.moving /\ r.stray = d.stray /\ r.flaws = x
  BY <1>2, <1>3 DEF Rows
<1>5. Exposed(r) => "logged" \in r.flaws
  <2>1. Exposed(r) <=> Exposed(d)
    BY <1>4 DEF Exposed
  <2>2. QED
    BY <1>1, <1>4, <2>1
<1>6. QED
  BY <1>2, <1>4, <1>5

\* The files of a row.
LEMMA OnDiskIs ==
  ASSUME NEW d \in Rows, NEW r, r = OnDisk(d)
  PROVE  /\ r \in Rows /\ r.state = "none" /\ r.net = NoReply /\ ~r.open /\ ~r.moving
         /\ r.part = d.part /\ r.pmeta = d.pmeta /\ r.full = d.full /\ r.fmeta = d.fmeta
         /\ r.stray = d.stray /\ r.flaws = d.flaws
<1>1. /\ Absent \in Rows /\ Absent.state = "none" /\ Absent.net = NoReply
      /\ ~Absent.open /\ ~Absent.moving
  BY AbsentGone DEF Absent
<1> HIDE DEF Absent
<1>2. PICK x : x = [Absent EXCEPT !.part = d.part, !.pmeta = d.pmeta, !.full = d.full,
                                  !.fmeta = d.fmeta]
  OBVIOUS
<1>3. /\ x \in Rows /\ x.state = "none" /\ x.net = NoReply /\ ~x.open /\ ~x.moving
      /\ x.part = d.part /\ x.pmeta = d.pmeta /\ x.full = d.full /\ x.fmeta = d.fmeta
  BY <1>1, <1>2 DEF Rows
<1>4. r = [x EXCEPT !.key = d.key, !.bare = d.bare, !.held = d.held, !.stray = d.stray,
                    !.flaws = d.flaws]
  BY <1>1, <1>2 DEF OnDisk, Rows
<1>5. /\ r.state = x.state /\ r.net = x.net /\ r.open = x.open /\ r.moving = x.moving
      /\ r.part = x.part /\ r.pmeta = x.pmeta /\ r.full = x.full /\ r.fmeta = x.fmeta
      /\ r.stray = d.stray /\ r.flaws = d.flaws
  BY <1>3, <1>4 DEF Rows
<1>6. r \in Rows
  <2>1. /\ d.key \in BOOLEAN /\ d.bare \in BOOLEAN /\ d.held \in BOOLEAN
        /\ d.stray \in BOOLEAN /\ d.flaws \in SUBSET Flaws
    BY DEF Rows
  <2>2. QED
    BY <1>3, <1>4, <2>1 DEF Rows
<1>7. QED
  BY <1>3, <1>5, <1>6

\* A download that is discarded.  What cannot be removed can be resumed, or is logged.
LEMMA DiscardedGone ==
  ASSUME NEW d, Resumable(d), NEW f
  PROVE  Gone(Discarded(d, f))
<1>r. PICK r : r = Discarded(d, f)
  OBVIOUS
<1>1. /\ d \in Rows /\ d.part \in Prefixes /\ d.full = NoFile /\ d.fmeta = "none"
      /\ d.part # <<>> => d.pmeta = "urls" \/ "torn rename" \in d.flaws
  BY DEF Resumable
<1>2. CASE "remove" \in f
  <2>1. PICK x : x = OnDisk(d)
    OBVIOUS
  <2>2. /\ x \in Rows /\ x.state = "none" /\ x.net = NoReply /\ ~x.open /\ ~x.moving
        /\ x.part = d.part /\ x.pmeta = d.pmeta /\ x.full = NoFile /\ x.fmeta = "none"
        /\ x.flaws = d.flaws
    BY <1>1, <2>1, OnDiskIs
  <2>3. r = Logged(x, TRUE)
    BY <1>r, <1>2, <2>1 DEF Discarded
  <2>4. /\ r \in Rows /\ r.state = x.state /\ r.net = x.net /\ r.open = x.open
        /\ r.part = x.part /\ r.pmeta = x.pmeta /\ r.full = x.full /\ r.fmeta = x.fmeta
        /\ r.moving = x.moving /\ r.flaws \in {x.flaws, x.flaws \cup {"logged"}}
        /\ Exposed(r) => "logged" \in r.flaws
    BY <2>2, <2>3, LoggedIs
  <2>5. QED
    BY <1>r, <1>1, <2>2, <2>4 DEF Gone, Still, WholeArchive
<1>3. CASE "remove" \notin f /\ "retire" \in f
  <2>1. PICK x : x = [Absent EXCEPT !.full = NoFile, !.fmeta = "none", !.pmeta = d.pmeta,
                                    !.stray = d.stray]
    OBVIOUS
  <2>2. /\ x \in Rows /\ x.state = "none" /\ x.net = NoReply /\ ~x.open /\ ~x.moving
        /\ x.part = NoFile /\ x.full = NoFile /\ x.fmeta = "none"
    <3>1. /\ Absent \in Rows /\ Absent.state = "none" /\ Absent.net = NoReply
          /\ ~Absent.open /\ ~Absent.moving /\ Absent.part = NoFile
      BY AbsentGone DEF Absent
    <3> HIDE DEF Absent
    <3>2. QED
      BY <1>1, <2>1, <3>1 DEF Rows
  <2>3. r = Logged(x, TRUE)
    BY <1>r, <1>1, <1>3, <2>1 DEF Discarded
  <2>4. /\ r \in Rows /\ r.state = x.state /\ r.net = x.net /\ r.open = x.open
        /\ r.part = x.part /\ r.full = x.full /\ r.fmeta = x.fmeta /\ r.moving = x.moving
        /\ Exposed(r) => "logged" \in r.flaws
    BY <2>2, <2>3, LoggedIs
  <2>5. QED
    BY <1>r, <2>2, <2>4 DEF Gone, Still, WholeArchive
<1>4. CASE "remove" \notin f /\ "retire" \notin f
  <2>1. r = [Absent EXCEPT !.full = NoFile, !.fmeta = "none"]
    BY <1>r, <1>1, <1>4 DEF Discarded
  <2>2. r = Absent
    BY <2>1 DEF Absent
  <2>3. QED
    BY <1>r, <2>2, AbsentGone
<1>5. QED
  BY <1>2, <1>3, <1>4

\* abort() closes a reply and empties it.
LEMMA CutSound ==
  ASSUME NEW d, Partial(d), HasReply(d), NEW r \in {Cut(d)}
  PROVE  /\ Partial(r) /\ r.state = d.state /\ HasReply(r) /\ ~IsRunning(r)
         /\ r.net.wired = d.net.wired /\ r.net.bad = d.net.bad
         /\ r.part = d.part /\ r.tries = d.tries /\ (~d.open => ~r.open)
<1> DEFINE n == d.net
           m == [n EXCEPT !.end = "aborted", !.buf = <<>>]
<1>1. d \in Rows /\ n \in Replies /\ ReplySound(d) /\ <<>> \in Seq(1..Size) /\ Len(<<>>) = 0
  BY EmptySeq DEF Partial, Resumable, HasReply, Rows
<1>2. /\ m \in Replies /\ m.end = "aborted" /\ m.buf = <<>> /\ m.recorded = n.recorded
      /\ m.wired = n.wired /\ m.answer = n.answer /\ m.arrived = n.arrived /\ m.pos = n.pos
      /\ m.valid = n.valid /\ m.expected = n.expected /\ m.received = n.received
      /\ m.bad = n.bad
  BY <1>1 DEF Replies
<1>3. r = [d EXCEPT !.net = m]
  BY <1>1 DEF Cut, Rows
<1> HIDE DEF m
<1>4. /\ r \in Rows /\ r.net = m /\ r.state = d.state /\ r.part = d.part
      /\ r.pmeta = d.pmeta
      /\ Alike(r, d) /\ r.tries = d.tries /\ r.open = d.open
  BY <1>1, <1>2, <1>3 DEF Rows, Alike
<1>5. ReplySound(r)
  <2>1. Begins(m) = Begins(n)
    BY <1>2 DEF Begins
  <2>2. n.arrived <= Size - Begins(n) /\ 0 <= n.arrived
    <3>1. n.arrived \in 0..Size
      BY <1>1 DEF Replies
    <3>2. QED
      BY <1>1, <3>1, DownloadsAssumption DEF ReplySound
  <2>3. ~n.bad /\ d.state # "canceled" => BodySound(d)
    BY <1>1 DEF ReplySound
  <2>4. ~m.bad /\ r.state # "canceled" => BodySound(r)
    BY <1>2, <1>4, <2>1, <2>3 DEF BodySound
  <2>5. QED
    BY <1>1, <1>2, <1>4, <2>1, <2>2, <2>4 DEF ReplySound
<1>6. m # NoReply
  BY <1>2, SentinelAssumption
<1>7. QED
  BY <1>2, <1>4, <1>5, <1>6 DEF Partial, Resumable, HasReply, IsRunning, Alike

\* setState(STATE_PAUSED).
LEMMA PausedSound ==
  ASSUME NEW d, Partial(d), d.state # "canceled", NEW f, NEW r \in {Paused(d, f)}
  PROVE  /\ Partial(r) /\ r.state = "paused" /\ r.tries = d.tries /\ ~r.open
         /\ ~HasReply(d) => ~HasReply(r)
         /\ HasReply(d) /\ IsRunning(d) /\ d.net.wired => ~HasReply(r)
         /\ HasReply(r) => ~IsRunning(r) /\ (r.net.wired => d.net.wired /\ ~IsRunning(d))
<1> DEFINE p == [d EXCEPT !.state = "paused", !.open = FALSE]
<1>1. d \in Rows
  BY DEF Partial, Resumable
<1>2. /\ p \in Rows /\ p.state = "paused" /\ p.net = d.net /\ p.part = d.part
      /\ Alike(p, d) /\ p.pmeta = d.pmeta /\ p.tries = d.tries /\ ~p.open
  BY <1>1 DEF Rows, States, Alike
<1>3. r = IF ~IsRunning(d) THEN p
          ELSE IF d.net.wired THEN Retired(Recorded(p, f)) ELSE Cut(p)
  BY DEF Paused
<1> HIDE DEF p
<1>4. Partial(p)
  BY <1>2, SamePartial
<1>5. CASE ~IsRunning(d)
  BY <1>2, <1>3, <1>4, <1>5 DEF HasReply, IsRunning
<1>6. CASE IsRunning(d) /\ d.net.wired
  <2>1. PICK q \in {Recorded(p, f)} : TRUE
    OBVIOUS
  <2>2. Partial(q) /\ q.state = "paused" /\ q.tries = d.tries /\ q \in Rows /\ ~q.open
    <3>1. Partial(q) /\ q.state = p.state /\ q.tries = p.tries /\ ~q.open
      BY <1>2, <1>4, <2>1, RecordedSound
    <3>2. QED
      BY <1>2, <3>1 DEF Partial, Resumable
  <2>3. r = [q EXCEPT !.net = NoReply]
    BY <1>3, <1>6, <2>1 DEF Retired
  <2>4. /\ r \in Rows /\ r.net = NoReply /\ r.state = "paused" /\ r.part = q.part
        /\ Alike(r, q) /\ r.pmeta = q.pmeta /\ r.tries = d.tries /\ ~r.open
    BY <2>2, <2>3 DEF Rows, Alike
  <2>5. QED
    BY <2>2, <2>4, SamePartial DEF HasReply
<1>7. CASE IsRunning(d) /\ ~d.net.wired
  <2>1. r = Cut(p) /\ HasReply(p)
    BY <1>2, <1>3, <1>7 DEF IsRunning, HasReply
  <2>2. QED
    BY <1>2, <1>4, <1>7, <2>1, CutSound DEF IsRunning
<1>8. QED
  BY <1>5, <1>6, <1>7

\* A row in another state; a row whose reply is connected and will finish.
Into(d, state) == [d EXCEPT !.state = state]
Heard(d)       == IsRunning(d) /\ d.net.wired

\* setState(STATE_CANCELING) and setState(STATE_CANCELED).
LEMMA CanceledSound ==
  ASSUME NEW d \in Rows, NEW state \in States, Partial(Into(d, state)), NEW f,
         NEW r \in {Canceled(d, state, f)}
  PROVE  /\ Heard(d) => Gone(r)
         /\ ~Heard(d) => /\ Partial(r) /\ r.state = state /\ ~IsRunning(r)
                         /\ HasReply(r) <=> HasReply(d)
                         /\ Starting(r) <=> Starting(d)
<1>1. PICK c \in {Into(d, state)} : TRUE
  OBVIOUS
<1>2. c.state = state /\ c.net = d.net /\ Alike(c, d)
  BY <1>1 DEF Into, Rows, Alike
<1>3. r = IF ~IsRunning(d) THEN c ELSE IF d.net.wired THEN Discarded(c, f) ELSE Cut(c)
  BY <1>1 DEF Canceled, Into
<1>4. Partial(c) /\ Resumable(c)
  BY <1>1 DEF Partial
<1>5. CASE ~IsRunning(d)
  BY <1>2, <1>3, <1>4, <1>5 DEF HasReply, IsRunning, Heard, Starting
<1>6. CASE Heard(d)
  BY <1>3, <1>4, <1>6, DiscardedGone DEF Heard
<1>7. CASE IsRunning(d) /\ ~d.net.wired
  <2>1. r = Cut(c) /\ HasReply(c) /\ HasReply(d)
    BY <1>2, <1>3, <1>7 DEF IsRunning, HasReply
  <2>2. /\ Partial(r) /\ r.state = c.state /\ HasReply(r) /\ ~IsRunning(r)
        /\ r.net.wired = c.net.wired
    BY <1>4, <2>1, CutSound
  <2>3. QED
    BY <1>2, <1>7, <2>1, <2>2 DEF Heard, Starting
<1>8. QED
  BY <1>5, <1>6, <1>7 DEF Heard

\* A row of which only the reply changes, and the partial file.
LEMMA PartialWith ==
  ASSUME NEW d, Partial(d), NEW e \in Rows, Alike(e, d),
         e.pmeta \in {d.pmeta, "urls"}, e.part \in {d.part, <<>>}, ReplySound(e)
  PROVE  Partial(e)
BY EmptyPrefix DEF Partial, Resumable, Alike

\* validateDownloadResponse: afterwards the response is accepted or rejected.
LEMMA ValidatedSound ==
  ASSUME NEW d, Partial(d), HasReply(d), d.state # "canceled", NEW r \in {Validated(d)}
  PROVE  /\ Partial(r) /\ HasReply(r)
         /\ r.state = d.state /\ r.tries = d.tries /\ r.open = d.open /\ r.data = d.data
         /\ r.net.end = d.net.end /\ r.net.wired = d.net.wired /\ r.net.buf = d.net.buf
         /\ r.net.recorded = d.net.recorded /\ (r.net.bad \/ r.net.valid)
<1> DEFINE n == d.net
<1>1. d \in Rows /\ n \in Replies /\ n # NoReply /\ ReplySound(d) /\ Size \in Nat
  BY BytesSeq DEF Partial, Resumable, HasReply, Rows
<1>2. CASE n.bad \/ n.valid
  <2>1. r = d
    BY <1>2 DEF Validated
  <2>2. QED
    BY <1>2, <2>1
<1>3. ASSUME ~n.bad, ~n.valid,
             NEW m \in Replies, NEW p \in {d.part, <<>>},
             r = [d EXCEPT !.net = m, !.part = p],
             m.recorded = n.recorded, m.wired = n.wired, m.answer = n.answer,
             m.arrived = n.arrived, m.buf = n.buf, m.end = n.end, m.pos = n.pos,
             m.received = n.received, m.bad \/ m.valid,
             m.valid => m.answer \notin {"none", "refused"},
             ~m.bad => /\ m.answer \in {"whole", "unmeasured", "partial"}
                       /\ \/ m.expected = Size - Begins(n)
                          \/ m.answer = "unmeasured" /\ m.expected = Unmeasured
                       /\ p = Piece(0, Begins(n))
      PROVE  /\ Partial(r) /\ HasReply(r)
             /\ r.state = d.state /\ r.tries = d.tries /\ r.open = d.open /\ r.data = d.data
             /\ r.net.end = n.end /\ r.net.wired = n.wired /\ r.net.buf = n.buf
             /\ r.net.recorded = n.recorded /\ (r.net.bad \/ r.net.valid)
  <2>1. p \in Prefixes /\ p \in Seq(1..Size)
    BY EmptyPrefix, PrefixType DEF Partial, Resumable
  <2>2. /\ r \in Rows /\ r.net = m /\ r.part = p /\ r.state = d.state /\ r.tries = d.tries
        /\ r.open = d.open /\ r.data = d.data /\ Alike(r, d)
        /\ r.pmeta = d.pmeta
    BY <1>1, <1>3, <2>1 DEF Rows, Alike
  <2>3. Begins(m) = Begins(n)
    BY <1>3 DEF Begins
  <2>4. m # NoReply
    BY SentinelAssumption
  <2>5. BodySound(d) /\ n.received = 0 /\ Begins(n) \in 0..Size /\ n.arrived \in 0..Size
    <3>1. BodySound(d)
      BY <1>1, <1>3 DEF ReplySound
    <3>2. n.pos \in 0..Size /\ n.arrived \in 0..Size
      BY <1>1 DEF Replies
    <3>3. QED
      BY <1>1, <1>3, <3>1, <3>2 DEF BodySound, Begins
  <2>6. ~m.bad => BodySound(r)
    <3>1. SUFFICES ASSUME ~m.bad
                   PROVE  BodySound(r)
      OBVIOUS
    <3>2. Begins(n) + n.received = Begins(n) /\ n.received <= n.arrived
      BY <2>5
    <3>3. n.end # "aborted" => n.buf = Piece(Begins(n) + n.received, Begins(n) + n.arrived)
      BY <2>5 DEF BodySound
    <3>4. r.part = Piece(0, Begins(n) + n.received)
      BY <1>3, <2>2, <3>1, <3>2
    <3>5. m.valid
      BY <1>3, <3>1
    <3>6. QED
      BY <1>3, <2>2, <2>3, <3>1, <3>2, <3>3, <3>4, <3>5 DEF BodySound
  <2>7. ReplySound(r)
    BY <1>1, <1>3, <2>2, <2>3, <2>6 DEF ReplySound
  <2>8. QED
    BY ZenonT(90), <1>3, <2>2, <2>4, <2>7, PartialWith DEF HasReply
<1>4. CASE ~n.bad /\ ~n.valid
  <2>1. Len(d.part) = n.pos /\ d.part = Piece(0, n.pos) /\ n.pos \in 0..Size
    <3>1. BodySound(d)
      BY <1>1, <1>4 DEF ReplySound
    <3>2. d.part = Piece(0, Len(d.part))
      BY PrefixType DEF Partial, Resumable
    <3>3. n.pos \in 0..Size
      BY <1>1 DEF Replies
    <3>4. QED
      BY <1>4, <3>1, <3>2, <3>3 DEF BodySound
  <2>2. CASE n.answer \in {"whole", "unmeasured"} /\ n.pos > 0 /\ ~d.open
    <3>1. PICK m \in {[n EXCEPT !.bad = TRUE]} : TRUE
      OBVIOUS
    <3>2. /\ m \in Replies /\ m.bad /\ m.recorded = n.recorded /\ m.wired = n.wired
          /\ m.answer = n.answer /\ m.arrived = n.arrived /\ m.buf = n.buf /\ m.end = n.end
          /\ m.pos = n.pos /\ m.received = n.received /\ m.valid = n.valid
      BY <1>1, <3>1 DEF Replies
    <3>3. r = [d EXCEPT !.net = m, !.part = <<>>]
      <4>1. r = [Failed(d) EXCEPT !.part = <<>>]
        <5>1. ~(n.bad \/ n.valid)
          BY <1>4
        <5>2. n.answer # "partial"
          BY <2>2
        <5>3. ~(n.answer \in {"whole", "unmeasured"} /\ (n.pos = 0 \/ d.open))
          BY <2>1, <2>2
        <5>4. QED
          BY ZenonT(60), <2>2, <5>1, <5>2, <5>3 DEF Validated
      <4>2. QED
        BY <1>1, <3>1, <4>1 DEF Failed, Rows
    <3>4. QED
      BY <1>3, <1>4, <3>2, <3>3
  <2>3. CASE n.answer \in {"whole", "unmeasured"} /\ (n.pos = 0 \/ d.open)
    <3>0. PICK x \in {Size, Unmeasured} :
             x = IF n.answer = "whole" THEN Size ELSE Unmeasured
      OBVIOUS
    <3>1. PICK m \in {[n EXCEPT !.valid = TRUE, !.expected = x]} : TRUE
      OBVIOUS
    <3>2. /\ m \in Replies /\ m.valid /\ m.recorded = n.recorded /\ m.wired = n.wired
          /\ m.answer = n.answer /\ m.arrived = n.arrived /\ m.buf = n.buf /\ m.end = n.end
          /\ m.pos = n.pos /\ m.received = n.received /\ m.expected = x
      <4>1. x \in 0..Size \cup {Unmeasured}
        BY BytesSeq
      <4>2. QED
        BY <1>1, <3>1, <4>1 DEF Replies
    <3>3. PICK p \in {IF n.pos > 0 THEN <<>> ELSE d.part} : TRUE
      OBVIOUS
    <3>4. r = [d EXCEPT !.net = m, !.part = p]
      <4>1. ~(n.pos > 0 /\ ~d.open)
        BY <2>1, <2>3
      <4>2. r = [d EXCEPT !.part = IF n.pos > 0 THEN <<>> ELSE @, !.net.valid = TRUE,
                          !.net.expected = IF n.answer = "whole" THEN Size ELSE Unmeasured]
        BY <1>4, <2>3, <4>1 DEF Validated
      <4>3. QED
        BY <1>1, <3>0, <3>1, <3>3, <4>2 DEF Rows
    <3>5. Begins(n) = 0 /\ p = Piece(0, 0) /\ p \in {d.part, <<>>} /\ Size - 0 = Size
      BY <1>1, <2>1, <2>3, <3>3, PieceEnds DEF Begins
    <3>6. m.expected = Size - Begins(n) \/ (m.answer = "unmeasured" /\ m.expected = Unmeasured)
      BY <2>3, <3>0, <3>2, <3>5
    <3>7. QED
      BY <1>3, <1>4, <2>3, <3>2, <3>4, <3>5, <3>6
  <2>4. CASE n.answer = "partial"
    <3>1. PICK m \in {[n EXCEPT !.valid = TRUE, !.expected = Size - n.pos]} : TRUE
      OBVIOUS
    <3>2. /\ m \in Replies /\ m.valid /\ m.recorded = n.recorded /\ m.wired = n.wired
          /\ m.answer = n.answer /\ m.arrived = n.arrived /\ m.buf = n.buf /\ m.end = n.end
          /\ m.pos = n.pos /\ m.received = n.received /\ m.expected = Size - n.pos
      <4>1. Size - n.pos \in 0..Size
        BY <2>1, BytesSeq
      <4>2. QED
        BY <1>1, <3>1, <4>1 DEF Replies
    <3>3. r = [d EXCEPT !.net = m, !.part = d.part]
      BY <1>1, <1>4, <2>1, <2>4, <3>1 DEF Validated, Rows
    <3>4. Begins(n) = n.pos
      BY <2>4 DEF Begins
    <3>5. QED
      BY <1>3, <1>4, <2>1, <2>4, <3>2, <3>3, <3>4
  <2>5. CASE n.answer \notin {"whole", "unmeasured", "partial"}
    <3>1. PICK m \in {[n EXCEPT !.bad = TRUE]} : TRUE
      OBVIOUS
    <3>2. /\ m \in Replies /\ m.bad /\ m.recorded = n.recorded /\ m.wired = n.wired
          /\ m.answer = n.answer /\ m.arrived = n.arrived /\ m.buf = n.buf /\ m.end = n.end
          /\ m.pos = n.pos /\ m.received = n.received /\ m.valid = n.valid
      BY <1>1, <3>1 DEF Replies
    <3>3. r = [d EXCEPT !.net = m, !.part = d.part]
      BY ZenonT(90), <1>1, <1>4, <2>5, <3>1 DEF Validated, Failed, Rows
    <3>4. QED
      BY <1>3, <1>4, <3>2, <3>3
  <2>6. QED
    BY <2>1, <2>2, <2>3, <2>4, <2>5
<1>5. QED
  BY <1>2, <1>4

\* writeData: what is buffered is appended; a short write discards a download whose reply
\* is running, and leaves one that has finished to downloadFinished.
LEMMA WrittenSound ==
  ASSUME NEW d, Partial(d), IsOpen(d), d.net.wired, d.state # "canceled", NEW f,
         NEW r \in {Written(d, f)}
  PROVE  \/ Gone(r) /\ IsRunning(d)
         \/ /\ Partial(r) /\ HasReply(r) /\ ~Starting(r)
            /\ IsRunning(r) <=> IsRunning(d)
            /\ r.state = d.state \/ (r.state = "canceled" /\ ~IsRunning(d))
<1>1. PICK v \in {Validated(d)} : TRUE
  OBVIOUS
<1>2. /\ Partial(v) /\ HasReply(v) /\ v.state = d.state /\ v.net.end = d.net.end
      /\ v.net.wired /\ v.net.end # "aborted" /\ (v.net.bad \/ v.net.valid)
      /\ IsRunning(v) <=> IsRunning(d)
  BY <1>1, ValidatedSound DEF IsOpen, HasReply, IsRunning
<1> DEFINE n == v.net
<1>3. /\ v \in Rows /\ n \in Replies /\ ReplySound(v) /\ n # NoReply
      /\ <<>> \in Seq(1..Size)
      /\ v.pmeta = "urls"
  BY <1>2, EmptySeq DEF Partial, Resumable, HasReply, ReplySound, Rows
<1>4. n.arrived \in 0..Size /\ n.received \in 0..Size /\ n.pos \in 0..Size /\ n.buf \in Seq(1..Size)
  BY <1>3 DEF Replies
<1>5. CASE n.bad
  <2>1. r = v
    BY <1>1, <1>5 DEF Written
  <2>2. QED
    BY <1>2, <2>1 DEF Starting
<1>6. ASSUME ~n.bad
      PROVE  /\ n.valid /\ n.answer \in {"whole", "unmeasured", "partial"}
             /\ \/ n.expected = Size - Begins(n)
                \/ n.answer = "unmeasured" /\ n.expected = Unmeasured
             /\ n.received <= n.arrived /\ n.arrived <= Size - Begins(n)
             /\ v.part = Piece(0, Begins(n) + n.received)
             /\ n.buf = Piece(Begins(n) + n.received, Begins(n) + n.arrived)
             /\ Begins(n) \in 0..Size
  <2>1. BodySound(v) /\ n.arrived <= Size - Begins(n)
    BY <1>2, <1>3, <1>6 DEF ReplySound
  <2>2. Begins(n) \in 0..Size
    BY <1>4, BytesSeq DEF Begins
  <2>3. n.valid
    BY <1>2, <1>6
  <2>4. QED
    BY <1>2, <2>1, <2>2, <2>3 DEF BodySound
<1>7. CASE ~n.bad /\ v.open /\ ("disk" \notin f \/ n.buf = <<>>)
  <2> DEFINE a == Begins(n) + n.received
             b == Begins(n) + n.arrived
  <2>1. a \in 0..Size /\ b \in a..Size /\ 0 \in 0..Size /\ a \in 0..Size
    <3>1. PICK k \in {Begins(n)} : TRUE
      OBVIOUS
    <3>2. k \in 0..Size /\ n.received <= n.arrived /\ n.arrived <= Size - k
      BY <1>6, <1>7, <3>1
    <3>3. /\ k + n.received \in 0..Size /\ k + n.arrived \in (k + n.received)..Size
          /\ 0 \in 0..Size /\ 0 \in 0..(k + n.received)
          /\ k + n.received \in 0..(k + n.received)
      <4>1. Size \in Nat /\ k \in Nat /\ n.received \in Nat /\ n.arrived \in Nat
        BY <1>4, <3>2, BytesSeq
      <4>2. QED
        BY <3>2, <4>1
    <3>4. QED
      BY <3>1, <3>3
  <2>2. Len(n.buf) = n.arrived - n.received /\ n.received + Len(n.buf) = n.arrived
    <3> HIDE DEF a, b
    <3>1. Len(n.buf) = b - a
      BY <1>6, <1>7, <2>1, PieceType DEF a, b
    <3>2. QED
      BY <1>4, <1>6, <1>7, <3>1 DEF a, b
  <2>3. v.part \o n.buf = Piece(0, b) /\ Piece(0, b) \in Prefixes
    <3>1. v.part \o n.buf = Piece(0, a) \o Piece(a, b)
      BY <1>6, <1>7
    <3> HIDE DEF a, b
    <3>2. b \in 0..Size
      BY <2>1, BytesSeq
    <3>3. Piece(0, a) \o Piece(a, b) = Piece(0, b)
      BY <2>1, PieceJoined
    <3>4. QED
      BY <3>1, <3>2, <3>3 DEF Prefixes
  <2>4. PICK p \in {Piece(0, b)} : TRUE
    OBVIOUS
  <2>5. p \in Prefixes /\ p \in Seq(1..Size)
    BY <2>3, <2>4, PrefixType
  <2>6. PICK m \in {[n EXCEPT !.buf = <<>>, !.received = n.arrived]} : TRUE
    OBVIOUS
  <2>7. /\ m \in Replies /\ m.bad = n.bad /\ m.valid = n.valid /\ m.recorded = n.recorded
        /\ m.wired = n.wired /\ m.answer = n.answer /\ m.arrived = n.arrived /\ m.buf = <<>>
        /\ m.end = n.end /\ m.pos = n.pos /\ m.received = n.arrived
        /\ m.expected = n.expected
    BY <1>3, <1>4, <2>6 DEF Replies
  <2>8. r = [v EXCEPT !.part = p, !.net = m]
    <3>1. r = [v EXCEPT !.part = @ \o v.net.buf, !.net.buf = <<>>,
                        !.net.received = @ + Len(v.net.buf)]
      BY <1>1, <1>7 DEF Written
    <3>2. r = [v EXCEPT !.part = p, !.net.buf = <<>>, !.net.received = n.arrived]
      BY <1>3, <2>2, <2>3, <2>4, <3>1 DEF Rows, Replies
    <3>3. QED
      BY <1>3, <2>6, <3>2 DEF Rows
  <2>9. /\ r \in Rows /\ r.net = m /\ r.part = p /\ r.state = v.state /\ Alike(r, v)
        /\ r.pmeta = v.pmeta
    BY <1>3, <2>5, <2>7, <2>8 DEF Rows, Alike
  <2>10. Begins(m) = Begins(n)
    BY <2>7 DEF Begins
  <2>11. BodySound(r)
    <3>1. m.buf = Piece(Begins(m) + m.received, Begins(m) + m.arrived)
      BY <2>1, <2>7, <2>10, PieceEnds
    <3>2. r.part = Piece(0, Begins(m) + m.received)
      BY <2>4, <2>7, <2>9, <2>10
    <3>3. /\ m.received <= m.arrived /\ m.valid
          /\ m.answer \in {"whole", "unmeasured", "partial"}
          /\ \/ m.expected = Size - Begins(m)
             \/ m.answer = "unmeasured" /\ m.expected = Unmeasured
      BY <1>4, <1>6, <1>7, <2>7, <2>10
    <3>4. QED
      BY <2>9, <3>1, <3>2, <3>3 DEF BodySound
  <2>12. ReplySound(r)
    <3>1. Len(m.buf) <= m.arrived /\ m.arrived <= Size - Begins(m)
      BY <1>4, <1>6, <1>7, <2>7, <2>10, EmptySeq
    <3>2. m.answer \notin {"none", "refused"} /\ m.buf = <<>> /\ r.state # "canceled"
      BY <1>2, <1>6, <1>7, <2>7, <2>9
    <3>3. r.pmeta = "urls" /\ (m.wired => m.recorded)
      BY <1>3, <2>7, <2>9 DEF ReplySound
    <3>4. QED
      BY <2>9, <2>11, <3>1, <3>2, <3>3 DEF ReplySound
  <2>13. Partial(r)
    BY <1>2, <1>3, <2>5, <2>9, <2>12 DEF Partial, Resumable, Alike
  <2>14. m # NoReply
    BY <2>7, SentinelAssumption
  <2>15. QED
    BY <1>2, <2>7, <2>9, <2>13, <2>14 DEF HasReply, IsRunning, Starting
<1>8. CASE ~n.bad /\ ~(v.open /\ ("disk" \notin f \/ n.buf = <<>>))
  <2>1. PICK m \in {[n EXCEPT !.buf = <<>>]} : TRUE
    OBVIOUS
  <2>2. /\ m \in Replies /\ m.bad = n.bad /\ m.valid = n.valid /\ m.recorded = n.recorded
        /\ m.wired = n.wired /\ m.answer = n.answer /\ m.arrived = n.arrived /\ m.buf = <<>>
        /\ m.end = n.end /\ m.pos = n.pos /\ m.received = n.received
    BY <1>3, <2>1 DEF Replies
  <2>3. PICK u \in {[v EXCEPT !.net = m]} : TRUE
    OBVIOUS
  <2>4. /\ u \in Rows /\ u.net = m /\ u.part = v.part /\ Alike(u, v)
        /\ u.pmeta = v.pmeta
    BY <1>3, <2>2, <2>3 DEF Rows, Alike
  <2>5. r = Canceled(u, "canceled", f)
    <3>1. u = [v EXCEPT !.net.buf = <<>>]
      BY <1>3, <2>1, <2>3 DEF Rows
    <3>2. QED
      BY <1>1, <1>8, <3>1 DEF Written
  <2>6. PICK c \in {[u EXCEPT !.state = "canceled"]} : TRUE
    OBVIOUS
  <2>7. /\ c \in Rows /\ c.net = m /\ c.part = v.part /\ Alike(c, v)
        /\ c.pmeta = v.pmeta /\ c.state = "canceled" /\ "canceled" \in States
    BY <2>4, <2>6 DEF Rows, States, Alike
  <2>8. ReplySound(c)
    <3>1. Begins(m) = Begins(n)
      BY <2>2 DEF Begins
    <3>2. Len(m.buf) <= m.arrived /\ m.arrived <= Size - Begins(m)
      BY <1>4, <1>6, <1>8, <2>2, <3>1, EmptySeq
    <3>3. m.answer \notin {"none", "refused"} /\ m.valid
      BY <1>6, <1>8, <2>2
    <3>4. c.pmeta = "urls" /\ (m.wired => m.recorded)
      BY <1>3, <2>2, <2>7 DEF ReplySound
    <3>5. QED
      BY <2>2, <2>7, <3>2, <3>3, <3>4 DEF ReplySound
  <2>9. Partial(c)
    BY <1>2, <2>7, <2>8 DEF Partial, Resumable, Alike
  <2>10. /\ c = Into(u, "canceled") /\ r \in {Canceled(u, "canceled", f)}
         /\ HasReply(u) /\ u.net.wired
         /\ IsRunning(u) <=> IsRunning(d)
    BY <1>2, <2>2, <2>4, <2>5, <2>6, SentinelAssumption DEF HasReply, IsRunning, Into
  <2>11. /\ Heard(u) => Gone(r)
         /\ ~Heard(u) => /\ Partial(r) /\ r.state = "canceled" /\ ~IsRunning(r)
                         /\ HasReply(r) <=> HasReply(u)
                         /\ Starting(r) <=> Starting(u)
    BY <2>4, <2>7, <2>9, <2>10, CanceledSound
  <2>12. QED
    BY <2>10, <2>11 DEF Heard, Starting
<1>9. QED
  BY <1>5, <1>7, <1>8

\* Nothing is written for a download whose output was lost.
LEMMA WrittenLost ==
  ASSUME NEW d, Partial(d), HasReply(d), ~IsRunning(d), d.state = "canceled", NEW f
  PROVE  Written(d, f) = d
<1>1. d \in Rows /\ d.net \in Replies /\ d.net.valid /\ d.net.buf = <<>> /\ d.part \in Seq(1..Size)
  BY PrefixType DEF Partial, Resumable, HasReply, Rows, ReplySound
<1>2. Validated(d) = d
  BY <1>1 DEF Validated
<1>3. d = [d EXCEPT !.net.buf = <<>>]
  BY ZenonT(90), <1>1 DEF Rows, Replies
<1>4. d = [d EXCEPT !.part = @ \o d.net.buf, !.net.buf = <<>>, !.net.received = @ + Len(d.net.buf)]
  <2>1. d.part \o <<>> = d.part
    BY <1>1, ConcatEmptySeq
  <2>2. d.net.received \in 0..Size
    BY <1>1 DEF Replies
  <2>3. d.net.received + Len(<<>>) = d.net.received
    BY <2>2, EmptySeq
  <2>4. [d EXCEPT !.part = @ \o d.net.buf, !.net.buf = <<>>,
                  !.net.received = @ + Len(d.net.buf)] =
        [d EXCEPT !.part = d.part, !.net.buf = <<>>, !.net.received = d.net.received]
    BY <1>1, <2>1, <2>3 DEF Rows, Replies
  <2>5. d = [d EXCEPT !.part = d.part, !.net.buf = <<>>, !.net.received = d.net.received]
    BY ZenonT(90), <1>1 DEF Rows, Replies
  <2>6. QED
    BY <2>4, <2>5
<1>5. Canceled(d, "canceled", f) = d
  BY <1>1 DEF Canceled, Rows
<1>6. QED
  BY <1>1, <1>2, <1>3, <1>4, <1>5 DEF Written

\* Handlers that are done with a reply leave a sound row.
LEMMA OutcomeServed == ASSUME NEW d, Outcome(d) PROVE Served(d)
<1>1. CASE Gone(d)
  BY <1>1 DEF Served
<1>2. CASE Partial(d) /\ d.state \in {"paused", "error"} /\ ~HasReply(d)
           /\ (d.state = "paused" => ~d.open)
  <2>1. CASE d.state = "paused"
    BY <1>2, <2>1 DEF Served, RowSound, Active
  <2>2. CASE d.state = "error"
    BY <1>2, <2>2 DEF Served, RowSound, Active
  <2>3. QED
    BY <1>2, <2>1, <2>2
<1>3. CASE Partial(d) /\ d.state = "downloading" /\ Starting(d) /\ IsRunning(d)
  BY <1>3 DEF Served, RowSound, Active, Starting
<1>4. CASE Partial(d) /\ d.state = "finished" /\ Received(d)
  BY <1>4 DEF Served, RowSound, Active
<1>5. QED
  BY <1>1, <1>2, <1>3, <1>4 DEF Outcome

\* The request for the bytes after the partial file, or for all of them.
LEMMA RequestSound ==
  ASSUME NEW d, Resumable(d), ~d.moving, d.stray => "logged" \in d.flaws,
         NEW ranged \in BOOLEAN, NEW f,
         NEW r \in {Recorded([d EXCEPT !.net = Request(ranged, Len(d.part), "meta" \notin f),
                                       !.state = "downloading", !.open = TRUE], f)}
  PROVE  Partial(r) /\ r.state = "downloading" /\ Starting(r) /\ IsRunning(r)
<1>0. PICK b \in BOOLEAN : b = ("meta" \notin f)
  OBVIOUS
<1>1. PICK n : n = Request(ranged, Len(d.part), b)
  OBVIOUS
<1>1a. d \in Rows /\ d.part \in Prefixes
  BY DEF Resumable
<1>2. /\ Len(d.part) \in 0..Size /\ d.part \in Seq(1..Size)
      /\ d.part = Piece(0, Len(d.part))
      /\ 0 \in 0..Size /\ <<>> \in Seq(1..Size) /\ Len(<<>>) = 0 /\ 0 <= Size - 0
  BY <1>1a, PrefixType, BytesSeq, EmptySeq
<1>3. n \in Replies
  BY <1>1, <1>2 DEF Request, Replies
<1>4. /\ n.pos = Len(d.part) /\ n.recorded = b /\ n.answer = "none"
      /\ n.arrived = 0 /\ n.buf = <<>> /\ n.end = "running" /\ ~n.wired /\ ~n.valid
      /\ n.received = 0 /\ n # NoReply
  BY <1>1, <1>3, SentinelAssumption DEF Request
<1>5. PICK e : e = [d EXCEPT !.net = n, !.state = "downloading", !.open = TRUE]
  OBVIOUS
<1>6. /\ e \in Rows /\ e.net = n /\ e.state = "downloading" /\ e.part = d.part
      /\ Alike(e, d) /\ e.pmeta = d.pmeta
  <2>1. "downloading" \in States
    BY DEF States, Active
  <2>2. e \in Rows
    BY <1>1a, <1>3, <1>5, <2>1 DEF Rows
  <2>3. /\ e.net = n /\ e.state = "downloading" /\ e.part = d.part /\ e.pmeta = d.pmeta
        /\ e.full = d.full /\ e.fmeta = d.fmeta /\ e.moving = d.moving
        /\ e.stray = d.stray /\ e.flaws = d.flaws
    BY <1>1a, <1>5 DEF Rows
  <2>4. QED
    BY <2>2, <2>3 DEF Alike
<1>7. r = Recorded(e, f)
  BY <1>0, <1>1, <1>5
<1>8. /\ r \in Rows /\ r.net = n /\ r.state = "downloading" /\ r.part = d.part
      /\ Alike(r, d) /\ r.pmeta \in {d.pmeta, "urls"} /\ ("meta" \notin f => r.pmeta = "urls")
  <2>1. /\ r \in Rows /\ r.state = e.state /\ r.net = e.net /\ r.part = e.part
        /\ Alike(r, e) /\ r.pmeta \in {e.pmeta, "urls"}
        /\ "meta" \notin f => r.pmeta = "urls"
    BY ZenonT(60), <1>6, <1>7, RecordedIs
  <2>2. QED
    BY <1>6, <2>1 DEF Alike
<1>9. ReplySound(r)
  <2>1. Begins(n) = 0 /\ 0 + 0 = 0 /\ Piece(0, 0) = <<>>
    BY <1>2, <1>4, PieceEnds DEF Begins
  <2>2. BodySound(r)
    BY <1>4, <1>8, <2>1 DEF BodySound
  <2>3. n.recorded => r.pmeta = "urls"
    BY <1>0, <1>4, <1>8
  <2>4. QED
    BY <1>2, <1>4, <1>8, <2>1, <2>2, <2>3 DEF ReplySound
<1>10. QED
  BY <1>4, <1>8, <1>9 DEF Partial, Resumable, Alike, HasReply, Starting, IsRunning

\* resumeDownloadInt, with what startDownload does before its event loop.
LEMMA RequestedSound ==
  ASSUME NEW d, Partial(d), ~HasReply(d), d.state \in {"paused", "error"},
         d.state = "paused" => ~d.open, NEW f
  PROVE  Outcome(Requested(d, f))
<1>1. CASE ~d.urls
  BY <1>1 DEF Requested, Outcome
<1>2. CASE d.urls
  <2>1. PICK b \in BOOLEAN : b = (d.state # "error")
    OBVIOUS
  <2>2. PICK r \in {Requested(d, f)} : TRUE
    OBVIOUS
  <2>3. r \in {Recorded([d EXCEPT !.net = Request(b, Len(d.part), "meta" \notin f),
                                  !.state = "downloading", !.open = TRUE], f)}
    BY <1>2, <2>1, <2>2 DEF Requested
  <2>4. Resumable(d) /\ ~d.moving /\ (d.stray => "logged" \in d.flaws)
    BY DEF Partial
  <2>5. Partial(r) /\ r.state = "downloading" /\ Starting(r) /\ IsRunning(r)
    BY <2>3, <2>4, RequestSound
  <2>6. QED
    BY <2>2, <2>5 DEF Outcome
<1>3. QED
  BY <1>1, <1>2

\* Another try.
LEMMA RetriedSound ==
  ASSUME NEW d, Partial(d), ~HasReply(d), d.state \in {"paused", "error"}, d.tries # 0,
         d.state = "paused" => ~d.open, NEW f
  PROVE  Outcome(Retried(d, f))
<1>1. PICK t \in {[d EXCEPT !.tries = @ - 1]} : TRUE
  OBVIOUS
<1>2. d \in Rows /\ d.tries - 1 \in 0..Retries
  <2>1. d \in Rows /\ d.tries \in 0..Retries
    BY DEF Partial, Resumable, Rows
  <2>2. QED
    BY <2>1, DownloadsAssumption
<1>3. /\ t \in Rows /\ t.net = d.net /\ t.state = d.state /\ t.part = d.part
      /\ Alike(t, d) /\ t.pmeta = d.pmeta /\ t.open = d.open
  BY <1>1, <1>2 DEF Rows, Alike
<1>4. Partial(t) /\ ~HasReply(t)
  BY <1>3, SamePartial DEF HasReply
<1>4a. t.state = "paused" => ~t.open
  BY <1>3
<1>5. Retried(d, f) = IF suppressed THEN t ELSE Requested(t, f)
  BY <1>1 DEF Retried
<1>6. CASE suppressed
  BY <1>3, <1>4, <1>4a, <1>5, <1>6 DEF Outcome
<1>7. CASE ~suppressed
  BY <1>3, <1>4, <1>4a, <1>5, <1>7, RequestedSound
<1>8. QED
  BY <1>6, <1>7

\* deleteLater for a reply that has finished.
LEMMA RetiredSound ==
  ASSUME NEW d, Partial(d), NEW r \in {Retired(d)}
  PROVE  /\ Partial(r) /\ ~HasReply(r) /\ r.state = d.state /\ r.tries = d.tries
         /\ ~d.open => ~r.open
<1>1. d \in Rows /\ r = [d EXCEPT !.net = NoReply]
  BY DEF Partial, Resumable, Retired
<1>2. /\ r \in Rows /\ r.net = NoReply /\ r.state = d.state /\ r.part = d.part
      /\ Alike(r, d) /\ r.pmeta = d.pmeta /\ r.tries = d.tries /\ r.open = d.open
  BY <1>1 DEF Rows, Alike
<1>3. QED
  BY <1>2, SamePartial DEF HasReply

\* A row with its output closed.
Closed(d) == [d EXCEPT !.open = FALSE]

\* It has what it had otherwise.
LEMMA ClosedSound ==
  ASSUME NEW d, Partial(d), NEW r, r = Closed(d)
  PROVE  /\ Partial(r) /\ r.state = d.state /\ r.net = d.net /\ r.tries = d.tries
         /\ r.part = d.part /\ r.pmeta = d.pmeta
         /\ (HasReply(r) <=> HasReply(d)) /\ (IsRunning(r) <=> IsRunning(d))
         /\ (Starting(r) <=> Starting(d))
<1>1. d \in Rows
  BY DEF Partial, Resumable
<1>2. /\ r \in Rows /\ r.net = d.net /\ r.state = d.state /\ r.part = d.part
      /\ Alike(r, d) /\ r.pmeta = d.pmeta /\ r.tries = d.tries
  BY <1>1 DEF Rows, Closed, Alike
<1>3. QED
  BY <1>2, SamePartial DEF HasReply, IsRunning, Starting

\* A row in another state that is not that of a lost output.
LEMMA IntoSound ==
  ASSUME NEW d, Partial(d), d.state # "canceled",
         NEW state \in States, state # "canceled", NEW r, r = Into(d, state)
  PROVE  /\ Partial(r) /\ r.state = state /\ r.net = d.net /\ r.tries = d.tries
         /\ r.part = d.part /\ r.pmeta = d.pmeta /\ r.data = d.data
         /\ (HasReply(r) <=> HasReply(d)) /\ (IsRunning(r) <=> IsRunning(d))
         /\ (Starting(r) <=> Starting(d)) /\ (IsOpen(r) <=> IsOpen(d))
<1>1. d \in Rows
  BY DEF Partial, Resumable
<1>2. /\ r \in Rows /\ r.net = d.net /\ r.state = state /\ r.part = d.part
      /\ Alike(r, d) /\ r.pmeta = d.pmeta /\ r.tries = d.tries
      /\ r.data = d.data
  BY <1>1 DEF Rows, Into, Alike
<1>3. QED
  BY <1>2, SamePartial DEF HasReply, IsRunning, Starting, IsOpen

\* A reply that is accepted and has brought all it announced has brought the whole file.
LEMMA CompleteIsWhole ==
  ASSUME NEW d, Partial(d), HasReply(d), ~Starting(d), d.state # "canceled", ~Failure(d)
  PROVE  Received(d)
<1> DEFINE n == d.net
<1>1. n \in Replies /\ ReplySound(d)
  BY DEF Partial, Resumable, HasReply, Rows
<1>2. n.valid /\ ~n.bad /\ (n.expected >= 0 => n.received = n.expected)
  BY DEF Failure
<1>3. /\ n.expected = Size - Begins(n) \/ n.expected = Unmeasured
      /\ d.part = Piece(0, Begins(n) + n.received)
  BY <1>1, <1>2 DEF ReplySound, BodySound
<1>4. Begins(n) \in 0..Size
  <2>1. n.pos \in 0..Size
    BY <1>1 DEF Replies
  <2>2. 0 \in 0..Size
    BY BytesSeq
  <2>3. QED
    BY <2>1, <2>2 DEF Begins
<1>5. n.expected # Unmeasured => Begins(n) + n.received = Size
  BY <1>2, <1>3, <1>4, BytesSeq
<1>6. n.expected # Unmeasured => d.part = Bytes
  BY <1>3, <1>5, PieceEnds
<1>7. d.pmeta = "urls"
  BY <1>1 DEF ReplySound, Starting
<1>8. QED
  BY <1>6, <1>7 DEF Received

\* downloadFinished, up to the publication.
LEMMA FinishedSound ==
  ASSUME NEW d, Partial(d), HasReply(d), ~Starting(d), ~IsRunning(d),
         d.state \in {"downloading", "pausing", "canceling", "canceled", "paused"}, NEW f
  PROVE  Outcome(Finished(d, f))
<1> DEFINE held == {"canceling", "canceled", "pausing", "paused"}
<1>1. PICK v \in {IF d.state \in held THEN d ELSE Validated(d)} : TRUE
  OBVIOUS
<1>2. Partial(v) /\ HasReply(v) /\ ~Starting(v) /\ ~IsRunning(v) /\ v.state = d.state
  <2>1. CASE d.state \in held
    BY <1>1, <2>1
  <2>2. CASE d.state \notin held
    <3>1. /\ Partial(v) /\ HasReply(v) /\ v.state = d.state /\ v.net.wired = d.net.wired
          /\ v.net.end = d.net.end
      BY <1>1, <2>2, ValidatedSound
    <3>2. QED
      BY <3>1 DEF Starting, IsRunning
  <2>3. QED
    BY <2>1, <2>2
<1>3. PICK w \in {IF IsOpen(v) /\ v.data THEN Written(v, f) ELSE v} : TRUE
  OBVIOUS
<1>4. /\ Partial(w) /\ HasReply(w) /\ ~Starting(w) /\ ~IsRunning(w)
      /\ w.state \in {d.state, "canceled"}
  <2>1. CASE ~(IsOpen(v) /\ v.data)
    BY <1>2, <1>3, <2>1
  <2>2. CASE IsOpen(v) /\ v.data /\ v.state = "canceled"
    BY <1>2, <1>3, <2>2, WrittenLost
  <2>3. CASE IsOpen(v) /\ v.data /\ v.state # "canceled"
    <3>1. v.net.wired /\ w \in {Written(v, f)}
      BY <1>2, <1>3, <2>3 DEF Starting
    <3>2. \/ Gone(w) /\ IsRunning(v)
          \/ /\ Partial(w) /\ HasReply(w) /\ ~Starting(w)
             /\ IsRunning(w) <=> IsRunning(v)
             /\ w.state = v.state \/ (w.state = "canceled" /\ ~IsRunning(v))
      BY <1>2, <2>3, <3>1, WrittenSound
    <3>3. QED
      BY <1>2, <3>2
  <2>4. QED
    BY <2>1, <2>2, <2>3
<1>5. PICK c : c = Closed(w)
  OBVIOUS
<1>6. /\ Partial(c) /\ HasReply(c) /\ ~Starting(c) /\ ~IsRunning(c) /\ c.state = w.state
      /\ Resumable(c)
  <2>1. /\ Partial(c) /\ c.state = w.state
        /\ (HasReply(c) <=> HasReply(w)) /\ (IsRunning(c) <=> IsRunning(w))
        /\ (Starting(c) <=> Starting(w))
    BY <1>4, <1>5, ClosedSound
  <2>2. QED
    BY <1>4, <2>1 DEF Partial, Resumable
<1>7. PICK r \in {Finished(d, f)} : TRUE
  OBVIOUS
<1>8. r = CASE w.state = "none" -> w
            [] c.state \in {"canceling", "canceled"} -> Discarded(c, f)
            [] c.state \in {"pausing", "paused"} -> Retired(Recorded(Paused(c, f), f))
            [] c.state = "downloading" /\ ~Failure(c) -> [c EXCEPT !.state = "finished"]
            [] c.state = "downloading" /\ Failure(c) /\ c.tries = 0 -> Discarded(c, f)
            [] c.state = "downloading" /\ Failure(c) /\ c.tries > 0 ->
                  Retried(Retired(Recorded([c EXCEPT !.state = "error"], f)), f)
  BY ZenonT(90), <1>1, <1>3, <1>5, <1>7 DEF Finished, Closed
<1> HIDE DEF held
<1>9. CASE c.state \in {"canceling", "canceled"}
  <2>1. r = Discarded(c, f)
    BY <1>6, <1>8, <1>9
  <2>2. QED
    BY <1>6, <1>7, <2>1, DiscardedGone DEF Outcome
<1>10. CASE c.state \in {"pausing", "paused"}
  <2>1. r = Retired(Recorded(Paused(c, f), f))
    BY <1>6, <1>8, <1>10
  <2>2. PICK p \in {Paused(c, f)} : TRUE
    OBVIOUS
  <2>3. Partial(p) /\ p.state = "paused" /\ ~p.open
    BY <1>6, <1>10, <2>2, PausedSound
  <2>4. PICK q \in {Recorded(p, f)} : TRUE
    OBVIOUS
  <2>5. Partial(q) /\ q.state = "paused" /\ ~q.open
    BY <2>3, <2>4, RecordedSound
  <2>6. Partial(r) /\ ~HasReply(r) /\ r.state = "paused" /\ ~r.open
    BY <2>1, <2>2, <2>4, <2>5, RetiredSound
  <2>7. QED
    BY <1>7, <2>6 DEF Outcome
<1>11. CASE c.state = "downloading" /\ ~Failure(c)
  <2>1. r = [c EXCEPT !.state = "finished"]
    BY <1>6, <1>8, <1>11
  <2>2. Received(c)
    BY <1>6, <1>11, CompleteIsWhole
  <2>3. "finished" \in States /\ r = Into(c, "finished")
    BY <2>1 DEF States, Publishing, Into
  <2>4. /\ Partial(r) /\ r.state = "finished" /\ r.net = c.net
        /\ r.part = c.part /\ r.pmeta = c.pmeta
    BY <1>6, <1>11, <2>3, IntoSound
  <2>5. QED
    BY <1>7, <2>2, <2>4 DEF Outcome, Received
<1>12. CASE c.state = "downloading" /\ Failure(c) /\ c.tries = 0
  <2>1. r = Discarded(c, f)
    BY <1>6, <1>8, <1>12
  <2>2. QED
    BY <1>6, <1>7, <2>1, DiscardedGone DEF Outcome
<1>13. CASE c.state = "downloading" /\ Failure(c) /\ c.tries # 0
  <2>1. c.tries > 0
    <3>1. c.tries \in 0..Retries
      BY <1>6 DEF Partial, Resumable, Rows
    <3>2. QED
      BY <1>13, <3>1, DownloadsAssumption
  <2>2. r = Retried(Retired(Recorded([c EXCEPT !.state = "error"], f)), f)
    BY <1>6, <1>8, <1>13, <2>1
  <2>3. PICK e : e = Into(c, "error")
    OBVIOUS
  <2>4. Partial(e) /\ e.state = "error" /\ e.tries = c.tries
    <3>1. "error" \in States
      BY DEF States
    <3>2. QED
      BY <1>6, <1>13, <2>3, <3>1, IntoSound
  <2>5. PICK q \in {Recorded(e, f)} : TRUE
    OBVIOUS
  <2>6. Partial(q) /\ q.state = "error" /\ q.tries = c.tries
    BY <2>4, <2>5, RecordedSound
  <2>7. PICK t \in {Retired(q)} : TRUE
    OBVIOUS
  <2>8. Partial(t) /\ ~HasReply(t) /\ t.state = "error" /\ t.tries = c.tries
    BY <2>6, <2>7, RetiredSound
  <2>9. r = Retried(t, f)
    BY <2>2, <2>3, <2>5, <2>7 DEF Into
  <2>10. QED
    BY <1>7, <1>13, <2>8, <2>9, RetriedSound
<1>14. QED
  BY <1>4, <1>6, <1>9, <1>10, <1>11, <1>12, <1>13

\* startDownload from the connections on.
LEMMA ConnectedSound ==
  ASSUME NEW d, Partial(d), Starting(d), d.net.recorded, RowSound(d), d.state \in Active \cup {"paused"},
         NEW f
  PROVE  Served(Connected(d, f))
<1>1. PICK m : m = [d.net EXCEPT !.wired = TRUE]
  OBVIOUS
<1>2. d \in Rows /\ d.net \in Replies /\ ReplySound(d) /\ HasReply(d) /\ d.state # "canceled"
  BY DEF Partial, Resumable, Starting, HasReply, Rows, Active
<1>3. /\ m \in Replies /\ m # NoReply /\ m.wired /\ m.recorded /\ m.end = d.net.end
      /\ m.answer = d.net.answer /\ m.arrived = d.net.arrived /\ m.pos = d.net.pos
      /\ m.valid = d.net.valid /\ m.expected = d.net.expected /\ m.received = d.net.received
      /\ m.bad = d.net.bad /\ m.buf = d.net.buf
  <2>1. m \in Replies
    BY <1>1, <1>2 DEF Replies
  <2>2. QED
    BY <1>1, <1>2, <2>1, SentinelAssumption DEF Replies
<1>4. PICK w : w = [d EXCEPT !.listed = TRUE, !.net.wired = TRUE]
  OBVIOUS
<1>5. /\ w \in Rows /\ w.net = m /\ w.state = d.state /\ w.part = d.part /\ Alike(w, d)
      /\ w.pmeta = d.pmeta
  <2>1. w = [d EXCEPT !.listed = TRUE, !.net = m]
    BY <1>1, <1>2, <1>4 DEF Rows
  <2>2. QED
    BY <1>2, <1>3, <2>1 DEF Rows, Alike
<1>6. Partial(w)
  <2>1. Begins(m) = Begins(d.net)
    BY <1>3 DEF Begins
  <2>2. ~m.bad => BodySound(w)
    <3>1. ~d.net.bad => BodySound(d)
      BY <1>2 DEF ReplySound
    <3>2. QED
      BY <1>3, <1>5, <2>1, <3>1 DEF BodySound
  <2>3. ReplySound(w)
    BY <1>2, <1>3, <1>5, <2>1, <2>2 DEF ReplySound
  <2>4. QED
    BY <1>5, <2>3 DEF Partial, Resumable, Alike
<1>7. HasReply(w) /\ ~Starting(w) /\ (IsRunning(w) <=> IsRunning(d)) /\ w.state = d.state
  BY <1>2, <1>3, <1>5 DEF HasReply, Starting, IsRunning
<1>8. PICK x : x = [w EXCEPT !.data = TRUE]
  OBVIOUS
<1>9. /\ Partial(x) /\ HasReply(x) /\ ~Starting(x) /\ (IsRunning(x) <=> IsRunning(d))
      /\ x.state = d.state /\ x.net = m
  <2>1. /\ x \in Rows /\ x.net = m /\ x.state = w.state /\ x.part = w.part
        /\ Alike(x, w) /\ x.pmeta = w.pmeta
    BY <1>5, <1>8 DEF Rows, Alike
  <2>2. Partial(x)
    BY <1>5, <1>6, <2>1, SamePartial
  <2>3. QED
    BY <1>5, <1>7, <2>1, <2>2 DEF HasReply, Starting, IsRunning
<1>10. PICK c : c = IF m.buf # <<>> THEN Written(x, f) ELSE w
  OBVIOUS
<1>11. PICK r : r = Connected(d, f)
  OBVIOUS
<1>12. r = IF HasReply(c) /\ ~IsRunning(c) THEN Finished(c, f) ELSE c
  <2>1. c = IF w.net.buf # <<>> THEN Written([w EXCEPT !.data = TRUE], f) ELSE w
    BY <1>5, <1>8, <1>10
  <2>2. QED
    BY <1>4, <1>11, <2>1 DEF Connected
<1>13. \/ Gone(c)
       \/ /\ Partial(c) /\ HasReply(c) /\ ~Starting(c) /\ (IsRunning(c) <=> IsRunning(d))
          /\ c.state = d.state \/ (c.state = "canceled" /\ ~IsRunning(c))
  <2>1. CASE m.buf = <<>>
    BY <1>6, <1>7, <1>10, <2>1
  <2>2. CASE m.buf # <<>>
    <3>1. m.end # "aborted"
      BY <1>6, <1>5, <1>7, <2>2 DEF Partial, Resumable, ReplySound
    <3>2. IsOpen(x) /\ x.net.wired /\ c \in {Written(x, f)}
      BY <1>3, <1>9, <1>10, <2>2, <3>1 DEF IsOpen
    <3>3. \/ Gone(c) /\ IsRunning(x)
          \/ /\ Partial(c) /\ HasReply(c) /\ ~Starting(c)
             /\ IsRunning(c) <=> IsRunning(x)
             /\ c.state = x.state \/ (c.state = "canceled" /\ ~IsRunning(x))
      BY <1>2, <1>9, <3>2, WrittenSound
    <3>4. QED
      BY <1>9, <3>3
  <2>3. QED
    BY <2>1, <2>2
<1>14. CASE Gone(c)
  <2>1. ~HasReply(c)
    BY <1>14 DEF Gone, Still, HasReply
  <2>2. QED
    BY <1>11, <1>12, <1>14, <2>1 DEF Served
<1>15. CASE /\ Partial(c) /\ HasReply(c) /\ ~Starting(c) /\ IsRunning(c) /\ IsRunning(d)
            /\ c.state = d.state
  <2>1. r = c
    BY <1>12, <1>15
  <2>2. RowSound(c)
    <3>1. d.state \in {"downloading", "pausing"}
      BY <1>2, <1>15 DEF RowSound, Active
    <3>2. QED
      BY <1>15, <3>1 DEF RowSound, Active
  <2>3. QED
    BY <1>11, <1>15, <2>1, <2>2 DEF Served
<1>16. CASE /\ Partial(c) /\ HasReply(c) /\ ~Starting(c) /\ ~IsRunning(c)
            /\ c.state \in {d.state, "canceled"}
  <2>1. r = Finished(c, f)
    BY <1>12, <1>16
  <2>2. c.state \in {"downloading", "pausing", "canceling", "canceled", "paused"}
    BY <1>16 DEF Active
  <2>3. QED
    BY <1>11, <1>16, <2>1, <2>2, FinishedSound, OutcomeServed
<1>17. QED
  BY <1>13, <1>14, <1>15, <1>16

\* rejectStart: a row that is listed is paused, with the metadata it had.
LEMMA RejectedSound ==
  ASSUME NEW d, Partial(d), NEW f
  PROVE  Served(Rejected(d, f))
<1>1. PICK r : r = Rejected(d, f)
  OBVIOUS
<1>2. d \in Rows
  BY DEF Partial, Resumable
<1>3. CASE d.listed
  <2>1. PICK q \in {Retired(d)} : TRUE
    OBVIOUS
  <2>2. Partial(q) /\ ~HasReply(q) /\ q \in Rows
    BY <2>1, RetiredSound DEF Partial, Resumable
  <2>3. r = [q EXCEPT !.state = "paused", !.open = FALSE]
    BY <1>1, <1>3, <2>1 DEF Rejected
  <2>4. /\ r \in Rows /\ r.net = q.net /\ r.state = "paused" /\ r.part = q.part
        /\ Alike(r, q) /\ r.pmeta = q.pmeta /\ ~r.open
    BY <2>2, <2>3 DEF Rows, States, Alike
  <2>5. ~HasReply(r)
    BY <2>2, <2>4 DEF HasReply
  <2>6. Partial(r)
    BY <2>2, <2>4, <2>5, SamePartial
  <2>7. Outcome(r)
    BY <2>4, <2>5, <2>6 DEF Outcome
  <2>8. QED
    BY <1>1, <2>7, OutcomeServed
<1>4. CASE ~d.listed
  <2>1. PICK p \in {<<>>, NoFile} : p = IF "remove" \in f THEN <<>> ELSE NoFile
    OBVIOUS
  <2>2. r = [Absent EXCEPT !.part = p]
    BY <1>1, <1>4, <2>1 DEF Rejected
  <2>3. p \in {NoFile} \cup Prefixes /\ p \in {NoFile} \cup Seq(1..Size)
    BY <2>1, EmptyPrefix, EmptySeq
  <2>4. Absent \in Rows /\ Gone(Absent) /\ Absent.pmeta = "none"
    BY AbsentGone DEF Absent
  <2> HIDE DEF Absent
  <2>5. /\ r \in Rows /\ r.part = p /\ r.state = Absent.state /\ r.net = Absent.net
        /\ r.pmeta = "none" /\ r.open = Absent.open /\ Alike(r, Absent)
    BY <2>2, <2>3, <2>4 DEF Rows, Alike
  <2>6. Gone(r)
    BY <2>1, <2>3, <2>4, <2>5 DEF Gone, Still, WholeArchive, Exposed, Alike
  <2>7. QED
    BY <1>1, <2>6 DEF Served
<1>5. QED
  BY <1>3, <1>4

\* checkDownloadTimeout for a download that stalls.
LEMMA StalledSound ==
  ASSUME NEW d, Partial(d), IsRunning(d), ~Starting(d), d.state = "downloading", NEW f
  PROVE  Outcome(Stalled(d, f))
<1>1. PICK p : p = Into(d, "pausing")
  OBVIOUS
<1>2. /\ Partial(p) /\ p.state = "pausing" /\ p.net = d.net
      /\ HasReply(p) /\ IsRunning(p) /\ ~Starting(p)
  <2>1. "pausing" \in States
    BY DEF States, Active
  <2>2. HasReply(d)
    BY DEF IsRunning
  <2>3. QED
    BY <1>1, <2>1, <2>2, IntoSound
<1>3. PICK w : w = IF p.data THEN Written(p, f) ELSE p
  OBVIOUS
<1>4. \/ Gone(w)
      \/ Partial(w) /\ HasReply(w) /\ IsRunning(w) /\ ~Starting(w) /\ w.state = "pausing"
  <2>1. CASE ~p.data
    BY <1>2, <1>3, <2>1
  <2>2. CASE p.data
    <3>1. IsOpen(p) /\ p.net.wired /\ w \in {Written(p, f)} /\ p.state # "canceled"
      BY <1>2, <1>3, <2>2 DEF IsOpen, IsRunning, Starting
    <3>2. \/ Gone(w) /\ IsRunning(p)
          \/ /\ Partial(w) /\ HasReply(w) /\ ~Starting(w)
             /\ IsRunning(w) <=> IsRunning(p)
             /\ w.state = p.state \/ (w.state = "canceled" /\ ~IsRunning(p))
      BY <1>2, <3>1, WrittenSound
    <3>3. QED
      BY <1>2, <3>2
  <2>3. QED
    BY <2>1, <2>2
<1>5. PICK q : q = Paused(Closed(w), f)
  OBVIOUS
<1>6. PICK r : r = Stalled(d, f)
  OBVIOUS
<1>7. r = IF w.state = "none" THEN w ELSE IF q.tries = 0 THEN q ELSE Retried(q, f)
  BY <1>1, <1>3, <1>5, <1>6 DEF Stalled, Into, Closed
<1>8. CASE Gone(w)
  <2>1. w.state = "none"
    BY <1>8 DEF Gone
  <2>2. QED
    BY <1>6, <1>7, <1>8, <2>1 DEF Outcome
<1>9. CASE Partial(w) /\ HasReply(w) /\ IsRunning(w) /\ ~Starting(w) /\ w.state = "pausing"
  <2>1. PICK c : c = Closed(w)
    OBVIOUS
  <2>2. Partial(c) /\ HasReply(c) /\ IsRunning(c) /\ ~Starting(c) /\ c.state = "pausing"
    BY <1>9, <2>1, ClosedSound
  <2>3. q \in {Paused(c, f)} /\ c.net.wired /\ c.state # "canceled"
    BY <1>5, <2>1, <2>2 DEF Starting
  <2>4. Partial(q) /\ q.state = "paused" /\ ~HasReply(q) /\ ~q.open
    BY <2>2, <2>3, PausedSound
  <2>5. CASE q.tries = 0
    BY <1>6, <1>7, <1>9, <2>4, <2>5 DEF Outcome
  <2>6. CASE q.tries # 0
    BY <1>6, <1>7, <1>9, <2>4, <2>6, RetriedSound
  <2>7. QED
    BY <2>5, <2>6
<1>10. QED
  BY <1>4, <1>8, <1>9

\* resumeDownload.
LEMMA ResumedSound ==
  ASSUME NEW d, Partial(d), ~Starting(d), RowSound(d), d.state \in {"paused", "error", "pausing"},
         NEW f
  PROVE  Outcome(Resumed(d, f))
<1>1. PICK r : r = [d EXCEPT !.tries = Retries]
  OBVIOUS
<1>2. /\ Partial(r) /\ r.state = d.state /\ r.net = d.net /\ ~Starting(r)
      /\ HasReply(r) <=> HasReply(d)
      /\ r.state = "paused" => ~r.open
      /\ IsRunning(r) <=> IsRunning(d)
  <2>0. Retries \in 0..Retries
    BY DownloadsAssumption
  <2>1. d \in Rows
    BY DEF Partial, Resumable
  <2>2. /\ r \in Rows /\ r.net = d.net /\ r.state = d.state /\ r.part = d.part
        /\ Alike(r, d) /\ r.pmeta = d.pmeta /\ r.open = d.open
    BY <1>1, <2>0, <2>1 DEF Rows, Alike
  <2>3. d.state = "paused" => ~d.open
    BY DEF RowSound
  <2>4. QED
    BY <2>2, <2>3, SamePartial DEF HasReply, IsRunning, Starting
<1>3. PICK w : w = IF r.state = "pausing" THEN Written(r, f) ELSE r
  OBVIOUS
<1>4. PICK x : x = Resumed(d, f)
  OBVIOUS
<1>5. x = IF w.state \notin {"pausing", "paused", "error"} THEN w
          ELSE Requested(IF w.state = "pausing" THEN Paused(w, f) ELSE w, f)
  BY <1>1, <1>3, <1>4 DEF Resumed
<1>6. CASE d.state \in {"paused", "error"}
  <2>1. w = r /\ ~HasReply(r)
    BY <1>2, <1>3, <1>6 DEF RowSound, Starting
  <2>2. x = Requested(r, f)
    BY <1>2, <1>5, <1>6, <2>1
  <2>3. QED
    BY <1>2, <1>4, <1>6, <2>1, <2>2, RequestedSound
<1>7. CASE d.state = "pausing"
  <2>1. HasReply(d) /\ d.net.wired /\ IsRunning(d)
    BY <1>7 DEF RowSound, Active, Starting
  <2>2. IsOpen(r) /\ r.net.wired /\ w \in {Written(r, f)} /\ r.state # "canceled"
    BY <1>2, <1>3, <1>7, <2>1 DEF IsOpen, IsRunning
  <2>3. \/ Gone(w) /\ IsRunning(r)
        \/ /\ Partial(w) /\ HasReply(w) /\ ~Starting(w)
           /\ IsRunning(w) <=> IsRunning(r)
           /\ w.state = r.state \/ (w.state = "canceled" /\ ~IsRunning(r))
    BY <1>2, <2>2, WrittenSound
  <2>4. CASE Gone(w)
    <3>1. w.state = "none"
      BY <2>4 DEF Gone
    <3>2. QED
      BY <1>4, <1>5, <2>4, <3>1 DEF Outcome
  <2>5. CASE Partial(w) /\ HasReply(w) /\ ~Starting(w) /\ IsRunning(w) /\ w.state = "pausing"
    <3>1. PICK q \in {Paused(w, f)} : TRUE
      OBVIOUS
    <3>2. w.net.wired /\ w.state # "canceled"
      BY <2>5 DEF Starting
    <3>3. Partial(q) /\ q.state = "paused" /\ ~HasReply(q) /\ ~q.open
      BY <2>5, <3>1, <3>2, PausedSound
    <3>4. x = Requested(q, f)
      BY <1>5, <2>5, <3>1
    <3>5. QED
      BY <1>4, <3>3, <3>4, RequestedSound
  <2>6. QED
    BY <1>2, <1>7, <2>1, <2>3, <2>4, <2>5
<1>8. QED
  BY <1>6, <1>7

\* pauseDownload, while a download is not published.
LEMMA HeldSound ==
  ASSUME NEW d, Served(d), NEW f,
         Habits = {} => ~(Starting(d) /\ ~IsRunning(d))
  PROVE  Served(Held(d, f))
<1>1. PICK r \in {Held(d, f)} : TRUE
  OBVIOUS
<1>2. CASE d.state \notin {"downloading", "fetching"}
  BY <1>2 DEF Held
<1>3. d.state # "fetching"
  BY DEF Served, Gone, RowSound, Partial, Resumable
<1>4. CASE d.state = "downloading"
  <2>1. Partial(d) /\ RowSound(d) /\ HasReply(d) /\ (d.net.wired => IsRunning(d))
    BY <1>4 DEF Served, Gone, RowSound, Active
  <2>2. CASE IsRunning(d)
    <3>1. r = Into(d, "pausing") /\ "pausing" \in States
      BY <1>1, <1>4, <2>2 DEF Held, Into, States, Active
    <3>2. Partial(r) /\ r.state = "pausing" /\ HasReply(r) /\ IsRunning(r)
      BY <1>4, <2>1, <2>2, <3>1, IntoSound
    <3>3. QED
      BY <1>1, <3>2 DEF Served, RowSound, Active
  <2>3. CASE ~IsRunning(d)
    <3>1. r \in {Paused(d, f)} /\ d.state # "canceled"
      BY <1>1, <1>4, <2>3 DEF Held
    <3>2. /\ Partial(r) /\ r.state = "paused" /\ ~r.open /\ Habits # {}
          /\ HasReply(r) => ~IsRunning(r) /\ (r.net.wired => d.net.wired /\ ~IsRunning(d))
      BY <2>1, <2>3, <3>1, PausedSound DEF Starting
    <3>3. QED
      BY <1>1, <2>1, <2>3, <3>2 DEF Served, RowSound, Active
  <2>4. QED
    BY <2>2, <2>3
<1>5. QED
  BY <1>2, <1>3, <1>4

\* downloadProgress.
LEMMA ProgressedSound ==
  ASSUME NEW d, Partial(d), IsRunning(d), ~Starting(d), d.state \in {"downloading", "pausing"},
         NEW f
  PROVE  Served(Progressed(d, f))
<1>1. PICK p : p = [d EXCEPT !.data = TRUE]
  OBVIOUS
<1>2. /\ Partial(p) /\ p.state = d.state /\ p.net = d.net /\ HasReply(p) /\ IsRunning(p)
      /\ p.net.wired
  <2>1. d \in Rows /\ HasReply(d) /\ d.net.wired
    BY DEF Partial, Resumable, Starting, IsRunning
  <2>2. /\ p \in Rows /\ p.net = d.net /\ p.state = d.state /\ p.part = d.part
        /\ Alike(p, d) /\ p.pmeta = d.pmeta
    BY <1>1, <2>1 DEF Rows, Alike
  <2>3. Partial(p)
    BY <2>2, SamePartial
  <2>4. QED
    BY <2>1, <2>2, <2>3 DEF HasReply, IsRunning
<1>3. PICK r : r = Progressed(d, f)
  OBVIOUS
<1>4. HasReply(d)
  BY DEF IsRunning
<1>5. CASE d.state = "pausing"
  <2>1. r \in {Paused(p, f)} /\ p.state # "canceled"
    BY <1>1, <1>2, <1>3, <1>4, <1>5 DEF Progressed
  <2>2. Partial(r) /\ r.state = "paused" /\ ~HasReply(r) /\ ~r.open
    BY <1>2, <2>1, PausedSound
  <2>3. Outcome(r)
    BY <2>2 DEF Outcome
  <2>4. QED
    BY <1>3, <2>3, OutcomeServed
<1>6. CASE d.state = "downloading"
  <2>1. r = p
    BY <1>1, <1>3, <1>4, <1>6 DEF Progressed
  <2>2. RowSound(p)
    BY <1>2, <1>6 DEF RowSound, Active
  <2>3. QED
    BY <1>2, <1>3, <2>1, <2>2 DEF Served
<1>7. QED
  BY <1>5, <1>6

-----------------------------------------------------------------------------
(* What every step has in common.                                           *)

\* What may fail, or happen to a reply.
Mishaps == {"disk", "meta", "write", "old", "open", "remove", "retire", "done", "cut short",
            "failed", "crash"}

\* What fails in a step is counted.
LEMMA CostsType ==
  ASSUME faults \in 0..MaxFaults, NEW f \in SUBSET Mishaps, Costs(f)
  PROVE  faults' \in 0..MaxFaults
<1>1. IsFiniteSet(Mishaps)
  <2> DEFINE A == {"disk"} \cup {"meta"}
             B == A \cup {"write"}
             C == B \cup {"old"}
             D == C \cup {"open"}
             E == D \cup {"remove"}
             F == E \cup {"retire"}
             G == F \cup {"done"}
             H == G \cup {"cut short"}
             I == H \cup {"failed"}
             J == I \cup {"crash"}
  <2>1. \A S, x : IsFiniteSet(S) => IsFiniteSet(S \cup {x})
    BY FS_AddElement
  <2>2. J = Mishaps
    BY DEF Mishaps
  <2>3. IsFiniteSet(A)
    BY <2>1, FS_Singleton
  <2> HIDE DEF A
  <2>4. IsFiniteSet(B)
    BY <2>1, <2>3
  <2> HIDE DEF B
  <2>5. IsFiniteSet(C)
    BY <2>1, <2>4
  <2> HIDE DEF C
  <2>6. IsFiniteSet(D)
    BY <2>1, <2>5
  <2> HIDE DEF D
  <2>7. IsFiniteSet(E)
    BY <2>1, <2>6
  <2> HIDE DEF E
  <2>8. IsFiniteSet(F)
    BY <2>1, <2>7
  <2> HIDE DEF F
  <2>9. IsFiniteSet(G)
    BY <2>1, <2>8
  <2> HIDE DEF G
  <2>10. IsFiniteSet(H)
    BY <2>1, <2>9
  <2> HIDE DEF H
  <2>11. IsFiniteSet(I)
    BY <2>1, <2>10
  <2> HIDE DEF I
  <2>12. IsFiniteSet(J)
    BY <2>1, <2>11
  <2>13. QED
    BY <2>2, <2>12
<1>2. Cardinality(f) \in Nat
  BY <1>1, FS_Subset, FS_CardinalityType
<1>3. QED
  BY <1>2, DownloadsAssumption DEF Costs

\* What is known of such a row in any case.
LEMMA ServedRow ==
  ASSUME NEW r, Served(r)
  PROVE  /\ r \in Rows /\ RowSound(r) /\ r.full = NoFile /\ ~r.moving
         /\ r.state # "fetching" /\ (Exposed(r) => "logged" \in r.flaws)
         /\ HasReply(r) => Len(r.net.buf) <= Size
<1>1. /\ r \in Rows /\ RowSound(r) /\ r.full = NoFile /\ ~r.moving
      /\ r.state # "fetching" /\ (Exposed(r) => "logged" \in r.flaws)
  <2>1. CASE Gone(r)
    BY <2>1 DEF Gone, Still, RowSound, Active
  <2>2. CASE Partial(r) /\ RowSound(r)
    <3>1. r.part # NoFile
      BY <2>2, PrefixType DEF Partial, Resumable
    <3>2. QED
      BY <2>2, <3>1 DEF Partial, Resumable, RowSound, Exposed
  <2>3. QED
    BY <2>1, <2>2 DEF Served
<1>2. HasReply(r) => Len(r.net.buf) <= Size
  <2>1. SUFFICES ASSUME HasReply(r)
                 PROVE  Len(r.net.buf) <= Size
    OBVIOUS
  <2>2. Partial(r)
    BY <2>1 DEF Served, Gone, Still, HasReply
  <2>3. r.net \in Replies /\ ReplySound(r)
    BY <2>1, <2>2 DEF Partial, Resumable, HasReply, Rows
  <2>4. /\ r.net.arrived \in 0..Size /\ r.net.buf \in Seq(1..Size)
    BY <2>3 DEF Replies
  <2>5. Len(r.net.buf) <= r.net.arrived
    BY <2>3 DEF ReplySound
  <2>6. QED
    BY <2>4, <2>5, DownloadsAssumption, LenProperties
<1>3. QED
  BY <1>1, <1>2

\* What a handler has done to a download that is not published is sound.
LEMMA LandsUp ==
  ASSUME Good, NEW r, Served(r), dl' = r, NEW f \in SUBSET Mishaps, Costs(f),
         suppressed' \in BOOLEAN, pending' \in BOOLEAN, asked' \in BOOLEAN, pending' => asked',
         up' = TRUE, begun' \in 0..MaxStarts
  PROVE  Good'
<1>1. faults' \in 0..MaxFaults
  BY CostsType DEF Good, TypeOK
<1>2. /\ r \in Rows /\ RowSound(r) /\ r.full = NoFile /\ ~r.moving
      /\ r.state # "fetching" /\ (Exposed(r) => "logged" \in r.flaws)
      /\ HasReply(r) => Len(r.net.buf) <= Size
  BY ServedRow
<1>3. TypeOK'
  <2>1. dl' \in Rows /\ (HasReply(dl)' => Len(dl'.net.buf) <= Size)
    BY <1>2 DEF HasReply
  <2>2. QED
    BY <1>1, <2>1 DEF TypeOK, HasReply
<1>4. RowSound(dl') /\ ~dl'.moving /\ dl'.full = NoFile
  BY <1>2
<1>5. CapabilitiesRetired'
  BY <1>2 DEF CapabilitiesRetired, Exposed
<1>6. QED
  BY <1>3, <1>4, <1>5 DEF Good

LEMMA Lands ==
  ASSUME Good, up, NEW r, Served(r), dl' = r, NEW f \in SUBSET Mishaps, Costs(f),
         suppressed' \in BOOLEAN, pending' \in BOOLEAN, asked' \in BOOLEAN, pending' => asked',
         up' = up, begun' \in 0..MaxStarts
  PROVE  Good'
<1>1. up' = TRUE
  BY DEF Good, TypeOK
<1>2. QED
  BY <1>1, LandsUp

\* So is a row that no handler has touched.
LEMMA Unmoved ==
  ASSUME Good, dl' = dl, suppressed' \in BOOLEAN, pending' \in BOOLEAN, asked' \in BOOLEAN,
         pending' => asked', up' = up, begun' \in 0..MaxStarts,
         faults' \in 0..MaxFaults
  PROVE  Good'
<1>1. TypeOK'
  BY DEF Good, TypeOK, HasReply
<1>2. /\ ~dl'.moving => RowSound(dl')
      /\ dl'.moving => /\ up' /\ RowSound(Settled(dl')) /\ dl'.state \in {"downloading", "pausing"}
                       /\ dl'.net.wired
  BY DEF Good
<1>3. CapabilitiesRetired'
  BY DEF Good, CapabilitiesRetired, Idle, Exposed
<1>4. QED
  BY <1>1, <1>2, <1>3 DEF Good

\* A reply belongs to a download that is active, or paused while it started.
LEMMA ReplyRow ==
  ASSUME Good, Idle, HasReply(dl)
  PROVE  /\ Partial(dl) /\ dl.state \in Active \cup {"paused"}
         /\ IsRunning(dl) => dl.state \in {"downloading", "pausing"}
<1>1. dl.state \in States /\ RowSound(dl)
  BY DEF Good, TypeOK, Rows, Idle
<1>2. dl.state \in Active \cup {"paused"}
  BY <1>1 DEF RowSound, Still, HasReply, States, Idle
<1>3. QED
  BY <1>1, <1>2 DEF RowSound, Active

-----------------------------------------------------------------------------
(* The network.                                                             *)

\* A row of which the reply alone changes, in what does not matter to who is waiting.
LEMMA ReplyChanged ==
  ASSUME NEW d, Partial(d), HasReply(d), NEW m \in Replies, NEW r, r = [d EXCEPT !.net = m],
         m.wired = d.net.wired, ReplySound(r)
  PROVE  /\ Partial(r) /\ HasReply(r) /\ r.state = d.state /\ r.net = m
         /\ (Starting(r) <=> Starting(d)) /\ (IsRunning(r) <=> m.end = "running")
<1>1. d \in Rows /\ m # NoReply
  BY SentinelAssumption DEF Partial, Resumable
<1>2. /\ r \in Rows /\ r.net = m /\ r.state = d.state /\ r.part = d.part /\ Alike(r, d)
      /\ r.pmeta = d.pmeta
  BY <1>1 DEF Rows, Alike
<1>3. Partial(r)
  BY <1>2, PartialWith
<1>4. QED
  BY <1>1, <1>2, <1>3 DEF HasReply, Starting, IsRunning

\* The head of a response.
LEMMA AnsweredSound ==
  ASSUME NEW d, Partial(d), IsRunning(d), d.state # "canceled", d.net.answer = "none",
         NEW m \in Replies, m.answer \in Answers(d.net),
         m.wired = d.net.wired, m.recorded = d.net.recorded, m.end = "running",
         m.arrived = d.net.arrived, m.pos = d.net.pos, m.valid = d.net.valid,
         m.received = d.net.received, m.bad = d.net.bad, m.buf = d.net.buf,
         NEW r, r = [d EXCEPT !.net = m]
  PROVE  /\ Partial(r) /\ HasReply(r) /\ r.state = d.state /\ IsRunning(r) /\ ~r.net.valid
         /\ Starting(r) <=> Starting(d)
<1> DEFINE n == d.net
<1>1. /\ d \in Rows /\ n \in Replies /\ ReplySound(d) /\ HasReply(d) /\ n.end = "running"
      /\ ~n.valid
  BY DEF Partial, Resumable, ReplySound, IsRunning, HasReply, Rows
<1>3. /\ m.wired = n.wired /\ m.recorded = n.recorded /\ m.end = "running"
      /\ m.arrived = n.arrived /\ m.pos = n.pos /\ m.valid = n.valid
      /\ m.received = n.received /\ m.bad = n.bad /\ m.buf = n.buf
  OBVIOUS
<1>4. r = [d EXCEPT !.net = m]
  OBVIOUS
<1>5. /\ r.net = m /\ r.part = d.part /\ r.pmeta = d.pmeta /\ r.state = d.state
  BY <1>1, <1>4 DEF Rows
<1>6. n.arrived = 0 /\ Begins(m) \in 0..Size /\ Len(n.buf) <= 0
  <2>1. n.arrived = 0 /\ Len(n.buf) <= 0
    BY <1>1 DEF ReplySound
  <2>2. n.pos \in 0..Size
    BY <1>1 DEF Replies
  <2>3. 0 \in 0..Size
    BY BytesSeq
  <2>4. QED
    BY <1>3, <2>1, <2>2, <2>3 DEF Begins
<1>7. ~m.bad => BodySound(r)
  <2>1. SUFFICES ASSUME ~m.bad
                 PROVE  BodySound(r)
    OBVIOUS
  <2>2. BodySound(d)
    BY <1>1, <1>3, <2>1 DEF ReplySound
  <2>3. ~n.valid /\ n.received = 0 /\ Len(d.part) = n.pos
    BY <1>1, <2>2 DEF BodySound
  <2>4. n.buf = <<>>
    <3>1. Begins(n) = 0 /\ 0 + 0 = 0 /\ 0 \in 0..Size
      BY BytesSeq DEF Begins
    <3>2. n.buf = Piece(0, 0)
      BY <1>1, <1>6, <2>2, <2>3, <3>1 DEF BodySound
    <3>3. QED
      BY <3>1, <3>2, PieceEnds
  <2>5. n.buf = Piece(Begins(m) + 0, Begins(m) + 0)
    <3>1. Begins(m) + 0 = Begins(m)
      BY <1>6
    <3>2. QED
      BY <1>6, <2>4, <3>1, PieceEnds
  <2>6. QED
    BY <1>3, <1>5, <1>6, <2>3, <2>5 DEF BodySound
<1>8. ReplySound(r)
  <2>1. 0 <= Size - Begins(m)
    BY <1>6, BytesSeq
  <2>2. QED
    BY <1>1, <1>3, <1>5, <1>6, <1>7, <2>1 DEF ReplySound
<1>9. /\ Partial(r) /\ HasReply(r) /\ r.state = d.state /\ r.net = m
      /\ (Starting(r) <=> Starting(d)) /\ (IsRunning(r) <=> m.end = "running")
  BY <1>1, <1>3, <1>4, <1>8, ReplyChanged
<1>10. QED
  BY <1>1, <1>3, <1>9

\* A piece of the body.
LEMMA ArrivedSound ==
  ASSUME NEW d, Partial(d), IsRunning(d), d.state # "canceled", ToCome(d.net) > 0,
         NEW r, r = [d EXCEPT !.net.buf = Append(@, Begins(d.net) + d.net.arrived + 1),
                              !.net.arrived = @ + 1]
  PROVE  /\ Partial(r) /\ HasReply(r) /\ r.state = d.state /\ IsRunning(r)
         /\ Starting(r) <=> Starting(d)
<1> DEFINE n == d.net
           b == Begins(n) + n.arrived
<1>1. d \in Rows /\ n \in Replies /\ ReplySound(d) /\ HasReply(d) /\ n.end = "running"
  BY DEF Partial, Resumable, IsRunning, HasReply, Rows
<1>2. /\ n.arrived \in 0..Size /\ n.pos \in 0..Size /\ n.received \in 0..Size
      /\ n.buf \in Seq(1..Size) /\ Len(n.buf) \in Nat
  BY <1>1, LenProperties DEF Replies
<1>3. Begins(n) \in 0..Size
  <2>1. 0 \in 0..Size
    BY BytesSeq
  <2>2. QED
    BY <1>2, <2>1 DEF Begins
<1>4. n.answer \notin {"none", "refused"} /\ Size - Begins(n) - n.arrived > 0
  BY DEF ToCome
<1>5. b \in 0..Size /\ b < Size /\ b + 1 \in 1..Size /\ n.arrived + 1 \in 0..Size
      /\ Begins(n) + (n.arrived + 1) = b + 1 /\ n.arrived + 1 <= Size - Begins(n)
  <2>1. PICK k \in 0..Size : k = Begins(n)
    BY <1>3
  <2>2. PICK x \in 0..Size : x = n.arrived
    BY <1>2
  <2>3. Size - k - x > 0 /\ Size \in Nat /\ k \in Nat /\ x \in Nat
    BY <1>4, <2>1, <2>2, BytesSeq
  <2>4. /\ k + x \in 0..Size /\ k + x < Size /\ k + x + 1 \in 1..Size
        /\ x + 1 \in 0..Size /\ k + (x + 1) = k + x + 1 /\ x + 1 <= Size - k
    BY <2>3
  <2>5. QED
    BY <2>1, <2>2, <2>4
<1>6. PICK m : m = [n EXCEPT !.buf = Append(n.buf, b + 1), !.arrived = n.arrived + 1]
  OBVIOUS
<1>7. Append(n.buf, b + 1) \in Seq(1..Size) /\ Len(Append(n.buf, b + 1)) = Len(n.buf) + 1
  <2> HIDE DEF b
  <2>1. QED
    BY <1>2, <1>5, AppendProperties
<1>8. /\ m \in Replies /\ m.answer = n.answer /\ m.wired = n.wired
      /\ m.recorded = n.recorded
      /\ m.end = "running" /\ m.arrived = n.arrived + 1 /\ m.pos = n.pos
      /\ m.valid = n.valid
      /\ m.received = n.received /\ m.bad = n.bad /\ m.buf = Append(n.buf, b + 1)
      /\ m.expected = n.expected
  <2> HIDE DEF b
  <2>1. QED
    BY <1>1, <1>5, <1>6, <1>7 DEF Replies
<1>9. r = [d EXCEPT !.net = m]
  BY <1>1, <1>6 DEF Rows
<1>10. r.net = m /\ r.part = d.part /\ r.pmeta = d.pmeta /\ r.state = d.state
  BY <1>1, <1>9 DEF Rows
<1>11. Begins(m) = Begins(n)
  BY <1>8 DEF Begins
<1>12. ~m.bad => BodySound(r)
  <2>1. SUFFICES ASSUME ~m.bad
                 PROVE  BodySound(r)
    OBVIOUS
  <2>2. BodySound(d)
    BY <1>1, <1>8, <2>1 DEF ReplySound
  <2>3. n.received <= n.arrived
    <3>1. n.valid => n.received <= n.arrived
      BY <2>2 DEF BodySound
    <3>2. ~n.valid => n.received = 0
      BY <2>2 DEF BodySound
    <3>3. QED
      BY <1>2, <3>1, <3>2
  <2>4. PICK a : a = Begins(n) + n.received
    OBVIOUS
  <2>5. a \in 0..Size /\ b \in a..Size
    <3>1. PICK k \in 0..Size : k = Begins(n)
      BY <1>3
    <3>2. PICK x \in 0..Size : x = n.arrived
      BY <1>2
    <3>3. PICK y \in 0..Size : y = n.received
      BY <1>2
    <3>4. k + x \in 0..Size /\ y <= x /\ a = k + y /\ b = k + x
      BY <1>5, <2>3, <2>4, <3>1, <3>2, <3>3
    <3> HIDE DEF b
    <3>5. QED
      BY <3>4, BytesSeq
  <2>6. n.buf = Piece(a, b)
    BY <1>1, <2>2, <2>4 DEF BodySound
  <2>7. m.buf = Piece(a, b + 1)
    <3> HIDE DEF b
    <3>1. QED
      BY <1>5, <1>8, <2>5, <2>6, PieceGrown
  <2>8. m.received <= m.arrived
    BY <1>2, <1>8, <2>3
  <2>9. QED
    BY <1>5, <1>8, <1>10, <1>11, <2>2, <2>4, <2>7, <2>8 DEF BodySound
<1>13. ReplySound(r)
  <2>1. Len(m.buf) <= m.arrived
    <3>1. Len(n.buf) <= n.arrived
      BY <1>1 DEF ReplySound
    <3>2. QED
      BY <1>2, <1>7, <1>8, <3>1
  <2>2. m.arrived <= Size - Begins(m)
    BY <1>5, <1>8, <1>11
  <2>3. QED
    BY <1>1, <1>4, <1>8, <1>10, <1>12, <2>1, <2>2 DEF ReplySound
<1>14. m \in Replies /\ m.wired = d.net.wired /\ m.end = "running"
  BY <1>8
<1>15. QED
  BY <1>1, <1>9, <1>10, <1>13, <1>14, ReplyChanged

\* The end of a reply.
LEMMA EndedSound ==
  ASSUME NEW d, Partial(d), IsRunning(d), d.state # "canceled",
         NEW e \in {"done", "cut short", "failed"}, NEW r, r = [d EXCEPT !.net.end = e]
  PROVE  /\ Partial(r) /\ HasReply(r) /\ r.state = d.state /\ ~IsRunning(r)
         /\ Starting(r) <=> Starting(d)
<1> DEFINE n == d.net
<1>1. d \in Rows /\ n \in Replies /\ ReplySound(d) /\ HasReply(d) /\ n.end = "running"
  BY DEF Partial, Resumable, IsRunning, HasReply, Rows
<1>2. PICK m : m = [n EXCEPT !.end = e]
  OBVIOUS
<1>3. /\ m \in Replies /\ m.answer = n.answer /\ m.wired = n.wired
      /\ m.recorded = n.recorded
      /\ m.end = e /\ m.arrived = n.arrived /\ m.pos = n.pos /\ m.valid = n.valid
      /\ m.received = n.received /\ m.bad = n.bad /\ m.buf = n.buf
      /\ m.expected = n.expected
  BY <1>1, <1>2 DEF Replies
<1>4. r = [d EXCEPT !.net = m]
  BY <1>1, <1>2 DEF Rows
<1>5. r.net = m /\ r.part = d.part /\ r.pmeta = d.pmeta /\ r.state = d.state
  BY <1>1, <1>4 DEF Rows
<1>6. Begins(m) = Begins(n)
  BY <1>3 DEF Begins
<1>7. ~m.bad => BodySound(r)
  <2>1. ~n.bad => BodySound(d)
    BY <1>1 DEF ReplySound
  <2>2. QED
    BY ZenonT(90), <1>1, <1>3, <1>5, <1>6, <2>1 DEF BodySound
<1>8. ReplySound(r)
  BY <1>1, <1>3, <1>5, <1>6, <1>7 DEF ReplySound
<1>9. QED
  BY <1>1, <1>3, <1>4, <1>8, ReplyChanged

-----------------------------------------------------------------------------
(* Every action keeps what is Good.                                         *)

\* What a step of the event loop leaves alone, but for the row and what has failed.
LEMMA Handled ==
  ASSUME Good, Idle, NEW r, Served(r), NEW f \in SUBSET Mishaps, Becomes(r, f),
         UNCHANGED <<suppressed, pending, asked, up, begun>>
  PROVE  Good'
<1>1. /\ suppressed' \in BOOLEAN /\ pending' \in BOOLEAN /\ asked' \in BOOLEAN
      /\ pending' => asked'
      /\ up' = up /\ begun' \in 0..MaxStarts
  BY DEF Good, TypeOK
<1>2. dl' = r /\ Costs(f) /\ up
  BY DEF Becomes, Idle
<1>3. QED
  BY <1>1, <1>2, Lands

\* A link is added.
LEMMA AddLinkGood == ASSUME Good, AddLink PROVE Good'
<1>1. begun' \in 0..MaxStarts
  BY DownloadsAssumption DEF Good, TypeOK, AddLink
<1>2. /\ dl' = dl /\ suppressed' \in BOOLEAN /\ pending' \in BOOLEAN /\ asked' \in BOOLEAN
      /\ pending' => asked'
      /\ up' = up /\ faults' \in 0..MaxFaults
  BY DEF Good, TypeOK, AddLink
<1>3. QED
  BY <1>1, <1>2, Unmoved

\* The request for URLs is refused.
LEMMA UrlsRefusedGood == ASSUME Good, UrlsRefused PROVE Good'
<1>1. /\ dl' = dl /\ suppressed' \in BOOLEAN /\ pending' \in BOOLEAN /\ asked' \in BOOLEAN
      /\ pending' => asked'
      /\ up' = up /\ faults' \in 0..MaxFaults /\ begun' \in 0..MaxStarts
  BY DEF Good, TypeOK, UrlsRefused
<1>2. QED
  BY <1>1, Unmoved

\* A new row, and its first request.
LEMMA UrlsAvailableGood == ASSUME Good, UrlsAvailable PROVE Good'
<1>1. PICK f \in Failures({"meta"}), key \in BOOLEAN :
          IF suppressed THEN f = {} /\ UNCHANGED <<dl, faults>>
          ELSE Becomes(Recorded([Absent EXCEPT !.state = "downloading", !.tries = Retries,
                                               !.urls = TRUE, !.open = TRUE, !.part = <<>>,
                                               !.key = key,
                                               !.net = Request(FALSE, 0, "meta" \notin f)], f), f)
  BY DEF UrlsAvailable
<1>2. /\ suppressed' \in BOOLEAN /\ pending' \in BOOLEAN /\ asked' \in BOOLEAN
      /\ pending' => asked'
      /\ up' = up /\ begun' \in 0..MaxStarts /\ up
  BY DEF Good, TypeOK, UrlsAvailable, Idle
<1>3. CASE suppressed
  <2>1. dl' = dl /\ faults' \in 0..MaxFaults
    BY <1>1, <1>3 DEF Good, TypeOK
  <2>2. QED
    BY <1>2, <2>1, Unmoved
<1>4. CASE ~suppressed
  <2>1. PICK d : d = [Absent EXCEPT !.state = "downloading", !.tries = Retries, !.urls = TRUE,
                                    !.open = TRUE, !.part = <<>>, !.key = key]
    OBVIOUS
  <2>2. /\ d \in Rows /\ d.part = <<>> /\ d.full = NoFile /\ d.fmeta = "none"
        /\ ~d.moving /\ ~d.stray
    <3>1. Retries \in 0..Retries /\ <<>> \in Seq(1..Size)
      BY DownloadsAssumption, EmptySeq
    <3>2. Absent.full = NoFile /\ Absent.fmeta = "none" /\ ~Absent.moving /\ ~Absent.stray
      BY DEF Absent
    <3> HIDE DEF Absent
    <3>3. QED
      BY <2>1, <3>1, <3>2, AbsentGone DEF Rows, States, Active
  <2>3. PICK r : r = Recorded([d EXCEPT !.net = Request(FALSE, Len(d.part), "meta" \notin f),
                                        !.state = "downloading", !.open = TRUE], f)
    OBVIOUS
  <2>4. Partial(r) /\ r.state = "downloading" /\ Starting(r) /\ IsRunning(r)
    <3>1. r \in {Recorded([d EXCEPT !.net = Request(FALSE, Len(d.part), "meta" \notin f),
                                    !.state = "downloading", !.open = TRUE], f)}
      BY <2>3
    <3>2. Resumable(d) /\ FALSE \in BOOLEAN
      BY <2>2, EmptyPrefix DEF Resumable
    <3>3. ~d.moving /\ (d.stray => "logged" \in d.flaws)
      BY <2>2
    <3>4. QED
      BY <3>1, <3>2, <3>3, RequestSound
  <2>5. Becomes(r, f)
    <3>1. Len(d.part) = 0
      BY <2>2, EmptySeq
    <3>2. [d EXCEPT !.net = Request(FALSE, 0, "meta" \notin f), !.state = "downloading",
                    !.open = TRUE] =
          [Absent EXCEPT !.state = "downloading", !.tries = Retries, !.urls = TRUE,
                         !.open = TRUE, !.part = <<>>, !.key = key,
                         !.net = Request(FALSE, 0, "meta" \notin f)]
      BY <2>1 DEF Absent
    <3>3. QED
      BY <1>1, <1>4, <2>3, <3>1, <3>2
  <2>6. Served(r) /\ f \in SUBSET Mishaps /\ dl' = r /\ Costs(f)
    <3>1. Outcome(r)
      BY <2>4 DEF Outcome
    <3>2. QED
      BY <2>5, <3>1, OutcomeServed DEF Failures, Mishaps, Becomes
  <2>7. QED
    BY <1>2, <2>6, Lands
<1>5. QED
  BY <1>3, <1>4

\* startDownload goes on.
LEMMA StartContinueGood == ASSUME Good, StartContinue PROVE Good'
<1>1. PICK f \in Failures(Failing) :
          Becomes(IF dl.net.recorded THEN Connected(dl, f) ELSE Rejected(dl, f), f)
  BY DEF StartContinue, MayContinue
<1>2. f \in SUBSET Mishaps
  BY DEF Failures, Failing, Mishaps
<1>3. Idle /\ HasReply(dl) /\ Starting(dl) /\ RowSound(dl)
  BY DEF StartContinue, MayContinue, Starting, Good, Idle
<1>4. Partial(dl) /\ dl.state \in Active \cup {"paused"}
  BY <1>3, ReplyRow
<1>5. PICK r : r = IF dl.net.recorded THEN Connected(dl, f) ELSE Rejected(dl, f)
  OBVIOUS
<1>6. Served(r)
  <2>1. CASE dl.net.recorded
    BY <1>3, <1>4, <1>5, <2>1, ConnectedSound
  <2>2. CASE ~dl.net.recorded
    BY <1>4, <1>5, <2>2, RejectedSound
  <2>3. QED
    BY <2>1, <2>2
<1>7. Becomes(r, f) /\ UNCHANGED <<suppressed, pending, asked, up, begun>>
  BY <1>1, <1>5 DEF StartContinue, MayContinue
<1>8. QED
  BY <1>2, <1>3, <1>6, <1>7, Handled

\* A download whose reply is connected, and running, is discarded when it is canceled.
LEMMA HeardGone ==
  ASSUME NEW d, NEW state, Resumable(Into(d, state)), Heard(d), NEW f
  PROVE  Gone(Canceled(d, state, f))
<1>1. Canceled(d, state, f) = Discarded(Into(d, state), f)
  BY DEF Canceled, Into, Heard
<1>2. QED
  BY <1>1, DiscardedGone

\* The output is opened again after a renaming, or the download is discarded.
LEMMA ReopenedSound ==
  ASSUME NEW d, Partial(d), Heard(d), d.state \in {"downloading", "pausing"}, NEW f
  PROVE  Served(Reopened(d, f))
<1>1. PICK r : r = Reopened(d, f)
  OBVIOUS
<1>2. CASE "open" \in f
  <2>1. r = Canceled(d, "canceling", f)
    BY <1>1, <1>2 DEF Reopened
  <2>2. PICK c : c = Into(d, "canceling")
    OBVIOUS
  <2>3. "canceling" \in States /\ "canceling" # "canceled" /\ d.state # "canceled"
    BY DEF States, Active
  <2>4. Partial(c)
    BY <2>2, <2>3, IntoSound
  <2>5. QED
    BY <1>1, <2>1, <2>2, <2>4, HeardGone DEF Partial, Served
<1>3. CASE "open" \notin f
  <2>1. r = [d EXCEPT !.open = TRUE] /\ d \in Rows
    BY <1>1, <1>3 DEF Reopened, Partial, Resumable
  <2>2. /\ r \in Rows /\ r.net = d.net /\ r.state = d.state /\ r.part = d.part
        /\ Alike(r, d)
        /\ r.pmeta = d.pmeta
    BY <2>1 DEF Rows, Alike
  <2>3. Partial(r)
    BY <2>2, SamePartial
  <2>4. HasReply(r) /\ IsRunning(r)
    BY <2>2 DEF Heard, HasReply, IsRunning
  <2>5. QED
    BY <1>1, <2>2, <2>3, <2>4 DEF Served, RowSound, Active
<1>4. QED
  BY <1>2, <1>3

\* A partial file that has been renamed, before its metadata is.
LEMMA MovesGood ==
  ASSUME Good, Idle, NEW v, Partial(v), Heard(v), v.state \in {"downloading", "pausing"},
         Becomes([v EXCEPT !.moving = TRUE, !.open = FALSE], {}),
         UNCHANGED <<suppressed, pending, asked, up, begun>>
  PROVE  Good'
<1>1. PICK c : c = Closed(v)
  OBVIOUS
<1>2. Partial(c) /\ c.state = v.state /\ c.net = v.net /\ HasReply(c) /\ IsRunning(c)
  BY <1>1, ClosedSound DEF Heard, IsRunning
<1>3. c \in Rows /\ c.moving = FALSE
  BY <1>2 DEF Partial, Resumable, Rows
<1>4. dl' = [c EXCEPT !.moving = TRUE]
  <2>1. v \in Rows
    BY DEF Partial, Resumable
  <2>2. QED
    BY <1>1, <2>1 DEF Becomes, Closed, Rows
<1>5. /\ dl' \in Rows /\ dl'.state = c.state /\ dl'.net = c.net /\ dl'.moving = TRUE
      /\ Settled(dl') = c
  BY <1>3, <1>4 DEF Rows, Settled
<1>6. RowSound(c) /\ c.net.wired
  BY <1>2 DEF RowSound, Active, Heard
<1>7. Len(c.net.buf) <= Size
  <2>1. Served(c)
    BY <1>2, <1>6 DEF Served
  <2>2. QED
    BY <1>2, <2>1, ServedRow
<1>8. faults' \in 0..MaxFaults
  <2>1. {} \in SUBSET Mishaps
    OBVIOUS
  <2>2. QED
    BY <2>1, CostsType DEF Good, TypeOK, Becomes
<1>9. TypeOK'
  BY <1>5, <1>7, <1>8 DEF Good, TypeOK, HasReply
<1>10. CapabilitiesRetired'
  BY <1>5 DEF CapabilitiesRetired, Idle
<1>11. up' /\ dl'.state \in {"downloading", "pausing"} /\ dl'.net.wired /\ RowSound(Settled(dl'))
  BY <1>2, <1>5, <1>6 DEF Idle
<1>12. QED
  BY <1>5, <1>9, <1>10, <1>11 DEF Good

\* The head of a response, which is judged if the reply is connected.
LEMMA AnswerGood == ASSUME Good, Answer PROVE Good'
<1>1. PICK a \in Answers(dl.net), f \in Failures({"disk", "open", "remove", "retire"}) :
          LET d == [dl EXCEPT !.net.answer = a]
              v == IF d.net.wired THEN Validated(d) ELSE d
          IN  /\ "disk" \notin f => f = {}
              /\ \/ f = {} /\ Becomes(v, f)
                 \/ /\ v.net.valid /\ v.key
                    /\ Becomes(IF "disk" \in f THEN Reopened([v EXCEPT !.open = FALSE], f)
                               ELSE [v EXCEPT !.moving = TRUE, !.open = FALSE], f)
  BY DEF Answer
<1>2. Idle /\ HasReply(dl) /\ IsRunning(dl) /\ dl.net.answer = "none" /\ RowSound(dl)
  BY DEF Answer, IsRunning, Good, Idle
<1>3. Partial(dl) /\ dl.state \in {"downloading", "pausing"}
  BY <1>2, ReplyRow
<1>4. PICK d : d = [dl EXCEPT !.net.answer = a]
  OBVIOUS
<1>5. /\ Partial(d) /\ HasReply(d) /\ d.state = dl.state /\ IsRunning(d) /\ ~d.net.valid
      /\ Starting(d) <=> Starting(dl)
  <2>1. dl.state # "canceled"
    BY <1>3
  <2>2. PICK m : m = [dl.net EXCEPT !.answer = a]
    OBVIOUS
  <2>3. d = [dl EXCEPT !.net = m]
    BY <1>4, <2>2
  <2>4. /\ m \in Replies /\ m.answer = a /\ m.wired = dl.net.wired
        /\ m.recorded = dl.net.recorded /\ m.end = "running" /\ m.arrived = dl.net.arrived
        /\ m.pos = dl.net.pos /\ m.valid = dl.net.valid /\ m.received = dl.net.received
        /\ m.bad = dl.net.bad /\ m.buf = dl.net.buf
    <3>1. dl.net \in Replies /\ dl.net.end = "running"
      BY <1>2 DEF Good, TypeOK, Rows, HasReply, IsRunning
    <3>2. a \in {"whole", "unmeasured", "refused", "partial", "other range"}
      BY DEF Answers
    <3>3. QED
      BY <2>2, <3>1, <3>2 DEF Replies
  <2>5. QED
    BY <1>2, <1>3, <2>1, <2>3, <2>4, AnsweredSound
<1>6. PICK v : v = IF d.net.wired THEN Validated(d) ELSE d
  OBVIOUS
<1>7. /\ Partial(v) /\ HasReply(v) /\ v.state = dl.state /\ IsRunning(v)
      /\ v.net.valid => Heard(v)
  <2>1. CASE d.net.wired
    <3>1. v \in {Validated(d)} /\ d.state # "canceled"
      BY <1>3, <1>5, <1>6, <2>1
    <3>2. /\ Partial(v) /\ HasReply(v) /\ v.state = d.state /\ v.net.end = d.net.end
          /\ v.net.wired = d.net.wired
      BY <1>5, <3>1, ValidatedSound
    <3>3. QED
      BY <1>5, <2>1, <3>2 DEF IsRunning, Heard
  <2>2. CASE ~d.net.wired
    BY <1>5, <1>6, <2>2
  <2>3. QED
    BY <2>1, <2>2
<1>8. /\ "disk" \notin f => f = {}
      /\ \/ f = {} /\ Becomes(v, f)
         \/ /\ v.net.valid
            /\ Becomes(IF "disk" \in f THEN Reopened(Closed(v), f)
                       ELSE [v EXCEPT !.moving = TRUE, !.open = FALSE], f)
  BY <1>1, <1>4, <1>6 DEF Closed
<1>9. f \in SUBSET Mishaps /\ UNCHANGED <<suppressed, pending, asked, up, begun>>
  BY DEF Answer, Failures, Mishaps
<1>10. CASE Becomes(v, f)
  <2>1. Served(v)
    BY <1>3, <1>7 DEF Served, RowSound, Active
  <2>2. QED
    BY <1>2, <1>9, <1>10, <2>1, Handled
<1>11. CASE "disk" \in f /\ v.net.valid /\ Becomes(Reopened(Closed(v), f), f)
  <2>1. PICK c : c = Closed(v)
    OBVIOUS
  <2>2. Partial(c) /\ c.state = v.state /\ c.net = v.net
    BY <1>7, <2>1, ClosedSound
  <2>3. Heard(c)
    BY <1>7, <1>11, <2>2 DEF Heard, IsRunning, HasReply
  <2>4. Served(Reopened(c, f))
    BY <1>3, <1>7, <2>2, <2>3, ReopenedSound
  <2>5. QED
    BY <1>2, <1>9, <1>11, <2>1, <2>4, Handled
<1>12. CASE "disk" \notin f /\ v.net.valid
            /\ Becomes([v EXCEPT !.moving = TRUE, !.open = FALSE], f)
  <2>1. Becomes([v EXCEPT !.moving = TRUE, !.open = FALSE], {})
    BY <1>8, <1>12
  <2>2. Heard(v) /\ v.state \in {"downloading", "pausing"}
    BY <1>3, <1>7, <1>12
  <2>3. QED
    BY <1>2, <1>7, <1>9, <2>1, <2>2, MovesGood
<1>13. QED
  BY <1>8, <1>10, <1>11, <1>12

\* A partial file under its new name.
LEMMA RenamedIs ==
  ASSUME NEW d \in Rows, NEW r, r = Renamed(d)
  PROVE  /\ r \in Rows /\ r.state = d.state /\ r.net = d.net /\ r.part = d.part
         /\ r.pmeta = d.pmeta /\ Alike(r, d)
<1>1. PICK b \in BOOLEAN : b = (d.state = "pausing")
  OBVIOUS
<1>2. r = [d EXCEPT !.key = FALSE, !.bare = b]
  BY <1>1 DEF Renamed
<1>3. QED
  BY <1>2 DEF Rows, Alike

\* Its metadata has moved too, or was written anew, or is lost: then the download is
\* discarded.
LEMMA MoveMetaGood == ASSUME Good, MoveMeta PROVE Good'
<1>1. PICK f \in Failures({"meta", "disk", "write", "old", "open", "remove", "retire"}) :
          LET d == [dl EXCEPT !.moving = FALSE] IN
          /\ ~({"meta", "disk"} \subseteq f) /\ ~({"write", "old"} \subseteq f)
          /\ "disk" \notin f => f \cap {"write", "old"} = {}
          /\ Becomes(CASE "meta" \in f -> Reopened(d, f)
                       [] "write" \in f -> Canceled([Torn(d) EXCEPT !.open = "open" \notin f],
                                                    "canceling", f)
                       [] "old" \in f -> Canceled([Renamed(d) EXCEPT !.stray = TRUE,
                                                                    !.open = "open" \notin f],
                                                  "canceling", f)
                       [] f \cap {"meta", "write", "old"} = {} -> Reopened(Renamed(d), f), f)
  BY DEF MoveMeta
<1>2. /\ f \in SUBSET Mishaps /\ up /\ dl.moving /\ dl \in Rows
      /\ UNCHANGED <<suppressed, pending, asked, up, begun>>
  BY DEF MoveMeta, Failures, Mishaps, Good, TypeOK
<1>3. PICK d : d = Settled(dl)
  OBVIOUS
<1>4. d \in Rows /\ d.state = dl.state /\ d.net = dl.net
  BY <1>2, <1>3 DEF Rows, Settled
<1>5. /\ d.state \in {"downloading", "pausing"} /\ Partial(d) /\ Heard(d) /\ HasReply(d)
      /\ d.state # "canceled"
  BY <1>2, <1>3, <1>4 DEF Good, RowSound, Active, Heard
<1>6. PICK n : n = Renamed(d)
  OBVIOUS
<1>7. /\ n \in Rows /\ n.state = d.state /\ n.net = d.net /\ n.part = d.part
      /\ n.pmeta = d.pmeta /\ Alike(n, d)
  BY <1>4, <1>6, RenamedIs
<1>8. Partial(n) /\ Heard(n)
  BY <1>5, <1>7, SamePartial DEF Heard, IsRunning, HasReply
<1>9. PICK b \in BOOLEAN : b = ("open" \notin f)
  OBVIOUS
<1>10. ASSUME NEW e \in Rows, e.net = d.net, e.part = d.part, e.full = d.full,
              e.fmeta = d.fmeta,
              (e.pmeta = d.pmeta /\ e.flaws = d.flaws) \/ "torn rename" \in e.flaws
       PROVE  Served(Canceled(e, "canceling", f))
  <2>1. PICK c : c = Into(e, "canceling")
    OBVIOUS
  <2>2. /\ c \in Rows /\ c.part = e.part /\ c.full = e.full /\ c.fmeta = e.fmeta
        /\ c.pmeta = e.pmeta /\ c.flaws = e.flaws
    BY <2>1 DEF Into, Rows, States, Active
  <2>3. Resumable(c)
    BY <1>5, <1>10, <2>2 DEF Partial, Resumable
  <2>4. Heard(e)
    BY <1>5, <1>10 DEF Heard, IsRunning, HasReply
  <2>5. QED
    BY <2>1, <2>3, <2>4, HeardGone DEF Served
<1>11. PICK t : t = [n EXCEPT !.pmeta = "none", !.stray = TRUE,
                              !.flaws = n.flaws \cup {"torn rename"}, !.open = b]
  OBVIOUS
<1>12. /\ t \in Rows /\ t.net = d.net /\ t.part = d.part /\ t.full = d.full
       /\ t.fmeta = d.fmeta /\ "torn rename" \in t.flaws
  BY <1>7, <1>11 DEF Rows, Flaws, Alike
<1>13. PICK o : o = [n EXCEPT !.stray = TRUE, !.open = b]
  OBVIOUS
<1>14. /\ o \in Rows /\ o.net = d.net /\ o.part = d.part /\ o.full = d.full
       /\ o.fmeta = d.fmeta /\ o.pmeta = d.pmeta /\ o.flaws = d.flaws
  BY <1>7, <1>13 DEF Rows, Alike
<1>15. [Torn(d) EXCEPT !.open = b] = t
  BY <1>6, <1>7, <1>11 DEF Torn, Rows
<1>16. \E r \in {Reopened(d, f), Canceled(t, "canceling", f), Canceled(o, "canceling", f),
                 Reopened(n, f)} : Becomes(r, f)
  <2>1. Becomes(CASE "meta" \in f -> Reopened(d, f)
                  [] "write" \in f -> Canceled(t, "canceling", f)
                  [] "old" \in f -> Canceled(o, "canceling", f)
                  [] f \cap {"meta", "write", "old"} = {} -> Reopened(n, f), f)
    BY <1>1, <1>3, <1>6, <1>9, <1>13, <1>15 DEF Settled
  <2>2. CASE "meta" \in f
    BY <1>1, <2>1, <2>2
  <2>3. CASE "meta" \notin f /\ "write" \in f
    BY <1>1, <2>1, <2>3
  <2>4. CASE "meta" \notin f /\ "write" \notin f /\ "old" \in f
    BY <2>1, <2>4
  <2>5. CASE f \cap {"meta", "write", "old"} = {}
    BY <2>1, <2>5
  <2>6. QED
    BY <2>2, <2>3, <2>4, <2>5
<1>17. PICK r \in {Reopened(d, f), Canceled(t, "canceling", f), Canceled(o, "canceling", f),
                   Reopened(n, f)} : Becomes(r, f)
  BY <1>16
<1>18. Served(r)
  BY <1>5, <1>7, <1>8, <1>10, <1>12, <1>14, ReopenedSound
<1>19. dl' = r /\ Costs(f)
  BY <1>17 DEF Becomes
<1>20. /\ suppressed' \in BOOLEAN /\ pending' \in BOOLEAN /\ asked' \in BOOLEAN
       /\ pending' => asked'
      /\ up' = up /\ begun' \in 0..MaxStarts
  BY <1>2 DEF Good, TypeOK
<1>21. QED
  BY <1>2, <1>18, <1>19, <1>20, Lands

\* A piece of the body arrives, and is written if the reply is connected.
LEMMA ArriveGood == ASSUME Good, Arrive PROVE Good'
<1>1. PICK f \in Failures(Failing), progress \in BOOLEAN :
          LET b == Begins(dl.net) + dl.net.arrived + 1
              d == [dl EXCEPT !.net.buf = Append(@, b), !.net.arrived = @ + 1]
              w == IF d.net.wired THEN Written(d, f) ELSE d
          IN  Becomes(IF d.net.wired /\ progress THEN Progressed(w, f) ELSE w, f)
  BY DEF Arrive
<1>2. f \in SUBSET Mishaps
  BY DEF Failures, Failing, Mishaps
<1>3. Idle /\ HasReply(dl) /\ IsRunning(dl) /\ ToCome(dl.net) > 0 /\ RowSound(dl)
  BY DEF Arrive, IsRunning, Good, Idle
<1>4. Partial(dl) /\ dl.state \in {"downloading", "pausing"} /\ dl.state # "canceled"
  BY <1>3, ReplyRow
<1>5. PICK d : d = [dl EXCEPT !.net.buf = Append(@, Begins(dl.net) + dl.net.arrived + 1),
                              !.net.arrived = @ + 1]
  OBVIOUS
<1>6. /\ Partial(d) /\ HasReply(d) /\ d.state = dl.state /\ IsRunning(d)
      /\ Starting(d) <=> Starting(dl)
  BY <1>3, <1>4, <1>5, ArrivedSound
<1>7. PICK w : w = IF d.net.wired THEN Written(d, f) ELSE d
  OBVIOUS
<1>8. PICK r : r = IF d.net.wired /\ progress THEN Progressed(w, f) ELSE w
  OBVIOUS
<1>9. Served(r)
  <2>1. CASE ~d.net.wired
    <3>1. r = d
      BY <1>7, <1>8, <2>1
    <3>2. QED
      BY <1>4, <1>6, <3>1 DEF Served, RowSound, Active
  <2>2. CASE d.net.wired
    <3>1. IsOpen(d) /\ w \in {Written(d, f)} /\ d.state # "canceled"
      BY <1>4, <1>6, <1>7, <2>2 DEF IsOpen, IsRunning
    <3>2. \/ Gone(w) /\ IsRunning(d)
          \/ /\ Partial(w) /\ HasReply(w) /\ ~Starting(w)
             /\ IsRunning(w) <=> IsRunning(d)
             /\ w.state = d.state \/ (w.state = "canceled" /\ ~IsRunning(d))
      BY <1>6, <2>2, <3>1, WrittenSound
    <3>3. CASE Gone(w)
      <4>1. ~HasReply(w)
        BY <3>3 DEF Gone, Still, HasReply
      <4>2. r = w
        BY <1>8, <4>1 DEF Progressed
      <4>3. QED
        BY <3>3, <4>2 DEF Served
    <3>4. CASE Partial(w) /\ HasReply(w) /\ ~Starting(w) /\ IsRunning(w) /\ w.state = dl.state
      <4>1. CASE progress
        <5>1. r = Progressed(w, f)
          BY <1>8, <2>2, <4>1
        <5>2. QED
          BY <1>4, <3>4, <5>1, ProgressedSound
      <4>2. CASE ~progress
        <5>1. r = w
          BY <1>8, <4>2
        <5>2. QED
          BY <1>4, <3>4, <5>1 DEF Served, RowSound, Active
      <4>3. QED
        BY <4>1, <4>2
    <3>5. QED
      BY <1>6, <3>2, <3>3, <3>4
  <2>3. QED
    BY <2>1, <2>2
<1>10. Becomes(r, f) /\ UNCHANGED <<suppressed, pending, asked, up, begun>>
  BY <1>1, <1>5, <1>7, <1>8 DEF Arrive
<1>11. QED
  BY <1>2, <1>3, <1>9, <1>10, Handled

\* The reply finishes.
LEMMA EndGood == ASSUME Good, End PROVE Good'
<1>1. PICK f \in Failures(Failing), e \in {"done", "cut short", "failed"} :
          LET d == [dl EXCEPT !.net.end = e] IN
          Becomes(IF d.net.wired THEN Finished(d, f) ELSE d, IF e = "done" THEN f ELSE f \cup {e})
  BY DEF End
<1>2. PICK g : g = IF e = "done" THEN f ELSE f \cup {e}
  OBVIOUS
<1>3. g \in SUBSET Mishaps
  BY <1>2 DEF Failures, Failing, Mishaps
<1>4. Idle /\ HasReply(dl) /\ IsRunning(dl) /\ RowSound(dl)
  BY DEF End, IsRunning, Good, Idle
<1>5. Partial(dl) /\ dl.state \in {"downloading", "pausing"} /\ dl.state # "canceled"
  BY <1>4, ReplyRow
<1>6. PICK d : d = [dl EXCEPT !.net.end = e]
  OBVIOUS
<1>7. /\ Partial(d) /\ HasReply(d) /\ d.state = dl.state /\ ~IsRunning(d)
      /\ Starting(d) <=> Starting(dl)
  BY <1>4, <1>5, <1>6, EndedSound
<1>8. PICK r : r = IF d.net.wired THEN Finished(d, f) ELSE d
  OBVIOUS
<1>9. Served(r)
  <2>1. CASE d.net.wired
    <3>1. r = Finished(d, f) /\ ~Starting(d)
      BY <1>8, <2>1 DEF Starting
    <3>2. Outcome(r)
      BY <1>5, <1>7, <3>1, FinishedSound
    <3>3. QED
      BY <3>2, OutcomeServed
  <2>2. CASE ~d.net.wired
    <3>1. r = d
      BY <1>8, <2>2
    <3>2. QED
      BY <1>5, <1>7, <2>2, <3>1 DEF Served, RowSound, Active
  <2>3. QED
    BY <2>1, <2>2
<1>10. Becomes(r, g) /\ UNCHANGED <<suppressed, pending, asked, up, begun>>
  BY <1>1, <1>2, <1>6, <1>8 DEF End
<1>11. QED
  BY <1>3, <1>4, <1>9, <1>10, Handled

\* A rejected response is aborted.
LEMMA DeferredAbortGood == ASSUME Good, DeferredAbort PROVE Good'
<1>1. PICK f \in Failures(Failing) :
          Becomes(IF dl.net.wired THEN Finished(Cut(dl), f) ELSE Cut(dl), f)
  BY DEF DeferredAbort
<1>2. f \in SUBSET Mishaps
  BY DEF Failures, Failing, Mishaps
<1>3. Idle /\ HasReply(dl) /\ IsRunning(dl) /\ RowSound(dl)
  BY DEF DeferredAbort, IsRunning, Good, Idle
<1>4. Partial(dl) /\ dl.state \in {"downloading", "pausing"}
  BY <1>3, ReplyRow
<1>5. PICK d \in {Cut(dl)} : TRUE
  OBVIOUS
<1>6. /\ Partial(d) /\ d.state = dl.state /\ HasReply(d) /\ ~IsRunning(d)
      /\ d.net.wired = dl.net.wired
  BY <1>3, <1>4, <1>5, CutSound
<1>7. PICK r : r = IF dl.net.wired THEN Finished(d, f) ELSE d
  OBVIOUS
<1>8. Served(r)
  <2>1. CASE dl.net.wired
    <3>1. r = Finished(d, f) /\ ~Starting(d)
      BY <1>6, <1>7, <2>1 DEF Starting
    <3>2. Outcome(r)
      BY <1>4, <1>6, <3>1, FinishedSound
    <3>3. QED
      BY <3>2, OutcomeServed
  <2>2. CASE ~dl.net.wired
    <3>1. r = d
      BY <1>7, <2>2
    <3>2. QED
      BY <1>4, <1>6, <2>2, <3>1 DEF Served, RowSound, Active
  <2>3. QED
    BY <2>1, <2>2
<1>9. Becomes(r, f) /\ UNCHANGED <<suppressed, pending, asked, up, begun>>
  BY <1>1, <1>5, <1>7 DEF DeferredAbort
<1>10. QED
  BY <1>2, <1>3, <1>8, <1>9, Handled

\* A download that stalls.
LEMMA TimeoutGood == ASSUME Good, Timeout PROVE Good'
<1>1. PICK f \in Failures(Failing) : Becomes(Stalled(dl, f), f)
  BY DEF Timeout
<1>2. f \in SUBSET Mishaps
  BY DEF Failures, Failing, Mishaps
<1>3. /\ Idle /\ HasReply(dl) /\ ~Starting(dl) /\ dl.state = "downloading" /\ RowSound(dl)
  BY DEF Timeout, IsOpen, Good, Idle
<1>4. Partial(dl) /\ IsRunning(dl)
  BY <1>3 DEF RowSound, Active, Starting
<1>5. Served(Stalled(dl, f))
  BY <1>3, <1>4, StalledSound, OutcomeServed
<1>6. UNCHANGED <<suppressed, pending, asked, up, begun>>
  BY DEF Timeout
<1>7. QED
  BY <1>1, <1>2, <1>3, <1>5, <1>6, Handled

\* A published download whose description is known, or not asked for.
LEMMA ReadyGood ==
  ASSUME Good, Idle, dl.state = "fetching", dl' = [dl EXCEPT !.state = "ready", !.fmeta = "clean"],
         suppressed' \in BOOLEAN, UNCHANGED <<pending, asked, up, begun>>,
         faults' \in 0..MaxFaults
  PROVE  Good'
<1>1. dl \in Rows /\ Still(dl) /\ dl.full # NoFile /\ dl.net = NoReply /\ dl.part = NoFile
  BY DEF Good, TypeOK, RowSound, Still, Idle
<1>2. /\ dl' \in Rows /\ dl'.state = "ready" /\ dl'.net = NoReply /\ dl'.part = NoFile
      /\ dl'.full = dl.full /\ dl'.pmeta = dl.pmeta /\ dl'.fmeta = "clean"
      /\ dl'.moving = dl.moving /\ dl'.stray = dl.stray /\ dl'.flaws = dl.flaws
  BY <1>1 DEF Rows, States
<1>3. TypeOK'
  BY <1>2 DEF Good, TypeOK, HasReply
<1>4. RowSound(dl') /\ ~dl'.moving
  <2>1. Still(dl')
    BY <1>1, <1>2 DEF Still, WholeArchive
  <2>2. QED
    BY <1>1, <1>2, <2>1 DEF RowSound, Active, Still
<1>5. CapabilitiesRetired'
  BY <1>1, <1>2 DEF Good, CapabilitiesRetired, Exposed
<1>6. up' /\ dl'.state # "none"
  BY <1>2 DEF Idle
<1>7. QED
  BY <1>3, <1>4, <1>5, <1>6 DEF Good

\* The description arrives.
LEMMA QueryAnswerGood == ASSUME Good, QueryAnswer PROVE Good'
<1>1. suppressed' \in BOOLEAN /\ faults' \in 0..MaxFaults
  BY DEF QueryAnswer, Good, TypeOK
<1>2. QED
  BY <1>1, ReadyGood DEF QueryAnswer

-----------------------------------------------------------------------------
(* The user.                                                                *)

\* pauseDownload, whatever the download is at.
LEMMA HeldGood ==
  ASSUME Good, Idle, Becomes(Held(dl, {}), {}), suppressed' \in BOOLEAN,
         UNCHANGED <<pending, asked, up, begun>>,
         ArrivedEarly => "pause before connected" \in Habits
  PROVE  Good'
<1>1. {} \in SUBSET Mishaps
  OBVIOUS
<1>2. faults' \in 0..MaxFaults
  BY <1>1, CostsType DEF Good, TypeOK, Becomes
<1>3. /\ pending' \in BOOLEAN /\ asked' \in BOOLEAN /\ (pending' => asked')
      /\ up' = up /\ begun' \in 0..MaxStarts /\ up
  BY DEF Good, TypeOK, Idle
<1>4. CASE dl.state = "fetching"
  <2>1. dl' = [dl EXCEPT !.state = "ready", !.fmeta = "clean"]
    BY <1>4 DEF Becomes, Held
  <2>2. QED
    BY <1>2, <1>4, <2>1, ReadyGood
<1>5. CASE dl.state = "downloading"
  <2>1. Served(dl)
    BY <1>5 DEF Good, RowSound, Active, Served, Idle
  <2>2. PICK r : r = Held(dl, {})
    OBVIOUS
  <2>3. Served(r) /\ dl' = r /\ Costs({})
    <3>1. Habits = {} => ~(Starting(dl) /\ ~IsRunning(dl))
      BY DEF ArrivedEarly
    <3>2. QED
      BY <2>1, <2>2, <3>1, HeldSound DEF Becomes
  <2>4. QED
    BY <1>1, <1>3, <2>3, Lands
<1>6. CASE dl.state \notin {"fetching", "downloading"}
  <2>1. dl' = dl
    BY <1>6 DEF Becomes, Held
  <2>2. QED
    BY <1>2, <1>3, <2>1, Unmoved
<1>7. QED
  BY <1>4, <1>5, <1>6

\* The user pauses.
LEMMA PauseGood == ASSUME Good, Pause PROVE Good'
<1>1. suppressed' \in BOOLEAN
  BY DEF Pause, Good, TypeOK
<1>2. QED
  BY <1>1, HeldGood DEF Pause

\* The user cancels: a row whose reply is not connected yet stays until it is.
LEMMA CancelGood == ASSUME Good, Cancel PROVE Good'
<1>1. PICK f \in Failures({"remove", "retire"}) : Becomes(Canceled(dl, "canceling", f), f)
  BY DEF Cancel
<1>2. f \in SUBSET Mishaps
  BY DEF Failures, Mishaps
<1>3. Idle /\ dl.state \in {"downloading", "pausing"} /\ dl.state # "canceled"
  BY DEF Cancel
<1>4. Partial(dl) /\ HasReply(dl) /\ (dl.net.wired => IsRunning(dl))
  BY <1>3 DEF Good, RowSound, Active, Idle
<1>5. PICK c : c = Into(dl, "canceling")
  OBVIOUS
<1>6. "canceling" \in States /\ dl \in Rows
  BY <1>4 DEF States, Active, Partial, Resumable
<1>7. Partial(c)
  BY <1>3, <1>4, <1>5, <1>6, IntoSound
<1>8. PICK r \in {Canceled(dl, "canceling", f)} : TRUE
  OBVIOUS
<1>9. /\ Heard(dl) => Gone(r)
      /\ ~Heard(dl) => /\ Partial(r) /\ r.state = "canceling" /\ ~IsRunning(r)
                       /\ HasReply(r) <=> HasReply(dl)
                       /\ Starting(r) <=> Starting(dl)
  BY <1>5, <1>6, <1>7, <1>8, CanceledSound
<1>10. Served(r)
  <2>1. CASE Heard(dl)
    BY <1>9, <2>1 DEF Served
  <2>2. CASE ~Heard(dl)
    <3>1. Starting(dl)
      BY <1>4, <2>2 DEF Heard, Starting
    <3>2. QED
      BY <1>4, <1>9, <2>2, <3>1 DEF Served, RowSound, Active, Starting
  <2>3. QED
    BY <2>1, <2>2
<1>11. Becomes(r, f) /\ UNCHANGED <<suppressed, pending, asked, up, begun>>
  BY <1>1, <1>8 DEF Cancel
<1>12. QED
  BY <1>2, <1>3, <1>10, <1>11, Handled

\* The user resumes.
LEMMA ResumeGood == ASSUME Good, Resume PROVE Good'
<1>1. PICK f \in Failures(Failing) : Becomes(Resumed(dl, f), f)
  BY DEF Resume
<1>2. f \in SUBSET Mishaps
  BY DEF Failures, Failing, Mishaps
<1>3. Idle /\ ~Starting(dl) /\ dl.state \in {"paused", "error", "pausing"} /\ RowSound(dl)
  BY DEF Resume, Good, Idle
<1>4. Partial(dl)
  BY <1>3 DEF RowSound, Active
<1>5. Served(Resumed(dl, f))
  BY <1>3, <1>4, ResumedSound, OutcomeServed
<1>6. begun' \in 0..MaxStarts
  BY DownloadsAssumption DEF Good, TypeOK, Resume
<1>7. /\ suppressed' \in BOOLEAN /\ pending' \in BOOLEAN /\ asked' \in BOOLEAN
      /\ pending' => asked'
      /\ up' = up /\ up
  BY DEF Good, TypeOK, Resume, Idle
<1>8. PICK r : r = Resumed(dl, f)
  OBVIOUS
<1>9. Served(r) /\ dl' = r /\ Costs(f)
  BY <1>1, <1>5, <1>8 DEF Becomes
<1>10. QED
  BY <1>2, <1>6, <1>7, <1>9, Lands

\* All is paused.
LEMMA PauseAllGood == ASSUME Good, PauseAll PROVE Good'
<1>1. Idle /\ suppressed' \in BOOLEAN
  BY DEF PauseAll
<1>2. CASE dl.listed
  BY <1>1, <1>2, HeldGood DEF PauseAll
<1>3. CASE ~dl.listed
  <2>1. {} \in SUBSET Mishaps
    OBVIOUS
  <2>2. dl' = dl /\ Costs({})
    BY <1>3 DEF PauseAll, Becomes
  <2>3. faults' \in 0..MaxFaults
    BY <2>1, <2>2, CostsType DEF Good, TypeOK
  <2>4. /\ pending' \in BOOLEAN /\ asked' \in BOOLEAN /\ (pending' => asked')
        /\ up' = up /\ begun' \in 0..MaxStarts
    BY DEF Good, TypeOK, PauseAll
  <2>5. QED
    BY <1>1, <2>2, <2>3, <2>4, Unmoved
<1>4. QED
  BY <1>2, <1>3

\* Starts are admitted again.
LEMMA EndPauseAllGood == ASSUME Good, EndPauseAll PROVE Good'
<1>1. /\ dl' = dl /\ suppressed' \in BOOLEAN /\ pending' \in BOOLEAN /\ asked' \in BOOLEAN
      /\ pending' => asked'
      /\ up' = up /\ faults' \in 0..MaxFaults /\ begun' \in 0..MaxStarts
  BY DEF Good, TypeOK, EndPauseAll
<1>2. QED
  BY <1>1, Unmoved

-----------------------------------------------------------------------------
(* The publication of an archive.                                           *)

\* While it is under way the archive is all there is.
LEMMA PublishingGood ==
  ASSUME Good, NEW d \in Rows, dl' = d, d.state \in {"renamed", "named", "written"},
         d.net = dl.net, Published(d), faults' \in 0..MaxFaults, up,
         UNCHANGED <<suppressed, pending, asked, up, begun>>
  PROVE  Good'
<1>1. TypeOK'
  BY DEF Good, TypeOK, HasReply
<1>2. RowSound(dl') /\ ~dl'.moving
  BY DEF RowSound, Active, Published
<1>3. CapabilitiesRetired'
  BY DEF CapabilitiesRetired, Idle, Publishing
<1>4. QED
  BY <1>1, <1>2, <1>3 DEF Good

\* A download whose archive could not be renamed can be resumed.
LEMMA UnpublishedGood ==
  ASSUME Good, up, NEW d, Resumable(d), ~d.moving, d.stray => "logged" \in d.flaws,
         NEW g, dl' = Unpublished(d, g),
         NEW f \in SUBSET Mishaps, Costs(f),
         UNCHANGED <<suppressed, pending, asked, up, begun>>
  PROVE  Good'
<1>1. PICK e : e = [d EXCEPT !.state = "error"]
  OBVIOUS
<1>2. d \in Rows
  BY DEF Resumable
<1>3. e \in Rows /\ e.state = "error" /\ e.part = d.part /\ e.pmeta = d.pmeta /\ Alike(e, d)
  BY <1>1, <1>2 DEF Rows, States, Alike
<1>4. PICK q : q = Recorded(e, g)
  OBVIOUS
<1>5. /\ q \in Rows /\ q.state = "error" /\ q.part = d.part /\ Alike(q, d)
      /\ q.pmeta \in {d.pmeta, "urls"}
  BY <1>3, <1>4, RecordedIs DEF Alike
<1>6. PICK r : r = [q EXCEPT !.net = NoReply]
  OBVIOUS
<1>7. /\ r \in Rows /\ r.state = "error" /\ r.part = d.part /\ Alike(r, d)
      /\ r.pmeta \in {d.pmeta, "urls"} /\ r.net = NoReply
  BY <1>5, <1>6 DEF Rows, Alike
<1>8. Served(r)
  <2>1. Partial(r) /\ ~HasReply(r)
    BY <1>7 DEF Partial, Resumable, Alike, HasReply
  <2>2. QED
    BY <1>7, <2>1, OutcomeServed DEF Outcome
<1>9. dl' = r
  BY <1>1, <1>4, <1>6 DEF Unpublished, Retired
<1>10. /\ suppressed' \in BOOLEAN /\ pending' \in BOOLEAN /\ asked' \in BOOLEAN
       /\ pending' => asked'
      /\ up' = up /\ begun' \in 0..MaxStarts
  BY DEF Good, TypeOK
<1>11. QED
  BY <1>8, <1>9, <1>10, Lands

\* The archive gets its name.
LEMMA RenameArchiveGood == ASSUME Good, RenameArchive PROVE Good'
<1>1. PICK f \in Failures({"disk", "meta"}) :
          /\ dl' = IF "disk" \in f \/ dl.bare THEN Unpublished(dl, f)
                   ELSE [dl EXCEPT !.state = "renamed", !.full = dl.part, !.part = NoFile,
                                   !.flaws = IF dl.net.expected = Unmeasured
                                             THEN @ \cup {"unmeasured"} ELSE @]
          /\ Costs(f)
  BY DEF RenameArchive
<1>2. f \in SUBSET Mishaps
  BY DEF Failures, Mishaps
<1>3. /\ up /\ dl.state = "finished" /\ dl.state # "canceled" /\ dl \in Rows
      /\ UNCHANGED <<suppressed, pending, asked, up, begun>>
  BY DEF RenameArchive, Good, TypeOK
<1>4. Partial(dl) /\ Received(dl)
  BY <1>3 DEF Good, RowSound
<1>5. /\ Resumable(dl) /\ ~dl.moving /\ (dl.stray => "logged" \in dl.flaws)
      /\ dl.part \in Prefixes /\ dl.full = NoFile /\ dl.fmeta = "none"
  BY <1>4 DEF Partial, Resumable
<1>6. CASE "disk" \in f \/ dl.bare
  BY <1>1, <1>2, <1>3, <1>5, <1>6, UnpublishedGood
<1>7. CASE ~("disk" \in f \/ dl.bare)
  <2>1. PICK x : x = IF dl.net.expected = Unmeasured
                     THEN dl.flaws \cup {"unmeasured"} ELSE dl.flaws
    OBVIOUS
  <2>2. /\ x \in SUBSET Flaws /\ dl.flaws \subseteq x
        /\ "unmeasured" \notin x => dl.part = Bytes
    BY <1>3, <1>4, <2>1 DEF Received, Rows, Flaws
  <2>3. PICK d : d = [dl EXCEPT !.state = "renamed", !.full = dl.part, !.part = NoFile,
                                !.flaws = x]
    OBVIOUS
  <2>4. dl' = d
    BY <1>1, <1>3, <1>7, <2>1, <2>3 DEF Rows
  <2>5. dl.part \in Seq(1..Size) /\ dl.part # NoFile
    BY <1>5, PrefixType
  <2>6. /\ d \in Rows /\ d.state = "renamed" /\ d.net = dl.net /\ d.part = NoFile
        /\ d.full = dl.part /\ d.pmeta = dl.pmeta /\ d.fmeta = "none"
        /\ d.moving = dl.moving
        /\ d.stray = dl.stray /\ d.flaws = x
    BY <1>3, <1>5, <2>2, <2>3, <2>5 DEF Rows, States, Publishing
  <2>7. Published(d)
    BY <1>4, <1>5, <2>2, <2>5, <2>6 DEF Published, WholeArchive, Received
  <2>8. faults' \in 0..MaxFaults
    BY <1>1, <1>2, CostsType DEF Good, TypeOK
  <2>9. QED
    BY <1>3, <2>4, <2>6, <2>7, <2>8, PublishingGood
<1>8. QED
  BY <1>6, <1>7

\* Its metadata does, or the archive is renamed back.
LEMMA RenameMetaGood == ASSUME Good, RenameMeta PROVE Good'
<1>1. PICK f \in Failures({"disk", "meta"}) :
          /\ "disk" \in f => "meta" \in f
          /\ dl' = CASE "meta" \notin f ->
                          [dl EXCEPT !.state = "named", !.fmeta = dl.pmeta, !.pmeta = "none"]
                     [] f = {"meta"} ->
                          Unpublished([dl EXCEPT !.part = dl.full, !.full = NoFile,
                                                 !.flaws = @ \ {"unmeasured"}], {})
                     [] f = {"meta", "disk"} -> [dl EXCEPT !.state = "named"]
          /\ Costs(f)
  BY DEF RenameMeta
<1>2. f \in SUBSET Mishaps /\ f \in SUBSET {"disk", "meta"}
  BY DEF Failures, Mishaps
<1>3. /\ up /\ dl.state = "renamed" /\ dl \in Rows
      /\ UNCHANGED <<suppressed, pending, asked, up, begun>>
  BY DEF RenameMeta, Good, TypeOK
<1>4. Published(dl)
  BY <1>3 DEF Good, RowSound
<1>5. /\ dl.part = NoFile /\ dl.full \in Prefixes /\ dl.pmeta = "urls" /\ dl.fmeta = "none"
      /\ ~dl.moving /\ (dl.stray => "logged" \in dl.flaws)
  BY <1>3, <1>4 DEF Published, WholeArchive
<1>6. faults' \in 0..MaxFaults
  BY <1>1, <1>2, CostsType DEF Good, TypeOK
<1>7. CASE "meta" \notin f
  <2>1. PICK d : d = [dl EXCEPT !.state = "named", !.fmeta = "urls", !.pmeta = "none"]
    OBVIOUS
  <2>2. dl' = d
    BY <1>1, <1>5, <1>7, <2>1
  <2>3. /\ d \in Rows /\ d.state = "named" /\ d.net = dl.net /\ d.part = dl.part
        /\ d.full = dl.full /\ d.moving = dl.moving /\ d.stray = dl.stray
        /\ d.flaws = dl.flaws
    BY <1>3, <2>1 DEF Rows, States, Publishing
  <2>4. Published(d)
    BY <1>4, <2>3 DEF Published, WholeArchive
  <2>5. QED
    BY <1>3, <1>6, <2>2, <2>3, <2>4, PublishingGood
<1>8. CASE f = {"meta"}
  \* The archive is a partial file again.
  <2>1. PICK x : x = dl.flaws \ {"unmeasured"}
    OBVIOUS
  <2>2. PICK d : d = [dl EXCEPT !.part = dl.full, !.full = NoFile, !.flaws = x]
    OBVIOUS
  <2>3. dl' = Unpublished(d, {})
    <3>1. dl' = Unpublished([dl EXCEPT !.part = dl.full, !.full = NoFile,
                                       !.flaws = @ \ {"unmeasured"}], {})
      BY <1>1, <1>8
    <3>2. QED
      BY <1>3, <2>1, <2>2, <3>1 DEF Rows
  <2>4. x \in SUBSET Flaws /\ dl.full \in Seq(1..Size) /\ (dl.stray => "logged" \in x)
    BY <1>3, <1>5, <2>1, PrefixType DEF Rows, Flaws
  <2>5. /\ d \in Rows /\ d.part = dl.full /\ d.full = NoFile /\ d.pmeta = "urls"
        /\ d.fmeta = "none" /\ d.moving = dl.moving /\ d.stray = dl.stray /\ d.flaws = x
    BY <1>3, <1>5, <2>2, <2>4 DEF Rows
  <2>6. Resumable(d)
    BY <1>5, <2>5 DEF Resumable
  <2>7. QED
    BY <1>1, <1>2, <1>3, <1>5, <2>3, <2>4, <2>5, <2>6, UnpublishedGood
<1>9. CASE f = {"meta", "disk"}
  <2>1. PICK d : d = [dl EXCEPT !.state = "named"]
    OBVIOUS
  <2>2. dl' = d
    BY <1>1, <1>9, <2>1
  <2>3. /\ d \in Rows /\ d.state = "named" /\ d.net = dl.net /\ d.part = dl.part
        /\ d.full = dl.full /\ d.moving = dl.moving /\ d.stray = dl.stray
        /\ d.flaws = dl.flaws
    BY <1>3, <2>1 DEF Rows, States, Publishing
  <2>4. Published(d)
    BY <1>4, <2>3 DEF Published, WholeArchive
  <2>5. QED
    BY <1>3, <1>6, <2>2, <2>3, <2>4, PublishingGood
<1>10. QED
  BY <1>1, <1>2, <1>7, <1>8, <1>9

\* The metadata is written without URLs, or the user is told.
LEMMA WriteMetaGood == ASSUME Good, WriteMeta PROVE Good'
<1>1. PICK f \in Failures({"meta", "remove"}) :
          /\ "remove" \in f => "meta" \in f
          /\ dl' = [dl EXCEPT !.state = "written", !.urls = FALSE,
                              !.fmeta = CASE "meta" \notin f -> "clean"
                                          [] f = {"meta"} -> "none"
                                          [] f = {"meta", "remove"} -> @,
                              !.flaws = IF "remove" \in f THEN @ \cup {"told"} ELSE @]
          /\ Costs(f)
  BY DEF WriteMeta
<1>2. f \in SUBSET Mishaps /\ f \in SUBSET {"meta", "remove"}
  BY DEF Failures, Mishaps
<1>3. /\ up /\ dl.state = "named" /\ dl \in Rows
      /\ UNCHANGED <<suppressed, pending, asked, up, begun>>
  BY DEF WriteMeta, Good, TypeOK
<1>4. Published(dl)
  BY <1>3 DEF Good, RowSound
<1>5. faults' \in 0..MaxFaults
  BY <1>1, <1>2, CostsType DEF Good, TypeOK
<1>6. PICK x : x = CASE "meta" \notin f -> "clean"
                     [] f = {"meta"} -> "none"
                     [] f = {"meta", "remove"} -> dl.fmeta
  OBVIOUS
<1>7. x \in {"none", "urls", "clean"} /\ (x = "urls" => "remove" \in f)
  <2>1. dl.fmeta \in {"none", "urls", "clean"}
    BY <1>3 DEF Rows
  <2>2. "meta" \notin f \/ f = {"meta"} \/ f = {"meta", "remove"}
    BY <1>1, <1>2
  <2>3. CASE "meta" \notin f
    BY <1>6, <2>3
  <2>4. CASE f = {"meta"}
    BY <1>6, <2>4
  <2>5. CASE f = {"meta", "remove"}
    BY <1>6, <2>1, <2>5
  <2>6. QED
    BY <2>2, <2>3, <2>4, <2>5
<1>8. PICK y : y = IF "remove" \in f THEN dl.flaws \cup {"told"} ELSE dl.flaws
  OBVIOUS
<1>9. /\ y \in SUBSET Flaws /\ dl.flaws \subseteq y /\ ("remove" \in f => "told" \in y)
      /\ y \cap {"unmeasured", "bare name"} = dl.flaws \cap {"unmeasured", "bare name"}
  BY <1>3, <1>8 DEF Rows, Flaws
<1>10. PICK d : d = [dl EXCEPT !.state = "written", !.urls = FALSE, !.fmeta = x, !.flaws = y]
  OBVIOUS
<1>11. dl' = d
  BY <1>1, <1>3, <1>6, <1>8, <1>10 DEF Rows
<1>12. /\ d \in Rows /\ d.state = "written" /\ d.net = dl.net /\ d.part = dl.part
       /\ d.full = dl.full /\ d.fmeta = x /\ d.moving = dl.moving /\ d.stray = dl.stray
       /\ d.flaws = y
  BY <1>3, <1>7, <1>9, <1>10 DEF Rows, States, Publishing
<1>13. Published(d)
  BY <1>4, <1>7, <1>9, <1>12 DEF Published, WholeArchive
<1>14. QED
  BY <1>3, <1>5, <1>11, <1>12, <1>13, PublishingGood

\* A row that is listed as an archive.
LEMMA ArchiveGood ==
  ASSUME Good, NEW r, dl' = r, Still(r), r.full # NoFile, r.state \in {"fetching", "ready"},
         Exposed(r) => r.flaws \cap {"told", "logged"} # {},
         r.state = "fetching" => r.pmeta = "none" /\ r.fmeta # "urls",
         faults' \in 0..MaxFaults, up' = TRUE, UNCHANGED <<suppressed, pending, asked, begun>>
  PROVE  Good'
<1>1. r \in Rows /\ r.net = NoReply /\ ~r.moving
  BY DEF Still
<1>2. TypeOK'
  BY <1>1 DEF Good, TypeOK, HasReply
<1>3. RowSound(dl')
  BY DEF RowSound, Active
<1>4. CapabilitiesRetired'
  BY DEF CapabilitiesRetired, Exposed
<1>5. QED
  BY <1>1, <1>2, <1>3, <1>4 DEF Good

\* What is left of the metadata is retired, or the user is told.
LEMMA PublishGood == ASSUME Good, Publish PROVE Good'
<1> DEFINE Kept(g) == "remove" \in g /\ dl.pmeta # "none"
<1>1. PICK f \in Failures({"remove"}) :
          /\ dl' = [Retired(dl) EXCEPT
                       !.pmeta = IF Kept(f) THEN @ ELSE "none",
                       !.flaws = IF Kept(f) THEN @ \cup {"told"} ELSE @,
                       !.state = IF suppressed \/ Kept(f) \/ "told" \in dl.flaws
                                 THEN "ready" ELSE "fetching",
                       !.fmeta = IF suppressed /\ ~(Kept(f) \/ "told" \in dl.flaws)
                                 THEN "clean" ELSE @]
          /\ Costs(f)
  BY DEF Publish
<1>2. f \in SUBSET Mishaps
  BY DEF Failures, Mishaps
<1>3. /\ up /\ dl.state = "written" /\ dl \in Rows
      /\ UNCHANGED <<suppressed, pending, asked, up, begun>>
  BY DEF Publish, Good, TypeOK
<1>4. Published(dl)
  BY <1>3 DEF Good, RowSound
<1>5. faults' \in 0..MaxFaults
  BY <1>1, <1>2, CostsType DEF Good, TypeOK
<1>6. PICK kept \in BOOLEAN : kept = Kept(f)
  OBVIOUS
<1>7. PICK told \in BOOLEAN : told = (kept \/ "told" \in dl.flaws)
  OBVIOUS
<1>8. PICK w : w = IF kept THEN dl.flaws \cup {"told"} ELSE dl.flaws
  OBVIOUS
<1>9. PICK x : x = IF kept THEN dl.pmeta ELSE "none"
  OBVIOUS
<1>10. PICK y : y = IF suppressed \/ told THEN "ready" ELSE "fetching"
  OBVIOUS
<1>11. PICK z : z = IF suppressed /\ ~told THEN "clean" ELSE dl.fmeta
  OBVIOUS
<1>12. dl' = [dl EXCEPT !.net = NoReply, !.pmeta = x, !.flaws = w, !.state = y, !.fmeta = z]
  <2>1. dl' = [[dl EXCEPT !.net = NoReply] EXCEPT
                       !.pmeta = IF kept THEN @ ELSE "none",
                       !.flaws = IF kept THEN @ \cup {"told"} ELSE @,
                       !.state = IF suppressed \/ told THEN "ready" ELSE "fetching",
                       !.fmeta = IF suppressed /\ ~told THEN "clean" ELSE @]
    BY <1>1, <1>6, <1>7 DEF Retired
  <2>2. QED
    BY <1>3, <1>8, <1>9, <1>10, <1>11, <2>1 DEF Rows
<1> HIDE DEF Kept
<1>13. /\ w \in SUBSET Flaws /\ dl.flaws \subseteq w /\ (told => "told" \in w)
       /\ w \cap {"unmeasured", "bare name"} = dl.flaws \cap {"unmeasured", "bare name"}
  BY <1>3, <1>7, <1>8 DEF Rows, Flaws
<1>14. /\ x \in {"none", "urls"} /\ y \in {"ready", "fetching"}
       /\ z \in {"none", "urls", "clean"}
       /\ ~told => x = "none" /\ z # "urls"
       /\ y = "fetching" => ~told
  <2>1. dl.pmeta \in {"none", "urls"} /\ dl.fmeta \in {"none", "urls", "clean"}
    BY <1>3 DEF Rows
  <2>2. y \in {"ready", "fetching"} /\ (y = "fetching" => ~told)
    BY <1>10
  <2>3. x \in {"none", "urls"} /\ (~told => x = "none")
    BY <1>7, <1>9, <2>1
  <2>4. dl.fmeta = "urls" => told
    BY <1>3, <1>4, <1>7 DEF Published
  <2>5. z \in {"none", "urls", "clean"} /\ (~told => z # "urls")
    BY <1>11, <2>1, <2>4
  <2>6. QED
    BY <2>2, <2>3, <2>5
<1>15. PICK r : r = [dl EXCEPT !.net = NoReply, !.pmeta = x, !.flaws = w, !.state = y, !.fmeta = z]
  OBVIOUS
<1>16. /\ r \in Rows /\ r.net = NoReply /\ r.part = dl.part /\ r.full = dl.full
       /\ r.pmeta = x /\ r.state = y /\ r.fmeta = z /\ r.moving = dl.moving
       /\ r.stray = dl.stray /\ r.flaws = w
  BY <1>3, <1>13, <1>14, <1>15 DEF Rows, States
<1>17. Still(r) /\ r.full # NoFile
  BY <1>4, <1>13, <1>16 DEF Published, Still, WholeArchive
<1>18. Exposed(r) => r.flaws \cap {"told", "logged"} # {}
  BY <1>4, <1>13, <1>14, <1>16 DEF Published, Exposed
<1>19. up' = TRUE
  BY <1>3 DEF Good, TypeOK
<1>20. QED
  BY <1>3, <1>5, <1>12, <1>14, <1>15, <1>16, <1>17, <1>18, <1>19, ArchiveGood

-----------------------------------------------------------------------------
(* Crash and restart.                                                       *)

\* What is known of the files whatever the download is at.
LEMMA FilesKnown ==
  ASSUME Good
  PROVE  /\ dl \in Rows /\ dl.part \in {NoFile} \cup Prefixes /\ WholeArchive(dl)
         /\ dl.part \notin {NoFile, <<>>} => dl.pmeta = "urls" \/ "torn rename" \in dl.flaws
         /\ dl.full # NoFile => dl.part = NoFile
         /\ dl.full = NoFile => dl.fmeta = "none"
<1>1. dl \in Rows /\ dl.state \in States
  BY DEF Good, TypeOK, Rows
<1>2. CASE dl.moving
  <2>1. PICK d : d = Settled(dl)
    OBVIOUS
  <2>2. /\ d.part = dl.part /\ d.full = dl.full /\ d.fmeta = dl.fmeta /\ d.pmeta = dl.pmeta
        /\ d.flaws = dl.flaws /\ d.state = dl.state
    BY <1>1, <2>1 DEF Rows, Settled
  <2>3. Partial(d)
    BY <1>2, <2>1, <2>2 DEF Good, RowSound, Active
  <2>4. QED
    BY <1>1, <2>2, <2>3 DEF Partial, Resumable, WholeArchive
<1>3. CASE ~dl.moving
  <2>1. RowSound(dl)
    BY <1>3 DEF Good
  <2>2. CASE dl.state \in Active \cup {"paused", "error", "finished"}
    <3>1. Partial(dl)
      BY <2>1, <2>2 DEF RowSound
    <3>2. QED
      BY <1>1, <3>1 DEF Partial, Resumable, WholeArchive
  <2>3. CASE dl.state \in {"none", "fetching", "ready"}
    BY <1>1, <2>1, <2>3 DEF RowSound, Still
  <2>4. CASE dl.state \in {"renamed", "named", "written"}
    BY <1>1, <2>1, <2>4 DEF RowSound, Published
  <2>5. QED
    BY <1>1, <2>1, <2>2, <2>3, <2>4 DEF RowSound, States, Publishing
<1>4. QED
  BY <1>2, <1>3

\* What a crash leaves: the files, and of a partial file that was being written a prefix.
LEMMA CrashGood == ASSUME Good, Crash PROVE Good'
<1>1. PICK n \in 0..Size :
          /\ dl.part = NoFile => n = 0
          /\ dl.part # NoFile => n <= Len(dl.part) /\ (~dl.open => n = Len(dl.part))
          /\ dl' = [OnDisk(IF dl.moving THEN Torn(dl) ELSE dl) EXCEPT
                       !.part = IF dl.part = NoFile THEN NoFile ELSE SubSeq(dl.part, 1, n)]
  BY DEF Crash
<1>2. /\ up' = FALSE /\ suppressed' = FALSE /\ pending' = FALSE /\ asked' = FALSE
      /\ Costs({"crash"})
      /\ UNCHANGED begun
  BY DEF Crash
<1>3. faults' \in 0..MaxFaults
  <2>1. {"crash"} \in SUBSET Mishaps
    BY DEF Mishaps
  <2>2. QED
    BY <1>2, <2>1, CostsType DEF Good, TypeOK
<1>4. /\ dl \in Rows /\ dl.part \in {NoFile} \cup Prefixes /\ WholeArchive(dl)
      /\ dl.part \notin {NoFile, <<>>} => dl.pmeta = "urls" \/ "torn rename" \in dl.flaws
      /\ dl.full # NoFile => dl.part = NoFile
      /\ dl.full = NoFile => dl.fmeta = "none"
  BY FilesKnown
<1>5. PICK t : t = IF dl.moving THEN Torn(dl) ELSE dl
  OBVIOUS
<1>6. /\ t \in Rows /\ t.full = dl.full /\ t.fmeta = dl.fmeta
      /\ t.flaws \in {dl.flaws, dl.flaws \cup {"torn rename"}}
      /\ t.pmeta = dl.pmeta \/ "torn rename" \in t.flaws
  <2>1. CASE ~dl.moving
    BY <1>4, <1>5, <2>1
  <2>2. CASE dl.moving
    <3>1. PICK m : m = Renamed(dl)
      OBVIOUS
    <3>2. m \in Rows /\ m.full = dl.full /\ m.fmeta = dl.fmeta /\ m.flaws = dl.flaws
      BY <1>4, <3>1, RenamedIs DEF Alike
    <3>3. PICK x : x = dl.flaws \cup {"torn rename"}
      OBVIOUS
    <3>4. x \in SUBSET Flaws
      BY <1>4, <3>3 DEF Rows, Flaws
    <3>5. t = [m EXCEPT !.pmeta = "none", !.stray = TRUE, !.flaws = x]
      BY <1>5, <2>2, <3>1, <3>2, <3>3 DEF Torn, Rows
    <3>6. /\ t \in Rows /\ t.full = m.full /\ t.fmeta = m.fmeta /\ t.flaws = x
      BY <3>2, <3>4, <3>5 DEF Rows
    <3>7. QED
      BY <3>2, <3>3, <3>6
  <2>3. QED
    BY <2>1, <2>2
<1>7. PICK p : p = IF dl.part = NoFile THEN NoFile ELSE SubSeq(dl.part, 1, n)
  OBVIOUS
<1>8. /\ p \in {NoFile} \cup Prefixes
      /\ p \notin {NoFile, <<>>} => dl.part \notin {NoFile, <<>>}
      /\ dl.part = NoFile => p = NoFile
  <2>1. CASE dl.part = NoFile
    BY <1>7, <2>1
  <2>2. CASE dl.part # NoFile
    <3>1. dl.part \in Prefixes /\ p = SubSeq(dl.part, 1, n) /\ n <= Len(dl.part)
      BY <1>1, <1>4, <1>7, <2>2
    <3>2. n \in 0..Len(dl.part)
      <4>1. Len(dl.part) \in 0..Size
        BY <3>1, PrefixType
      <4>2. QED
        BY <3>1, <4>1, BytesSeq
    <3>3. p \in Prefixes /\ (p # <<>> => dl.part # <<>>)
      BY <3>1, <3>2, PrefixCut
    <3>4. QED
      BY <2>2, <3>3
  <2>3. QED
    BY <2>1, <2>2
<1>9. PICK o : o = OnDisk(t)
  OBVIOUS
<1>10. /\ o \in Rows /\ o.state = "none" /\ o.net = NoReply /\ ~o.open /\ ~o.moving
       /\ o.pmeta = t.pmeta /\ o.full = t.full /\ o.fmeta = t.fmeta /\ o.flaws = t.flaws
  BY <1>6, <1>9, OnDiskIs
<1>11. dl' = [o EXCEPT !.part = p]
  BY <1>1, <1>5, <1>7, <1>9
<1>12. /\ dl' \in Rows /\ dl'.state = "none" /\ dl'.net = NoReply /\ dl'.part = p
       /\ ~dl'.open /\ ~dl'.moving
       /\ dl'.pmeta = t.pmeta /\ dl'.full = t.full /\ dl'.fmeta = t.fmeta
       /\ dl'.flaws = t.flaws
  <2>1. p \in {NoFile} \cup Seq(1..Size)
    BY <1>8, PrefixType
  <2>2. QED
    BY <1>10, <1>11, <2>1 DEF Rows
<1>13. TypeOK'
  BY <1>2, <1>3, <1>12 DEF Good, TypeOK, HasReply
<1>14. RowSound(dl')
  <2>1. WholeArchive(dl')
    BY <1>4, <1>6, <1>12 DEF WholeArchive
  <2>2. Still(dl')
    BY <1>4, <1>6, <1>8, <1>12, <2>1 DEF Still
  <2>3. QED
    BY <1>12, <2>2 DEF RowSound, Active
<1>15. CapabilitiesRetired'
  BY <1>2 DEF CapabilitiesRetired, Idle
<1>16. QED
  BY <1>2, <1>12, <1>13, <1>14, <1>15 DEF Good

\* What refreshList finds.  It logs what it could not remove or retire.
LEMMA RelistedGood ==
  ASSUME Good, NEW d, Still(d), ~d.open, NEW f \in SUBSET Mishaps, Becomes(Relisted(d, f), f),
         up' = TRUE, UNCHANGED <<suppressed, pending, asked, begun>>
  PROVE  Good'
<1>1. /\ d \in Rows /\ d.net = NoReply /\ ~d.moving /\ d.part \in {NoFile} \cup Prefixes
      /\ WholeArchive(d) /\ (d.full # NoFile => d.part = NoFile)
      /\ d.full = NoFile => d.fmeta = "none"
      /\ d.part \notin {NoFile, <<>>} => d.pmeta = "urls" \/ "torn rename" \in d.flaws
  BY DEF Still
<1>2. faults' \in 0..MaxFaults /\ Costs(f) /\ dl' = Relisted(d, f)
  BY CostsType DEF Good, TypeOK, Becomes
<1>3. /\ suppressed' \in BOOLEAN /\ pending' \in BOOLEAN /\ asked' \in BOOLEAN
      /\ pending' => asked'
      /\ begun' \in 0..MaxStarts
  BY DEF Good, TypeOK
<1>4. PICK b \in BOOLEAN : b = (d.stray /\ "remove" \in f)
  OBVIOUS
<1>5. PICK x : x = IF d.part = NoFile /\ "remove" \notin f THEN "none" ELSE d.pmeta
  OBVIOUS
<1>6. PICK w : w = d.flaws \ {"told", "logged"}
  OBVIOUS
<1>7. PICK row : row = [d EXCEPT !.listed = TRUE, !.stray = b, !.pmeta = x, !.flaws = w]
  OBVIOUS
<1>8. /\ x \in {"none", d.pmeta} /\ x \in {"none", "urls"} /\ (d.part # NoFile => x = d.pmeta)
      /\ x = "urls" /\ d.part = NoFile => "remove" \in f
      /\ w \in SUBSET Flaws
      /\ "torn rename" \in w <=> "torn rename" \in d.flaws
      /\ w \cap {"unmeasured", "bare name"} = d.flaws \cap {"unmeasured", "bare name"}
  BY <1>1, <1>5, <1>6 DEF Rows, Flaws
<1>9. /\ row \in Rows /\ row.net = NoReply /\ row.part = d.part /\ row.full = d.full
      /\ row.fmeta = d.fmeta /\ row.pmeta = x /\ row.stray = b /\ row.flaws = w
      /\ ~row.moving /\ ~row.open
  BY <1>1, <1>4, <1>7, <1>8 DEF Rows
<1>10. PICK fail \in BOOLEAN : fail = (f # {})
  OBVIOUS
<1>11. row = [d EXCEPT !.listed = TRUE, !.stray = @ /\ "remove" \in f,
                       !.pmeta = IF d.part = NoFile /\ "remove" \notin f THEN "none" ELSE @,
                       !.flaws = @ \ {"told", "logged"}]
  BY <1>1, <1>4, <1>5, <1>6, <1>7 DEF Rows
<1>12. CASE d.full # NoFile
  <2>1. PICK y : y = IF d.fmeta = "urls" /\ "retire" \notin f THEN "clean" ELSE d.fmeta
    OBVIOUS
  <2>2. y \in {"none", "urls", "clean"} /\ (y = "urls" => "retire" \in f)
    BY <1>1, <2>1 DEF Rows
  <2>3. PICK e : e = [row EXCEPT !.state = "ready", !.fmeta = y]
    OBVIOUS
  <2>4. /\ e \in Rows /\ e.state = "ready" /\ e.net = NoReply /\ e.part = NoFile
        /\ e.full = d.full /\ e.fmeta = y /\ e.pmeta = x /\ e.stray = b /\ e.flaws = w
        /\ ~e.moving
    BY <1>1, <1>9, <1>12, <2>2, <2>3 DEF Rows, States
  <2>5. Exposed(e) => fail
    BY <1>1, <1>4, <1>8, <1>10, <1>12, <2>2, <2>4 DEF Exposed
  <2>6. PICK r : r = Logged(e, fail)
    OBVIOUS
  <2>7. /\ r \in Rows /\ r.state = e.state /\ r.net = e.net
        /\ r.part = e.part /\ r.full = e.full /\ r.fmeta = e.fmeta /\ r.moving = e.moving
        /\ r.flaws \in {e.flaws, e.flaws \cup {"logged"}}
        /\ Exposed(r) => "logged" \in r.flaws
    BY <2>4, <2>5, <2>6, LoggedIs
  <2>8. dl' = r
    <3>1. e = [row EXCEPT !.state = "ready",
                          !.fmeta = IF @ = "urls" /\ "retire" \notin f THEN "clean" ELSE @]
      BY <1>9, <2>1, <2>3 DEF Rows
    <3>2. QED
      BY <1>2, <1>10, <1>11, <1>12, <2>6, <3>1 DEF Relisted
  <2>9. Still(r) /\ r.full # NoFile /\ r.state = "ready"
    BY <1>1, <1>8, <1>12, <2>4, <2>7 DEF Still, WholeArchive
  <2>10. QED
    BY <1>2, <2>7, <2>8, <2>9, ArchiveGood
<1>13. PICK archive \in BOOLEAN : archive = (d.bare /\ ~(d.held /\ d.pmeta = "urls"))
  OBVIOUS
<1>14. CASE d.full = NoFile /\ d.part # NoFile /\ archive
  <2>1. PICK y : y = IF d.pmeta = "urls" /\ "retire" \notin f THEN "clean" ELSE d.pmeta
    OBVIOUS
  <2>2. y \in {"none", "urls", "clean"} /\ (y = "urls" => "retire" \in f)
    BY <1>1, <2>1 DEF Rows
  <2>3. PICK v : v = w \cup {"bare name"}
    OBVIOUS
  <2>4. v \in SUBSET Flaws /\ "bare name" \in v
    BY <1>8, <2>3 DEF Flaws
  <2>5. PICK e : e = [row EXCEPT !.state = "ready", !.full = d.part, !.fmeta = y,
                                 !.part = NoFile, !.pmeta = "none", !.bare = FALSE,
                                 !.flaws = v]
    OBVIOUS
  <2>6. d.part \in Prefixes /\ d.part \in Seq(1..Size)
    BY <1>1, <1>14, PrefixType
  <2>7. /\ e \in Rows /\ e.state = "ready" /\ e.net = NoReply /\ e.part = NoFile
        /\ e.full = d.part /\ e.fmeta = y /\ e.pmeta = "none" /\ e.stray = b /\ e.flaws = v
        /\ ~e.moving
    BY <1>9, <2>2, <2>4, <2>5, <2>6 DEF Rows, States
  <2>8. Exposed(e) => fail
    BY <1>4, <1>10, <2>2, <2>7 DEF Exposed
  <2>9. PICK r : r = Logged(e, fail)
    OBVIOUS
  <2>10. /\ r \in Rows /\ r.state = e.state /\ r.net = e.net
         /\ r.part = e.part /\ r.full = e.full /\ r.fmeta = e.fmeta /\ r.moving = e.moving
         /\ r.flaws \in {e.flaws, e.flaws \cup {"logged"}}
         /\ Exposed(r) => "logged" \in r.flaws
    BY <2>7, <2>8, <2>9, LoggedIs
  <2>11. dl' = r
    <3>1. e = [row EXCEPT !.state = "ready", !.full = d.part,
                          !.fmeta = IF d.pmeta = "urls" /\ "retire" \notin f THEN "clean"
                                    ELSE d.pmeta,
                          !.part = NoFile, !.pmeta = "none", !.bare = FALSE,
                          !.flaws = @ \cup {"bare name"}]
      BY <1>9, <2>1, <2>3, <2>5 DEF Rows
    <3>2. QED
      BY <1>2, <1>10, <1>11, <1>13, <1>14, <2>9, <3>1 DEF Relisted
  <2>12. Still(r) /\ r.full # NoFile /\ r.state = "ready"
    BY <1>14, <2>4, <2>6, <2>7, <2>10 DEF Still, WholeArchive
  <2>13. QED
    BY <1>2, <2>10, <2>11, <2>12, ArchiveGood
<1>15. CASE d.full = NoFile /\ d.part # NoFile /\ ~archive
  <2>1. PICK u \in BOOLEAN : u = (d.pmeta = "urls")
    OBVIOUS
  <2>2. PICK e : e = [row EXCEPT !.state = "paused", !.urls = u]
    OBVIOUS
  <2>3. /\ e \in Rows /\ e.state = "paused" /\ e.net = NoReply /\ e.part = d.part
        /\ e.full = NoFile /\ e.fmeta = "none" /\ e.pmeta = d.pmeta /\ e.stray = b
        /\ e.flaws = w /\ ~e.moving /\ ~e.open
    <3>1. "paused" \in States
      BY DEF States
    <3>2. e \in Rows
      BY <1>9, <2>1, <2>2, <3>1 DEF Rows
    <3>3. QED
      BY <1>1, <1>8, <1>9, <1>15, <2>2, <3>2 DEF Rows
  <2>4. Exposed(e) => fail
    BY <1>4, <1>10, <1>15, <2>3 DEF Exposed
  <2>5. PICK r : r = Logged(e, fail)
    OBVIOUS
  <2>6. /\ r \in Rows /\ r.state = e.state /\ r.net = e.net /\ r.open = e.open
        /\ r.part = e.part /\ r.pmeta = e.pmeta /\ r.full = e.full /\ r.fmeta = e.fmeta
        /\ r.moving = e.moving /\ r.stray = e.stray
        /\ r.flaws \in {e.flaws, e.flaws \cup {"logged"}}
        /\ Exposed(r) => "logged" \in r.flaws
    BY <2>3, <2>4, <2>5, LoggedIs
  <2>7. dl' = r
    BY <1>2, <1>10, <1>11, <1>13, <1>15, <2>1, <2>2, <2>5 DEF Relisted
  <2>8. Partial(r) /\ ~HasReply(r)
    BY <1>1, <1>8, <1>15, <2>3, <2>6 DEF Partial, Resumable, Exposed, HasReply
  <2>9. Served(r)
    BY <2>3, <2>6, <2>8, OutcomeServed DEF Outcome
  <2>10. QED
    BY <1>2, <1>3, <2>7, <2>9, LandsUp
<1>16. CASE d.full = NoFile /\ d.part = NoFile
  <2>1. PICK e : e = [Absent EXCEPT !.pmeta = x, !.stray = b]
    OBVIOUS
  <2>2. /\ e \in Rows /\ e.state = "none" /\ e.net = NoReply /\ e.part = NoFile
        /\ e.full = NoFile /\ e.fmeta = "none" /\ e.pmeta = x /\ e.stray = b
        /\ ~e.moving /\ ~e.open
    <3>1. /\ Absent \in Rows /\ Absent.state = "none" /\ Absent.net = NoReply
          /\ Absent.part = NoFile /\ Absent.full = NoFile /\ Absent.fmeta = "none"
          /\ ~Absent.moving /\ ~Absent.open
      BY AbsentGone DEF Absent
    <3> HIDE DEF Absent
    <3>2. QED
      BY <1>4, <1>8, <2>1, <3>1 DEF Rows
  <2>3. Exposed(e) => fail
    BY <1>4, <1>8, <1>10, <1>16, <2>2 DEF Exposed
  <2>4. PICK r : r = Logged(e, fail)
    OBVIOUS
  <2>5. /\ r \in Rows /\ r.state = e.state /\ r.net = e.net /\ r.open = e.open
        /\ r.part = e.part /\ r.full = e.full /\ r.fmeta = e.fmeta /\ r.moving = e.moving
        /\ Exposed(r) => "logged" \in r.flaws
    BY <2>2, <2>3, <2>4, LoggedIs
  <2>6. dl' = r
    <3> HIDE DEF Absent
    <3>1. dl' = Logged([Absent EXCEPT !.pmeta = row.pmeta, !.stray = row.stray], f # {})
      BY <1>2, <1>11, <1>16 DEF Relisted
    <3>2. QED
      BY <1>9, <1>10, <2>1, <2>4, <3>1
  <2>7. Served(r)
    BY <2>2, <2>5 DEF Served, Gone, Still, WholeArchive
  <2>8. QED
    BY <1>2, <1>3, <2>6, <2>7, LandsUp
<1>17. QED
  BY <1>12, <1>14, <1>15, <1>16

\* What a restart finds.
LEMMA RestartGood == ASSUME Good, Restart PROVE Good'
<1>1. PICK f \in Failures({"remove", "retire"}) : Becomes(Relisted(dl, f), f)
  BY DEF Restart
<1>2. f \in SUBSET Mishaps
  BY DEF Failures, Mishaps
<1>3. up' = TRUE /\ UNCHANGED <<suppressed, pending, asked, begun>> /\ ~up
  BY DEF Restart
<1>4. Still(dl) /\ ~dl.open
  BY <1>3 DEF Good, RowSound
<1>5. QED
  BY <1>1, <1>2, <1>3, <1>4, RelistedGood

\* What refreshList finds.
LEMMA RefreshGood == ASSUME Good, Refresh PROVE Good'
<1>1. PICK f \in Failures({"remove", "retire"}) : Becomes(Relisted(dl, f), f)
  BY DEF Refresh
<1>2. f \in SUBSET Mishaps
  BY DEF Failures, Mishaps
<1>3. UNCHANGED <<suppressed, pending, asked, begun>> /\ Idle /\ dl.state = "none" /\ up' = up
  BY DEF Refresh
<1>4. Still(dl) /\ ~dl.open /\ up' = TRUE
  BY <1>3 DEF Good, RowSound, TypeOK, Idle
<1>5. QED
  BY <1>1, <1>2, <1>3, <1>4, RelistedGood

\* The user removes the row and its files, and refreshList finds the rest.
LEMMA RemoveGood == ASSUME Good, Remove PROVE Good'
<1>1. PICK f \in Failures({"remove"}) : Becomes(Relisted([Absent EXCEPT !.stray = dl.stray], f), f)
  BY DEF Remove
<1>2. f \in SUBSET Mishaps
  BY DEF Failures, Mishaps
<1>3. UNCHANGED <<suppressed, pending, asked, begun>> /\ Idle /\ up' = up
  BY DEF Remove
<1>4. up' = TRUE /\ dl \in Rows
  BY <1>3 DEF Good, TypeOK, Idle
<1>5. PICK d : d = [Absent EXCEPT !.stray = dl.stray]
  OBVIOUS
<1>6. Still(d) /\ ~d.open
  <2>1. /\ Absent \in Rows /\ Absent.state = "none" /\ Absent.net = NoReply
        /\ Absent.part = NoFile /\ Absent.full = NoFile /\ Absent.fmeta = "none"
        /\ ~Absent.moving /\ ~Absent.open
    BY AbsentGone DEF Absent
  <2> HIDE DEF Absent
  <2>2. /\ d \in Rows /\ d.net = NoReply /\ d.part = NoFile /\ d.full = NoFile
        /\ d.fmeta = "none" /\ ~d.moving /\ ~d.open
    BY <1>4, <1>5, <2>1 DEF Rows
  <2>3. QED
    BY <2>2 DEF Still, WholeArchive
<1>7. QED
  BY <1>1, <1>2, <1>3, <1>4, <1>5, <1>6, RelistedGood

-----------------------------------------------------------------------------
(* The theorems.                                                            *)

\* At first there is no download.
LEMMA InitGood == Init => Good
<1>1. SUFFICES ASSUME Init
               PROVE  Good
  OBVIOUS
<1>2. Absent \in Rows /\ Gone(Absent) /\ 0 \in 0..MaxStarts /\ 0 \in 0..MaxFaults
  BY AbsentGone, DownloadsAssumption
<1>3. /\ dl = Absent /\ suppressed = FALSE /\ pending = FALSE /\ asked = FALSE
      /\ up = TRUE /\ begun = 0 /\ faults = 0
  BY <1>1 DEF Init
<1>4. Absent.state = "none" /\ Absent.net = NoReply /\ Absent.full = NoFile
      /\ ~Absent.moving /\ ~Exposed(Absent)
  BY DEF Absent, Exposed
<1> HIDE DEF Absent
<1>5. TypeOK
  BY <1>2, <1>3, <1>4 DEF TypeOK, HasReply
<1>6. RowSound(dl)
  BY <1>2, <1>3, <1>4 DEF RowSound, Gone, Active
<1>7. CapabilitiesRetired
  BY <1>3, <1>4 DEF CapabilitiesRetired
<1>8. QED
  BY <1>3, <1>4, <1>5, <1>6, <1>7 DEF Good

\* Every step keeps what is Good.
LEMMA NextGood == Good /\ [Next]_vars => Good'
<1>1. SUFFICES ASSUME Good, [Next]_vars
               PROVE  Good'
  OBVIOUS
<1>2. CASE UNCHANGED vars
  <2>1. /\ dl' = dl /\ suppressed' \in BOOLEAN /\ pending' \in BOOLEAN /\ asked' \in BOOLEAN
        /\ pending' => asked'
       /\ up' = up /\ begun' \in 0..MaxStarts /\ faults' \in 0..MaxFaults
    BY <1>1, <1>2 DEF vars, Good, TypeOK
  <2>2. QED
    BY <1>1, <2>1, Unmoved
<1>3. CASE AddLink \/ UrlsAvailable \/ UrlsRefused \/ StartContinue
  BY <1>1, <1>3, AddLinkGood, UrlsAvailableGood, UrlsRefusedGood, StartContinueGood
<1>4. CASE Answer \/ MoveMeta \/ Arrive \/ End \/ DeferredAbort \/ Timeout \/ QueryAnswer
  BY <1>1, <1>4, AnswerGood, MoveMetaGood, ArriveGood, EndGood, DeferredAbortGood, TimeoutGood,
     QueryAnswerGood
<1>5. CASE Pause \/ Cancel \/ Resume \/ Remove \/ PauseAll \/ EndPauseAll
  BY <1>1, <1>5, PauseGood, CancelGood, ResumeGood, RemoveGood, PauseAllGood, EndPauseAllGood
<1>6. CASE RenameArchive \/ RenameMeta \/ WriteMeta \/ Publish
  BY <1>1, <1>6, RenameArchiveGood, RenameMetaGood, WriteMetaGood, PublishGood
<1>7. CASE Crash \/ Restart \/ Refresh
  BY <1>1, <1>7, CrashGood, RestartGood, RefreshGood
<1>8. QED
  BY <1>1, <1>2, <1>3, <1>4, <1>5, <1>6, <1>7 DEF Next

\* So it always holds.
LEMMA AlwaysGood == Spec => []Good
<1>1. Init => Good
  BY InitGood
<1>2. Good /\ [Next]_vars => Good'
  BY NextGood
<1>3. QED
  BY <1>1, <1>2, PTL DEF Spec

\* The variables have their types, and a link that is pending is being asked about.
THEOREM TypeCorrect == Spec => []TypeOK
<1>1. Good => TypeOK
  BY DEF Good
<1>2. QED
  BY <1>1, AlwaysGood, PTL

\* A partial file is a prefix of the file and what is published is all of it, if the server
\* said how long it is and no partial file had a final name: the range checks of a response
\* put each piece where it belongs, and only what arrived whole is renamed to the archive.
THEOREM FilesAreSound == Spec => []FilesSound
<1>1. Good => FilesSound
  <2>1. SUFFICES ASSUME Good
                 PROVE  FilesSound
    OBVIOUS
  <2>2. dl.part \in {NoFile} \cup Prefixes /\ WholeArchive(dl)
    BY <2>1, FilesKnown
  <2>3. Prefixes \subseteq Files /\ NoFile \in Files
    <3>1. 0 + 1 = 1
      OBVIOUS
    <3>2. QED
      BY <3>1 DEF Prefixes, Piece, Files
  <2>4. QED
    BY <2>2, <2>3 DEF FilesSound, WholeArchive
<1>2. QED
  BY <1>1, AlwaysGood, PTL

\* A partial file can be resumed at every crash but one, that between its renaming and that
\* of its metadata: createMetaFile has written the metadata before the first byte, and it
\* goes only after the file, or when the archive is there.
THEOREM ResumableAlways == Spec => []RecoveryKept
<1>1. Good => RecoveryKept
  BY FilesKnown DEF RecoveryKept
<1>2. QED
  BY <1>1, AlwaysGood, PTL

\* Private URLs are left without their partial file only where that they could not be
\* retired was reported: to the user, when the archive is published, or to the log, when a
\* download is discarded or its files are listed again.
THEOREM UrlsAreRetired == Spec => []CapabilitiesRetired
<1>1. Good => CapabilitiesRetired
  BY DEF Good
<1>2. QED
  BY <1>1, AlwaysGood, PTL

\* No row waits for a reply that is gone: each handler that ends a reply (finished, an
\* error, a stall, abort) takes the row out of the states that wait for one.
THEOREM ActiveAlwaysServed == Spec => []ActiveIsServed
<1>1. Good => ActiveIsServed
  BY DEF Good, RowSound, ActiveIsServed, Starting, Idle
<1>2. QED
  BY <1>1, AlwaysGood, PTL

\* Resuming a paused download leaves its partial file alone.
LEMMA ResumedKeeps ==
  ASSUME NEW d \in Rows, d.state = "paused", NEW f
  PROVE  Resumed(d, f).part = d.part
<1>1. PICK r : r = [d EXCEPT !.tries = Retries]
  OBVIOUS
<1>2. r \in Rows /\ r.state = "paused" /\ r.part = d.part
  <2>1. Retries \in 0..Retries
    BY DownloadsAssumption
  <2>2. QED
    BY <1>1, <2>1 DEF Rows
<1>3. Resumed(d, f) = Requested(r, f)
  BY <1>1, <1>2 DEF Resumed
<1>4. Requested(r, f).part = r.part
  <2>1. PICK b \in BOOLEAN : b = ("meta" \notin f)
    OBVIOUS
  <2>2. PICK e : e = [r EXCEPT !.net = Request(r.state # "error", Len(r.part), b),
                               !.state = "downloading", !.open = TRUE]
    OBVIOUS
  <2>3. e.part = r.part /\ \A x \in BOOLEAN : [e EXCEPT !.pmeta = "urls", !.held = x].part = r.part
    BY <1>2, <2>2 DEF Rows
  <2>4. Requested(r, f) = IF ~r.urls THEN r ELSE Recorded(e, f)
    BY <2>1, <2>2 DEF Requested
  <2>5. Recorded(e, f).part = r.part
    BY <2>3 DEF Recorded
  <2>6. QED
    BY <2>4, <2>5
<1>5. QED
  BY <1>2, <1>3, <1>4

\* A paused download keeps its partial file, whatever step is taken.
LEMMA PausedStep ==
  ASSUME Habits = {}, Good, Next, dl.state = "paused"
  PROVE  dl'.part = dl.part \/ Remove
<1>1. /\ Partial(dl) /\ dl \in Rows /\ ~HasReply(dl) /\ ~dl.open /\ up
      /\ ~IsRunning(dl) /\ ~Starting(dl) /\ ~dl.moving
  BY DEF Good, RowSound, Partial, Resumable, IsRunning, Starting
<1>2. dl # Absent
  BY DEF Absent
<1>3. CASE AddLink \/ UrlsRefused \/ EndPauseAll
  BY <1>3 DEF AddLink, UrlsRefused, EndPauseAll
<1>4. CASE UrlsAvailable
  BY <1>2, <1>4 DEF UrlsAvailable
<1>5. CASE StartContinue \/ Answer \/ MoveMeta \/ Arrive \/ End \/ DeferredAbort
  BY <1>1, <1>5 DEF StartContinue, MayContinue, Answer, MoveMeta, Arrive, End, DeferredAbort
<1>6. CASE Timeout \/ QueryAnswer \/ Pause \/ Cancel
  BY <1>6 DEF Timeout, QueryAnswer, Pause, Cancel
<1>7. CASE RenameArchive \/ RenameMeta \/ WriteMeta \/ Publish
  BY <1>7 DEF RenameArchive, RenameMeta, WriteMeta, Publish
<1>8. CASE Restart \/ Refresh
  BY <1>1, <1>8 DEF Restart, Refresh
<1>9. CASE PauseAll
  <2>1. Held(dl, {}) = dl
    BY DEF Held
  <2>2. QED
    BY <1>9, <2>1 DEF PauseAll, Becomes
<1>10. CASE Resume
  <2>1. PICK f \in Failures(Failing) : Becomes(Resumed(dl, f), f)
    BY <1>10 DEF Resume
  <2>2. QED
    BY <1>1, <2>1, ResumedKeeps DEF Becomes
<1>11. CASE Crash
  <2>1. PICK n \in 0..Size :
          /\ dl.part # NoFile => n <= Len(dl.part) /\ (~dl.open => n = Len(dl.part))
          /\ dl' = [OnDisk(IF dl.moving THEN Torn(dl) ELSE dl) EXCEPT
                       !.part = IF dl.part = NoFile THEN NoFile ELSE SubSeq(dl.part, 1, n)]
    BY <1>11 DEF Crash
  <2>2. dl.part # NoFile /\ dl.part \in Seq(1..Size)
    BY <1>1, PrefixType DEF Partial, Resumable
  <2>3. n = Len(dl.part)
    BY <1>1, <2>1, <2>2
  <2>4. dl'.part = SubSeq(dl.part, 1, Len(dl.part))
    <3>1. OnDisk(dl) \in Rows
      BY <1>1, OnDiskIs
    <3>2. dl' = [OnDisk(dl) EXCEPT !.part = SubSeq(dl.part, 1, Len(dl.part))]
      BY <1>1, <2>1, <2>2, <2>3
    <3>3. QED
      BY <3>1, <3>2 DEF Rows
  <2>5. SubSeq(dl.part, 1, Len(dl.part)) = dl.part
    BY <2>2, SubSeqFull
  <2>6. QED
    BY <2>4, <2>5
<1>12. QED
  BY <1>3, <1>4, <1>5, <1>6, <1>7, <1>8, <1>9, <1>10, <1>11 DEF Next

\* A paused download keeps its partial file until the user resumes or removes it, if no
\* download is paused that has arrived while startDownload was still at it.
THEOREM PausedIsKept == ASSUME Habits = {} PROVE Spec => PausedKept
<1>1. Good /\ [Next]_vars =>
        [dl.state = "paused" /\ dl.part # <<>> => dl'.part = dl.part \/ Remove]_vars
  BY PausedStep
<1>2. QED
  BY <1>1, AlwaysGood, PTL DEF Spec, PausedKept
=============================================================================
