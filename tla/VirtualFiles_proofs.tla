------------------------- MODULE VirtualFiles_proofs -------------------------
(***************************************************************************)
(* Proofs about VirtualFiles, for any names, handles, workers and sizes.   *)
(***************************************************************************)
EXTENDS VirtualFiles, TLAPS

\* The states of the disk.
Disks == [Locations -> Content \cup {Absent}]

\* No file goes from one state of the disk to another.
Keeps(old, new)        == \A l \in Locations : old[l] # Absent => new[l] # Absent
\* Only the file at loc changes.
ChangesOnly(loc, old, new) == \A l \in Locations : l # loc => new[l] = old[l]

-----------------------------------------------------------------------------
(* The operators.                                                           *)

\* copyOnWrite gives the path a staged file, that it had or a copy of the source, and
\* leaves every other file alone.
LEMMA CopyOnWriteMakesStaged ==
  ASSUME NEW table \in Disks, NEW source \in Locations, NEW p \in Paths
  PROVE  /\ <<p, "staged">> \in Locations
         /\ CopyOnWrite(table, source, p) \in Disks
         /\ CopyOnWrite(table, source, p)[<<p, "staged">>] \in Content
         /\ CopyOnWrite(table, source, p)[<<p, "staged">>] # Absent
         /\ ChangesOnly(<<p, "staged">>, table, CopyOnWrite(table, source, p))
         /\ Keeps(table, CopyOnWrite(table, source, p))
         /\ CopyOnWrite(table, source, p)[<<p, "staged">>] =
              IF table[<<p, "staged">>] # Absent THEN table[<<p, "staged">>]
              ELSE IF table[source] # Absent THEN table[source]
              ELSE [by |-> p, size |-> 0]
<1>1. <<p, "staged">> \in Locations /\ [by |-> p, size |-> 0] \in Content
  BY VirtualFilesAssumption DEF Locations, Layers, Content
<1>2. table[source] \in Content \cup {Absent} /\ Absent \notin Content
  BY AbsentAssumption DEF Disks
<1>3. QED
  BY <1>1, <1>2 DEF CopyOnWrite, Disks, ChangesOnly, Keeps

\* Giving a size to a file that exists changes that only.
LEMMA SizedChangesOne ==
  ASSUME NEW table \in Disks, NEW fd \in Locations \cup {None}, NEW n \in 0..MaxSize,
         fd # None => table[fd] # Absent
  PROVE  /\ Sized(table, fd, n) \in Disks
         /\ ChangesOnly(fd, table, Sized(table, fd, n))
         /\ Keeps(table, Sized(table, fd, n)) /\ Keeps(Sized(table, fd, n), table)
         /\ fd # None => Sized(table, fd, n)[fd] = [table[fd] EXCEPT !.size = n]
<1>1. CASE fd = None
  BY <1>1, AbsentAssumption DEF Sized, ChangesOnly, Keeps
<1>2. CASE fd # None
  <2>1. fd \in Locations /\ table[fd] \in Content
    BY <1>2 DEF Disks
  <2>2. [table[fd] EXCEPT !.size = n] \in Content /\ [table[fd] EXCEPT !.size = n] # Absent
    BY <2>1, AbsentAssumption DEF Content
  <2>3. Sized(table, fd, n) = [table EXCEPT ![fd] = [table[fd] EXCEPT !.size = n]]
    BY <1>2 DEF Sized
  <2>4. Sized(table, fd, n) \in Disks
    BY <2>1, <2>2, <2>3 DEF Disks
  <2>5. \A loc \in Locations : Sized(table, fd, n)[loc] =
           IF loc = fd THEN [table[fd] EXCEPT !.size = n] ELSE table[loc]
    BY <2>1, <2>3 DEF Disks
  <2>6. QED
    BY <1>2, <2>1, <2>2, <2>4, <2>5 DEF ChangesOnly, Keeps
<1>3. QED
  BY <1>1, <1>2

\* The index of a file on disk.
LEMMA IndexedType ==
  ASSUME NEW p \in Paths, NEW loc \in Locations, NEW table \in Disks,
         index \in [Paths -> Entry \cup {Absent}]
  PROVE  /\ Indexed(p, loc, table) \in [Paths -> Entry \cup {Absent}]
         /\ Indexed(p, loc, table)[p] # Absent
         /\ Indexed(p, loc, table)[p].real = loc
         /\ Indexed(p, loc, table)[p].size = Size(table[loc])
         /\ \A q \in Paths : q # p => Indexed(p, loc, table)[q] = index[q]
<1>1. Size(table[loc]) \in 0..MaxSize
  BY VirtualFilesAssumption DEF Size, Disks, Content
<1>2. [real |-> loc, size |-> Size(table[loc])] \in Entry
  BY <1>1 DEF Entry
<1>3. QED
  BY <1>2, AbsentAssumption DEF Indexed

\* A file of the game is never written in place.
LEMMA InPlaceSparesBase ==
  ASSUME NEW p \in Paths, NEW loc \in Locations
  PROVE  /\ InPlace(p, loc) => ~Base(loc)
         /\ ~InPlace(p, loc) /\ disk[loc] # Absent => Base(loc)
         /\ Base(loc) => ~InPlace(p, loc)
  BY DEF InPlace, AlreadyWritable, Base, Locations, Layers

\* Where rename and removeFile find a path.
LEMMA FoundInExists ==
  ASSUME NEW p \in Paths, WrittenLayers(p) # {}
  PROVE  /\ FoundIn(p) \in {"staged", "overwrite"} /\ disk[<<p, FoundIn(p)>>] # Absent
         /\ <<p, FoundIn(p)>> \in Locations /\ ~Base(<<p, FoundIn(p)>>)
  BY DEF FoundIn, WrittenLayers, Locations, Layers, Base

\* The part of TypeOK that is about open handles.
HandlesOK ==
    \A h \in Live :
        /\ open_files[h].fd # None => disk[open_files[h].fd] # Absent
        /\ open_files[h].cow_pending => Base(open_files[h].real)

\* A live handle has an entry in the table.
LEMMA LiveType ==
  ASSUME TypeOK, NEW h \in Live
  PROVE  /\ h \in Handles /\ open_files[h] \in OpenFile
         /\ open_files[h].fd # None => disk[open_files[h].fd] # Absent
         /\ open_files[h].cow_pending => Base(open_files[h].real)
  BY DEF TypeOK, Live

\* A handle is opened on a file that exists.
LEMMA OpenHandleType ==
  ASSUME TypeOK, NEW h \in Handles, NEW p \in Paths, NEW real \in Locations,
         NEW cow \in BOOLEAN, NEW size \in 0..MaxSize, OpenHandle(h, p, real, cow, size),
         cow => Base(real), disk' \in Disks, disk'[real] # Absent,
         Keeps(disk, disk')
  PROVE  open_files' \in [Handles -> OpenFile \cup {None}] /\ HandlesOK'
<1> DEFINE of == [path |-> p, real |-> real, fd |-> real, ino |-> p, cow_pending |-> cow,
                  metadata_dirty |-> FALSE, virtual_size |-> size]
<1>1. of \in OpenFile
  BY DEF OpenFile
<1>2. open_files' = [open_files EXCEPT ![h] = of]
  BY DEF OpenHandle
<1>3. open_files' \in [Handles -> OpenFile \cup {None}]
  BY <1>1, <1>2 DEF TypeOK
<1>4. ASSUME NEW g \in Live'
      PROVE  /\ open_files'[g].fd # None => disk'[open_files'[g].fd] # Absent
             /\ open_files'[g].cow_pending => Base(open_files'[g].real)
  <2>1. CASE g = h
    BY <1>2, <2>1 DEF TypeOK
  <2>2. CASE g # h
    <3>1. g \in Live /\ open_files'[g] = open_files[g]
      BY <1>2, <1>4, <2>2 DEF Live, TypeOK
    <3>2. QED
      BY <3>1, LiveType DEF OpenFile, Keeps
  <2>3. QED
    BY <2>1, <2>2
<1>5. QED
  BY <1>3, <1>4 DEF HandlesOK, Base

\* One entry of the table changes.
LEMMA HandleChangeType ==
  ASSUME TypeOK, NEW h \in Handles, NEW of \in OpenFile \cup {None},
         open_files' = [open_files EXCEPT ![h] = of],
         of # None => /\ of.fd # None => disk'[of.fd] # Absent
                      /\ of.cow_pending => Base(of.real),
         Keeps(disk, disk')
  PROVE  open_files' \in [Handles -> OpenFile \cup {None}] /\ HandlesOK'
<1>1. open_files' \in [Handles -> OpenFile \cup {None}]
  BY DEF TypeOK
<1>2. ASSUME NEW g \in Live'
      PROVE  /\ open_files'[g].fd # None => disk'[open_files'[g].fd] # Absent
             /\ open_files'[g].cow_pending => Base(open_files'[g].real)
  <2>1. CASE g = h
    BY <1>2, <2>1 DEF TypeOK, Live
  <2>2. CASE g # h
    <3>1. g \in Live /\ open_files'[g] = open_files[g]
      BY <1>2, <2>2 DEF Live, TypeOK
    <3>2. QED
      BY <3>1, LiveType DEF OpenFile, Keeps
  <2>3. QED
    BY <2>1, <2>2
<1>3. QED
  BY <1>1, <1>2 DEF HandlesOK, Base

\* Opening, creating and resizing by name.
LEMMA TypeOpening ==
  ASSUME TypeOK, NEW p \in Paths,
         \/ \E h \in Handles : Create(p, h) \/ \E truncate \in BOOLEAN : Open(p, h, truncate)
         \/ \E n \in 0..MaxSize : ResizePath(p, n)
  PROVE  TypeOK'
<1>1. disk \in Disks /\ 0 \in 0..MaxSize /\ <<p, "staged">> \in Locations
  BY VirtualFilesAssumption DEF TypeOK, Disks, Locations, Layers
<1>2. ASSUME NEW h \in Handles, Create(p, h)
      PROVE  TypeOK'
  <2>1. [by |-> p, size |-> 0] \in Content /\ [by |-> p, size |-> 0] # Absent
        /\ [real |-> <<p, "staged">>, size |-> 0] \in Entry
    BY <1>1, AbsentAssumption DEF Content, Entry
  <2>2. disk' \in Disks /\ disk'[<<p, "staged">>] # Absent
        /\ Keeps(disk, disk')
    BY <1>1, <1>2, <2>1 DEF Create, Disks, Keeps
  <2>3. index' \in [Paths -> Entry \cup {Absent}]
    BY <1>2, <2>1 DEF Create, TypeOK
  <2>4. OpenHandle(h, p, <<p, "staged">>, FALSE, 0)
    BY <1>2 DEF Create
  <2>5. open_files' \in [Handles -> OpenFile \cup {None}] /\ HandlesOK'
    BY <1>1, <2>2, <2>4, OpenHandleType
  <2>6. QED
    BY <1>2, <2>2, <2>3, <2>5 DEF Create, TypeOK, HandlesOK, NoteWriter, Disks
<1>3. ASSUME NEW h \in Handles, NEW truncate \in BOOLEAN, Open(p, h, truncate)
      PROVE  TypeOK'
  <2> DEFINE real   == index[p].real
             copy   == truncate /\ ~InPlace(p, real)
             target == IF copy THEN <<p, "staged">> ELSE real
             table  == IF copy THEN CopyOnWrite(disk, real, p) ELSE disk
  <2>1. real \in Locations /\ index[p].size \in 0..MaxSize
    BY <1>3 DEF Open, TypeOK, Entry
  <2>2. target \in Locations /\ table \in Disks /\ table[target] # Absent
        /\ Keeps(disk, table)
    <3>1. CASE copy
      <4>1. table = CopyOnWrite(disk, real, p) /\ target = <<p, "staged">>
        BY <3>1
      <4> HIDE DEF table, target, real
      <4>2. QED
        BY <1>1, <2>1, <4>1, CopyOnWriteMakesStaged
    <3>2. CASE ~copy
      BY <1>1, <1>3, <2>1, <3>2 DEF Open, Keeps
    <3>3. QED
      BY <3>1, <3>2
  <2>3. CASE truncate
    <3>1. disk' = Sized(table, target, 0) /\ OpenHandle(h, p, target, FALSE, 0)
          /\ index' = [index EXCEPT ![p] = [real |-> target, size |-> 0]]
      BY <1>3, <2>2, <2>3, AbsentAssumption DEF Open, Sized
    <3>2. disk' \in Disks /\ disk'[target] # Absent
          /\ Keeps(disk, disk')
      <4> HIDE DEF target, table
      <4>1. Sized(table, target, 0) \in Disks /\ Keeps(table, Sized(table, target, 0))
        BY <1>1, <2>2, SizedChangesOne
      <4>2. QED
        BY <2>2, <3>1, <4>1 DEF Keeps
    <3>3. [real |-> target, size |-> 0] \in Entry
      BY <1>1, <2>2 DEF Entry
    <3>4. index' \in [Paths -> Entry \cup {Absent}]
      BY <3>1, <3>3 DEF TypeOK
    <3>5. open_files' \in [Handles -> OpenFile \cup {None}] /\ HandlesOK'
      BY <1>1, <2>2, <3>1, <3>2, OpenHandleType
    <3>6. QED
      BY <1>3, <3>2, <3>4, <3>5 DEF Open, TypeOK, HandlesOK, NoteWriter, Disks
  <2>4. CASE ~truncate
    <3>1. UNCHANGED <<disk, index>> /\ disk[real] # Absent
          /\ OpenHandle(h, p, real, ~InPlace(p, real), index[p].size)
      BY <1>3, <2>4 DEF Open
    <3>2. ~InPlace(p, real) => Base(real)
      BY <2>1, <3>1, InPlaceSparesBase
    <3>3. open_files' \in [Handles -> OpenFile \cup {None}] /\ HandlesOK'
      BY <1>1, <2>1, <3>1, <3>2, OpenHandleType DEF Keeps
    <3>4. QED
      BY <1>3, <3>1, <3>3 DEF Open, TypeOK, HandlesOK, NoteWriter
  <2>5. QED
    BY <2>3, <2>4
<1>4. ASSUME NEW n \in 0..MaxSize, ResizePath(p, n)
      PROVE  TypeOK'
  <2> DEFINE real   == index[p].real
             copy   == ~InPlace(p, real)
             target == IF copy THEN <<p, "staged">> ELSE real
             table  == IF copy THEN CopyOnWrite(disk, real, p) ELSE disk
  <2>1. real \in Locations
    BY <1>4 DEF ResizePath, TypeOK, Entry
  <2>2. target \in Locations /\ table \in Disks /\ table[target] # Absent
        /\ Keeps(disk, table)
    <3>1. CASE copy
      <4>1. table = CopyOnWrite(disk, real, p) /\ target = <<p, "staged">>
        BY <3>1
      <4> HIDE DEF table, target, real
      <4>2. QED
        BY <1>1, <2>1, <4>1, CopyOnWriteMakesStaged
    <3>2. CASE ~copy
      BY <1>1, <1>4, <2>1, <3>2 DEF ResizePath, Keeps
    <3>3. QED
      BY <3>1, <3>2
  <2>3. disk' = Sized(table, target, n) /\ index' = Indexed(p, target, disk')
    BY <1>4 DEF ResizePath
  <2>4. disk' \in Disks /\ Keeps(disk, disk')
    <3> HIDE DEF target, table
    <3>1. Sized(table, target, n) \in Disks /\ Keeps(table, Sized(table, target, n))
      BY <2>2, SizedChangesOne
    <3>2. QED
      BY <2>2, <2>3, <3>1 DEF Keeps
  <2>5. index' \in [Paths -> Entry \cup {Absent}]
    BY ZenonT(60), <2>2, <2>3, <2>4, IndexedType DEF TypeOK
  <2>6. HandlesOK'
    BY <1>4, <2>4, LiveType DEF ResizePath, HandlesOK, Live, Base, OpenFile, Keeps
  <2>7. QED
    BY <1>4, <2>4, <2>5, <2>6 DEF ResizePath, TypeOK, HandlesOK, NoteWriter, Disks
<1>5. QED
  BY <1>2, <1>3, <1>4

\* The size that a write through a descriptor gives its file.
WrittenSize(table, fd, n) == IF fd = None THEN n ELSE Larger(table[fd].size, n)

\* What a write through a handle does, with and without a copy.
LEMMA WriteStep ==
  ASSUME TypeOK, NEW h \in Handles, NEW n \in 0..MaxSize, Write(h, n)
  PROVE  LET of    == open_files[h]
             stage == <<of.path, "staged">>
             table == CopyOnWrite(disk, of.real, of.path)
         IN  /\ h \in Live /\ of \in OpenFile /\ UNCHANGED <<flushing, overlapped>>
             /\ of.cow_pending =>
                  /\ WrittenSize(table, stage, n) \in 0..MaxSize
                  /\ disk' = Sized(table, stage, WrittenSize(table, stage, n))
                  /\ index' = Indexed(of.path, stage, table)
                  /\ open_files' = [open_files EXCEPT ![h] = Written(of, stage, stage, n)]
             /\ ~of.cow_pending =>
                  /\ WrittenSize(disk, of.fd, n) \in 0..MaxSize
                  /\ disk' = Sized(disk, of.fd, WrittenSize(disk, of.fd, n))
                  /\ UNCHANGED index
                  /\ open_files' = [open_files EXCEPT ![h] = Written(of, of.real, of.fd, n)]
<1> DEFINE of    == open_files[h]
           stage == <<of.path, "staged">>
           table == CopyOnWrite(disk, of.real, of.path)
<1>1. h \in Live /\ of \in OpenFile /\ disk \in Disks
  BY LiveType DEF Write, Usable, Disks, TypeOK
<1>2. stage # None /\ of.path \in Paths /\ of.real \in Locations /\ stage \in Locations
  BY <1>1, AbsentAssumption DEF OpenFile, Locations, Layers
<1>3. \A c \in Content : Larger(c.size, n) \in 0..MaxSize
  BY VirtualFilesAssumption DEF Content, Larger
<1>4. table[stage] \in Content
  BY <1>1, <1>2, CopyOnWriteMakesStaged
<1>5. of.fd # None => disk[of.fd] \in Content
  BY <1>1, LiveType DEF OpenFile, Disks
<1>6. CASE of.cow_pending
  <2>1. WrittenSize(table, stage, n) \in 0..MaxSize
    BY <1>3, <1>4 DEF WrittenSize
  <2>2. disk' = Sized(table, stage, WrittenSize(table, stage, n))
    BY <1>2, <1>6 DEF Write, WrittenSize
  <2>3. QED
    BY <1>1, <1>6, <2>1, <2>2 DEF Write
<1>7. CASE ~of.cow_pending
  <2>1. WrittenSize(disk, of.fd, n) \in 0..MaxSize
    BY <1>3, <1>5 DEF WrittenSize
  <2>2. disk' = Sized(disk, of.fd, WrittenSize(disk, of.fd, n))
    BY <1>7 DEF Write, WrittenSize, Sized
  <2>3. QED
    BY <1>1, <1>7, <2>1, <2>2 DEF Write
<1>8. QED
  BY <1>6, <1>7

\* What a resize through a handle does, with and without a copy.
LEMMA ResizeStep ==
  ASSUME TypeOK, NEW h \in Handles, NEW n \in 0..MaxSize, Resize(h, n)
  PROVE  LET of     == open_files[h]
             p      == of.ino
             stage  == <<p, "staged">>
             source == IF Base(of.real) THEN <<p, "own">> ELSE of.real
             table  == CopyOnWrite(disk, source, p)
             resized(real, fd) == [of EXCEPT !.real = real, !.fd = fd, !.cow_pending = FALSE,
                                             !.metadata_dirty = TRUE, !.virtual_size = n]
         IN  /\ h \in Live /\ of \in OpenFile /\ p \in Paths /\ UNCHANGED <<flushing, overlapped>>
             /\ source \in Locations
             /\ ~InPlace(p, of.real) =>
                  /\ disk' = Sized(table, stage, n)
                  /\ index' = Indexed(p, stage, disk')
                  /\ open_files' = [open_files EXCEPT ![h] = resized(stage, stage)]
             /\ InPlace(p, of.real) =>
                  /\ ~of.cow_pending
                  /\ disk' = Sized(disk, of.fd, n)
                  /\ index' = Indexed(p, of.real, disk')
                  /\ open_files' = [open_files EXCEPT ![h] = resized(of.real, of.fd)]
<1> DEFINE of == open_files[h]
<1>1. h \in Live /\ of \in OpenFile
  BY LiveType DEF Resize, Usable
<1>2. of.ino \in Paths /\ of.real \in Locations /\ of.cow_pending \in BOOLEAN
  BY <1>1 DEF Resize, OpenFile
<1>3. <<of.ino, "own">> \in Locations
  BY <1>2 DEF Locations, Layers
<1>4. of.cow_pending => Base(of.real)
  BY <1>1, LiveType
<1>5. of.cow_pending => ~InPlace(of.ino, of.real)
  BY <1>2, <1>4, InPlaceSparesBase
<1>6. CASE InPlace(of.ino, of.real)
  BY <1>1, <1>2, <1>3, <1>5, <1>6 DEF Resize
<1>7. CASE ~InPlace(of.ino, of.real)
  BY <1>1, <1>2, <1>3, <1>7 DEF Resize
<1>8. QED
  BY <1>6, <1>7

\* Writing and resizing through a handle.
LEMMA TypeWriting ==
  ASSUME TypeOK, NEW h \in Handles, NEW n \in 0..MaxSize, Write(h, n) \/ Resize(h, n)
  PROVE  TypeOK'
<1> DEFINE of == open_files[h]
<1>1. disk \in Disks
  BY DEF TypeOK, Disks
<1>2. ASSUME Write(h, n)
      PROVE  TypeOK'
  <2>1. h \in Live /\ of \in OpenFile /\ UNCHANGED <<flushing, overlapped>>
    BY <1>2, WriteStep
  <2>2. of.path \in Paths /\ of.real \in Locations /\ of.fd \in Locations \cup {None}
        /\ of.cow_pending \in BOOLEAN /\ of.virtual_size \in 0..MaxSize
    BY <2>1 DEF OpenFile
  <2>3. \A loc \in Locations, fd \in Locations \cup {None} : Written(of, loc, fd, n) \in OpenFile
    BY <2>1, <2>2, VirtualFilesAssumption DEF Written, OpenFile, Larger
  <2>4. CASE of.cow_pending
    <3> DEFINE stage == <<of.path, "staged">>
               table == CopyOnWrite(disk, of.real, of.path)
    <3>1. stage \in Locations /\ table \in Disks /\ table[stage] # Absent /\ Keeps(disk, table)
      BY <1>1, <2>2, CopyOnWriteMakesStaged
    <3>2. PICK m \in 0..MaxSize : disk' = Sized(table, stage, m)
      BY <1>2, <2>4, WriteStep
    <3>3. index' = Indexed(of.path, stage, table)
          /\ open_files' = [open_files EXCEPT ![h] = Written(of, stage, stage, n)]
      BY <1>2, <2>4, WriteStep
    <3>4. Written(of, stage, stage, n) \in OpenFile
          /\ ~Written(of, stage, stage, n).cow_pending
          /\ Written(of, stage, stage, n).fd = stage
      BY <2>1, <2>3, <3>1 DEF Written, OpenFile
    <3> HIDE DEF table, stage
    <3>5. Sized(table, stage, m) \in Disks /\ Keeps(table, Sized(table, stage, m))
      BY <3>1, SizedChangesOne
    <3>6. disk' \in Disks /\ Keeps(disk, disk') /\ disk'[stage] # Absent
      BY <3>1, <3>2, <3>5 DEF Keeps
    <3>7. index' \in [Paths -> Entry \cup {Absent}]
      BY <2>2, <3>1, <3>3, IndexedType DEF TypeOK
    <3>8. open_files' \in [Handles -> OpenFile \cup {None}] /\ HandlesOK'
      BY <3>3, <3>4, <3>6, HandleChangeType
    <3>9. QED
      BY <2>1, <3>6, <3>7, <3>8 DEF TypeOK, HandlesOK, Disks
  <2>5. CASE ~of.cow_pending
    <3>1. PICK m \in 0..MaxSize : disk' = Sized(disk, of.fd, m)
      BY <1>2, <2>5, WriteStep
    <3>2. UNCHANGED index
          /\ open_files' = [open_files EXCEPT ![h] = Written(of, of.real, of.fd, n)]
      BY <1>2, <2>5, WriteStep
    <3>3. Written(of, of.real, of.fd, n) \in OpenFile
          /\ ~Written(of, of.real, of.fd, n).cow_pending
          /\ Written(of, of.real, of.fd, n).fd = of.fd
      BY <2>1, <2>2, <2>3 DEF Written, OpenFile
    <3>4. of.fd # None => disk[of.fd] # Absent
      BY <2>1, LiveType
    <3>5. Sized(disk, of.fd, m) \in Disks /\ Keeps(disk, Sized(disk, of.fd, m))
      BY <1>1, <2>2, <3>4, SizedChangesOne
    <3>6. disk' \in Disks /\ Keeps(disk, disk') /\ (of.fd # None => disk'[of.fd] # Absent)
      BY <2>2, <3>1, <3>4, <3>5 DEF Keeps
    <3>7. open_files' \in [Handles -> OpenFile \cup {None}] /\ HandlesOK'
      BY <3>2, <3>3, <3>6, HandleChangeType
    <3>8. QED
      BY <2>1, <3>2, <3>6, <3>7 DEF TypeOK, HandlesOK, Disks
  <2>6. QED
    BY <2>2, <2>4, <2>5
<1>3. ASSUME Resize(h, n)
      PROVE  TypeOK'
  <2> DEFINE p      == of.ino
             stage  == <<p, "staged">>
             source == IF Base(of.real) THEN <<p, "own">> ELSE of.real
             resized(real, fd) == [of EXCEPT !.real = real, !.fd = fd, !.cow_pending = FALSE,
                                             !.metadata_dirty = TRUE, !.virtual_size = n]
  <2>1. h \in Live /\ of \in OpenFile /\ p \in Paths /\ UNCHANGED <<flushing, overlapped>>
        /\ source \in Locations
    BY <1>3, ResizeStep
  <2>2. of.real \in Locations /\ of.fd \in Locations \cup {None} /\ stage \in Locations
    BY <2>1 DEF OpenFile, Locations, Layers
  <2>3. \A loc \in Locations, fd \in Locations \cup {None} :
           /\ resized(loc, fd) \in OpenFile /\ resized(loc, fd).cow_pending = FALSE
           /\ resized(loc, fd).fd = fd
    BY <2>1 DEF OpenFile
  <2>4. CASE ~InPlace(p, of.real)
    <3> DEFINE table == CopyOnWrite(disk, source, p)
    <3>1. disk' = Sized(table, stage, n) /\ index' = Indexed(p, stage, disk')
          /\ open_files' = [open_files EXCEPT ![h] = resized(stage, stage)]
      BY <1>3, <2>4, ResizeStep
    <3> HIDE DEF source, resized
    <3>2. table \in Disks /\ table[stage] # Absent /\ Keeps(disk, table)
      BY <1>1, <2>1, CopyOnWriteMakesStaged
    <3> HIDE DEF table, stage
    <3>3. Sized(table, stage, n) \in Disks /\ Keeps(table, Sized(table, stage, n))
      BY <2>2, <3>2, SizedChangesOne
    <3>4. disk' \in Disks /\ Keeps(disk, disk') /\ disk'[stage] # Absent
      BY <2>2, <3>1, <3>2, <3>3 DEF Keeps
    <3>5. index' \in [Paths -> Entry \cup {Absent}]
      BY <2>1, <2>2, <3>1, <3>4, IndexedType DEF TypeOK
    <3>6. open_files' \in [Handles -> OpenFile \cup {None}] /\ HandlesOK'
      BY ZenonT(60), <2>2, <2>3, <3>1, <3>4, HandleChangeType
    <3>7. QED
      BY <2>1, <3>4, <3>5, <3>6 DEF TypeOK, HandlesOK, Disks
  <2>5. CASE InPlace(p, of.real)
    <3>1. disk' = Sized(disk, of.fd, n) /\ index' = Indexed(p, of.real, disk')
          /\ open_files' = [open_files EXCEPT ![h] = resized(of.real, of.fd)]
      BY <1>3, <2>5, ResizeStep
    <3>2. of.fd # None => disk[of.fd] # Absent
      BY <2>1, LiveType
    <3> HIDE DEF resized
    <3>3. Sized(disk, of.fd, n) \in Disks /\ Keeps(disk, Sized(disk, of.fd, n))
      BY <1>1, <2>2, <3>2, SizedChangesOne
    <3>4. disk' \in Disks /\ Keeps(disk, disk') /\ (of.fd # None => disk'[of.fd] # Absent)
      BY <2>2, <3>1, <3>2, <3>3 DEF Keeps
    <3>5. index' \in [Paths -> Entry \cup {Absent}]
      BY <2>1, <2>2, <3>1, <3>4, IndexedType DEF TypeOK
    <3>6. open_files' \in [Handles -> OpenFile \cup {None}] /\ HandlesOK'
      BY <2>2, <2>3, <3>1, <3>4, HandleChangeType
    <3>7. QED
      BY <2>1, <3>4, <3>5, <3>6 DEF TypeOK, HandlesOK, Disks
  <2>6. QED
    BY <2>4, <2>5
<1>4. QED
  BY <1>2, <1>3

\* Flushing and releasing.
LEMMA TypeFlushing ==
  ASSUME TypeOK,
         \/ \E w \in Workers : Publishes(w) \/ \E h \in Handles, c \in BOOLEAN : FlushBegins(w, h, c)
         \/ \E h \in Handles : Release(h)
  PROVE  TypeOK'
<1>1. ASSUME NEW w \in Workers, NEW h \in Handles, NEW closing \in BOOLEAN,
             FlushBegins(w, h, closing)
      PROVE  TypeOK'
  <2> DEFINE of    == open_files[h]
             f     == [h |-> h, path |-> of.path, real |-> of.real,
                       size |-> of.virtual_size, closing |-> closing]
             clean == [of EXCEPT !.metadata_dirty = FALSE]
  <2>1. h \in Live /\ of \in OpenFile
    BY <1>1, LiveType DEF FlushBegins, Usable
  <2>2. f \in Flush
    BY <2>1 DEF OpenFile, Flush
  <2>3. flushing' = [flushing EXCEPT ![w] = f] /\ UNCHANGED <<disk, index>>
    BY <1>1 DEF FlushBegins
  <2>4. clean \in OpenFile /\ clean.fd = of.fd /\ clean.cow_pending = of.cow_pending
        /\ clean.real = of.real
    BY <2>1 DEF OpenFile
  <2>5. open_files' = [open_files EXCEPT ![h] = clean]
    BY <1>1 DEF FlushBegins
  <2>6. Keeps(disk, disk') /\ (of.fd # None => disk'[of.fd] # Absent)
    BY <2>1, <2>3, LiveType DEF Keeps
  <2>7. of.cow_pending => Base(of.real)
    BY <2>1, LiveType
  <2>8. open_files' \in [Handles -> OpenFile \cup {None}] /\ HandlesOK'
    <3> HIDE DEF clean
    <3>1. QED
      BY <2>4, <2>5, <2>6, <2>7, HandleChangeType
  <2>9. overlapped' \subseteq Paths
    BY <1>1, <2>1 DEF FlushBegins, OpenFile, TypeOK
  <2>10. flushing' \in [Workers -> Flush \cup {None}]
    BY <2>2, <2>3 DEF TypeOK
  <2>11. QED
    BY <2>3, <2>8, <2>9, <2>10 DEF TypeOK, HandlesOK
<1>2. ASSUME NEW w \in Workers, Publishes(w)
      PROVE  TypeOK'
  <2> DEFINE f == flushing[w]
  <2>1. f \in Flush
    BY <1>2 DEF Publishes, TypeOK
  <2>2. [real |-> f.real, size |-> f.size] \in Entry /\ f.h \in Handles
    BY <2>1 DEF Flush, Entry
  <2>3. index' \in [Paths -> Entry \cup {Absent}] /\ flushing' \in [Workers -> Flush \cup {None}]
    BY <1>2, <2>2 DEF Publishes, TypeOK
  <2>4. Keeps(disk, disk') /\ UNCHANGED <<disk, overlapped>>
    BY <1>2 DEF Publishes, Keeps
  <2>5. open_files' \in [Handles -> OpenFile \cup {None}] /\ HandlesOK'
    <3>1. CASE UNCHANGED open_files
      BY <2>4, <3>1 DEF TypeOK, HandlesOK, Live, Base
    <3>2. CASE open_files' = [open_files EXCEPT ![f.h] = None]
      BY <2>2, <2>4, <3>2, HandleChangeType
    <3>3. QED
      BY <1>2, <3>1, <3>2 DEF Publishes
  <2>6. QED
    BY <2>3, <2>4, <2>5 DEF TypeOK, HandlesOK
<1>3. ASSUME NEW h \in Handles, Release(h)
      PROVE  TypeOK'
  <2>1. Keeps(disk, disk') /\ UNCHANGED <<disk, index, flushing, overlapped>>
        /\ open_files' = [open_files EXCEPT ![h] = None]
    BY <1>3 DEF Release, Keeps
  <2>2. open_files' \in [Handles -> OpenFile \cup {None}] /\ HandlesOK'
    BY <2>1, HandleChangeType
  <2>3. QED
    BY <2>1, <2>2 DEF TypeOK, HandlesOK
<1>4. QED
  BY <1>1, <1>2, <1>3

\* Unlinking and renaming.
LEMMA TypeNaming ==
  ASSUME TypeOK, NEW p \in Paths, Unlink(p) \/ \E q \in Paths : Rename(p, q)
  PROVE  TypeOK'
<1>1. disk \in Disks /\ Absent \in Content \cup {Absent}
  BY DEF TypeOK, Disks
<1>2. ASSUME Unlink(p)
      PROVE  TypeOK'
  <2>1. index' \in [Paths -> Entry \cup {Absent}] /\ overlapped' \subseteq Paths
        /\ UNCHANGED flushing
    BY <1>2 DEF Unlink, TypeOK
  <2>2. CASE WrittenLayers(p) = {}
    <3>1. UNCHANGED <<disk, open_files>>
      BY <1>2, <2>2 DEF Unlink
    <3>2. QED
      BY <2>1, <3>1 DEF TypeOK, Live, Base
  <2>3. CASE WrittenLayers(p) # {}
    <3> DEFINE loc == <<p, FoundIn(p)>>
    <3>1. loc \in Locations
      BY <2>3, FoundInExists
    <3>2. disk' = [disk EXCEPT ![loc] = Absent]
          /\ open_files' = [h \in Handles |->
                IF h \in Live /\ open_files[h].fd = loc
                THEN [open_files[h] EXCEPT !.fd = None] ELSE open_files[h]]
      BY <1>2, <2>3 DEF Unlink
    <3> HIDE DEF loc
    <3>3. disk' \in Disks /\ \A l \in Locations : l # loc => disk'[l] = disk[l]
      BY <1>1, <3>1, <3>2 DEF Disks
    <3>4. ASSUME NEW h \in Handles, h \in Live
          PROVE  /\ open_files'[h] \in OpenFile /\ open_files'[h].fd # loc
                 /\ open_files'[h].fd # None => open_files'[h].fd = open_files[h].fd
                 /\ open_files'[h].cow_pending = open_files[h].cow_pending
                 /\ open_files'[h].real = open_files[h].real
      <4>1. open_files[h] \in OpenFile
        BY <3>4, LiveType
      <4>2. CASE open_files[h].fd = loc
        <5>1. open_files'[h] = [open_files[h] EXCEPT !.fd = None]
          BY <3>2, <3>4, <4>2
        <5>2. QED
          BY <3>1, <4>1, <5>1, AbsentAssumption DEF OpenFile
      <4>3. CASE open_files[h].fd # loc
        <5>1. open_files'[h] = open_files[h]
          BY <3>2, <3>4, <4>3
        <5>2. QED
          BY <4>1, <4>3, <5>1
      <4>4. QED
        BY <4>2, <4>3
    <3>5. ASSUME NEW h \in Handles, h \notin Live
          PROVE  open_files'[h] = None
      BY <3>2, <3>5 DEF Live
    <3>6. open_files' \in [Handles -> OpenFile \cup {None}]
      BY <3>2, <3>4, <3>5
    <3>7. Live' = Live
      BY <3>4, <3>5, AbsentAssumption DEF Live
    <3>8. HandlesOK'
      <4> SUFFICES ASSUME NEW h \in Live
                   PROVE  /\ open_files'[h].fd # None => disk'[open_files'[h].fd] # Absent
                          /\ open_files'[h].cow_pending => Base(open_files'[h].real)
        BY <3>7 DEF HandlesOK, Base
      <4>1. h \in Handles /\ open_files'[h].fd \in Locations \cup {None}
        BY <3>4, LiveType DEF OpenFile
      <4>2. QED
        BY <3>3, <3>4, <4>1, LiveType
    <3>9. QED
      BY <2>1, <3>3, <3>6, <3>8 DEF TypeOK, HandlesOK, Disks
  <2>4. QED
    BY <2>2, <2>3
<1>3. ASSUME NEW q \in Paths, Rename(p, q)
      PROVE  TypeOK'
  <2> DEFINE moves == WrittenLayers(p) # {}
             from  == <<p, FoundIn(p)>>
             to    == <<q, FoundIn(p)>>
  <2>1. UNCHANGED flushing /\ overlapped' \subseteq Paths /\ p # q /\ index[p] \in Entry
    BY <1>3 DEF Rename, TypeOK
  <2>2. index' \in [Paths -> Entry \cup {Absent}]
    <3>1. \A loc \in Locations : [real |-> loc, size |-> index[p].size] \in Entry
      BY <2>1 DEF Entry
    <3>2. \A l \in {"staged", "overwrite"} : <<q, l>> \in Locations
      BY DEF Locations, Layers
    <3>3. PICK loc \in Locations : index' = Renamed(p, q, loc)
      BY <1>3, <3>2 DEF Rename
    <3>4. QED
      BY <3>1, <3>3 DEF Renamed, TypeOK
  <2>3. moves => from \in Locations /\ to \in Locations /\ from # to
                 /\ disk[from] # Absent
    BY <2>1, FoundInExists DEF Locations, Layers
  <2>4. disk' \in Disks
        /\ (moves => /\ \A l \in Locations : l \notin {from, to} => disk'[l] = disk[l]
                     /\ disk'[to] = disk[from])
        /\ (~moves => Keeps(disk, disk'))
    <3>1. CASE moves
      <4>1. disk' = [disk EXCEPT ![to] = disk[from], ![from] = Absent]
        BY <1>3, <3>1 DEF Rename
      <4> HIDE DEF from, to
      <4>2. QED
        BY <1>1, <2>3, <3>1, <4>1 DEF Disks
    <3>2. CASE ~moves
      <4>1. disk' = CopyOnWrite(disk, index[p].real, q)
        BY <1>3, <3>2 DEF Rename
      <4>2. index[p].real \in Locations
        BY <2>1 DEF Entry
      <4>3. QED
        BY <1>1, <3>2, <4>1, <4>2, CopyOnWriteMakesStaged
    <3>3. QED
      BY <3>1, <3>2
  <2>5. ASSUME NEW h \in Live
        PROVE  /\ open_files'[h] \in OpenFile
               /\ open_files'[h].fd = IF moves THEN Moved(open_files[h].fd, from, to)
                                               ELSE open_files[h].fd
               /\ open_files'[h].cow_pending = open_files[h].cow_pending
               /\ open_files'[h].real = open_files[h].real
    <3> DEFINE of  == open_files[h]
               fd  == IF moves THEN Moved(of.fd, from, to) ELSE of.fd
               ino == IF of.ino = p THEN q ELSE IF of.ino = q THEN None ELSE of.ino
    <3>1. of \in OpenFile /\ h \in Handles
      BY LiveType
    <3>2. fd \in Locations \cup {None} /\ ino \in Paths \cup {None}
      BY <2>3, <3>1 DEF OpenFile, Moved
    <3>3. open_files'[h] = [of EXCEPT !.fd = fd, !.ino = ino]
      BY <1>3, <3>1 DEF Rename
    <3> HIDE DEF fd, ino
    <3>4. open_files'[h] \in OpenFile /\ open_files'[h].fd = fd
          /\ open_files'[h].cow_pending = of.cow_pending /\ open_files'[h].real = of.real
      BY <3>1, <3>2, <3>3 DEF OpenFile
    <3>5. QED
      BY <3>4 DEF fd
  <2>6. ASSUME NEW h \in Handles, h \notin Live
        PROVE  open_files'[h] = None
    BY <1>3, <2>6 DEF Rename, Live
  <2>7. open_files' \in [Handles -> OpenFile \cup {None}]
    <3>1. open_files' = [h \in Handles |-> open_files'[h]]
      BY <1>3 DEF Rename
    <3>2. \A h \in Handles : open_files'[h] \in OpenFile \cup {None}
      BY <2>5, <2>6
    <3>3. QED
      BY <3>1, <3>2
  <2>8. Live' = Live
    BY <2>5, <2>6, LiveType, AbsentAssumption DEF Live
  <2>9. HandlesOK'
    <3> SUFFICES ASSUME NEW h \in Live
                 PROVE  /\ open_files'[h].fd # None => disk'[open_files'[h].fd] # Absent
                        /\ open_files'[h].cow_pending => Base(open_files'[h].real)
      BY <2>8 DEF HandlesOK, Base
    <3>1. open_files'[h].cow_pending => Base(open_files'[h].real)
      BY <2>5, LiveType
    <3>2. open_files[h].fd \in Locations \cup {None}
          /\ (open_files[h].fd # None => disk[open_files[h].fd] # Absent)
      BY LiveType DEF OpenFile
    <3>3. ASSUME open_files'[h].fd # None
          PROVE  disk'[open_files'[h].fd] # Absent
      <4>1. CASE moves
        <5>1. open_files'[h].fd = Moved(open_files[h].fd, from, to)
          BY <2>5, <4>1
        <5> HIDE DEF from, to
        <5>2. QED
          BY <2>3, <2>4, <3>2, <3>3, <4>1, <5>1 DEF Moved
      <4>2. CASE ~moves
        BY <2>4, <2>5, <3>2, <3>3, <4>2 DEF Keeps
      <4>3. QED
        BY <4>1, <4>2
    <3>4. QED
      BY <3>1, <3>3
  <2>10. QED
    BY <2>1, <2>2, <2>4, <2>7, <2>9 DEF TypeOK, HandlesOK, Disks
<1>4. QED
  BY <1>2, <1>3

\* Initial states are well typed and every action keeps the types.
LEMMA TypeInductive == (Init => TypeOK) /\ (TypeOK /\ [Next]_vars => TypeOK')
<1>1. Init => TypeOK
  <2> SUFFICES ASSUME Init PROVE TypeOK
    OBVIOUS
  <2>1. \A loc \in Locations : [by |-> loc[1], size |-> MaxSize] \in Content
    BY VirtualFilesAssumption DEF Locations, Content
  <2>2. disk \in Disks
    BY <2>1 DEF Init, Disks
  <2>3. \A p \in Paths, l \in Layers : [real |-> <<p, l>>, size |-> MaxSize] \in Entry
    BY VirtualFilesAssumption DEF Locations, Entry
  <2>4. index \in [Paths -> Entry \cup {Absent}]
    BY <2>3 DEF Init, Layers
  <2>5. QED
    BY <2>2, <2>4 DEF Init, TypeOK, Live, Disks
<1>2. TypeOK /\ [Next]_vars => TypeOK'
  <2> SUFFICES ASSUME TypeOK, [Next]_vars PROVE TypeOK'
    OBVIOUS
  <2>1. CASE Next
    BY <2>1, TypeOpening, TypeWriting, TypeFlushing, TypeNaming DEF Next
  <2>2. CASE UNCHANGED vars
    BY <2>2 DEF vars, TypeOK, Live, Base
  <2>3. QED
    BY <2>1, <2>2
<1>3. QED
  BY <1>1, <1>2

\* Every variable keeps its type, the files of open descriptors exist, and only a file of
\* the game waits for its copy.
THEOREM TypeCorrect == Spec => []TypeOK
  BY TypeInductive, PTL DEF Spec
-----------------------------------------------------------------------------
(* The files of the game.                                                   *)

\* A descriptor that is written to is not one of a file of the game.
DescriptorsSpareGame ==
    \A h \in Live : ~open_files[h].cow_pending =>
        open_files[h].fd = None \/ ~Base(open_files[h].fd)

\* A step that leaves the files of the game as they are.
GameKept == \A p \in Backing : disk'[<<p, "own">>] = disk[<<p, "own">>]

\* What opening a file does: without truncating, in place, and on a copy.
LEMMA OpenStep ==
  ASSUME TypeOK, NEW p \in Paths, NEW h \in Handles, NEW truncate \in BOOLEAN,
         Open(p, h, truncate)
  PROVE  LET real  == index[p].real
             stage == <<p, "staged">>
         IN  /\ open_files[h] = None /\ index[p] \in Entry /\ real \in Locations
             /\ UNCHANGED flushing /\ NoteWriter(p)
             /\ ~truncate =>
                  /\ UNCHANGED <<disk, index>> /\ disk[real] # Absent
                  /\ OpenHandle(h, p, real, ~InPlace(p, real), index[p].size)
             /\ truncate /\ InPlace(p, real) =>
                  /\ disk[real] # Absent /\ disk' = Sized(disk, real, 0)
                  /\ index' = [index EXCEPT ![p] = [real |-> real, size |-> 0]]
                  /\ OpenHandle(h, p, real, FALSE, 0)
             /\ truncate /\ ~InPlace(p, real) =>
                  /\ disk' = Sized(CopyOnWrite(disk, real, p), stage, 0)
                  /\ index' = [index EXCEPT ![p] = [real |-> stage, size |-> 0]]
                  /\ OpenHandle(h, p, stage, FALSE, 0)
<1>1. index[p] \in Entry /\ index[p].real \in Locations /\ <<p, "staged">> \in Locations
  BY DEF Open, TypeOK, Entry, Locations, Layers
<1>2. None \notin Locations
  BY AbsentAssumption
<1>3. CASE ~truncate
  BY <1>1, <1>3 DEF Open
<1>4. CASE truncate /\ InPlace(p, index[p].real)
  BY <1>1, <1>2, <1>4 DEF Open, Sized
<1>5. CASE truncate /\ ~InPlace(p, index[p].real)
  BY <1>1, <1>2, <1>5 DEF Open, Sized
<1>6. QED
  BY <1>3, <1>4, <1>5

\* What truncate(2) does, in place and on a copy.
LEMMA ResizePathStep ==
  ASSUME TypeOK, NEW p \in Paths, NEW n \in 0..MaxSize, ResizePath(p, n)
  PROVE  LET real  == index[p].real
             stage == <<p, "staged">>
         IN  /\ index[p] \in Entry /\ real \in Locations
             /\ UNCHANGED <<open_files, flushing>> /\ NoteWriter(p)
             /\ InPlace(p, real) =>
                  /\ disk[real] # Absent /\ disk' = Sized(disk, real, n)
                  /\ index' = Indexed(p, real, disk')
             /\ ~InPlace(p, real) =>
                  /\ disk' = Sized(CopyOnWrite(disk, real, p), stage, n)
                  /\ index' = Indexed(p, stage, disk')
<1>1. index[p] \in Entry /\ index[p].real \in Locations
  BY DEF ResizePath, TypeOK, Entry
<1>2. CASE InPlace(p, index[p].real)
  BY <1>1, <1>2 DEF ResizePath
<1>3. CASE ~InPlace(p, index[p].real)
  BY <1>1, <1>3 DEF ResizePath
<1>4. QED
  BY <1>2, <1>3

\* Giving a size to a file that is not the game's, or to a staged copy, changes none of
\* the game's.
LEMMA SizedSparesGame ==
  ASSUME TypeOK, NEW n \in 0..MaxSize
  PROVE  /\ \A fd \in Locations \cup {None} :
              /\ fd # None => disk[fd] # Absent
              /\ fd = None \/ ~Base(fd)
              /\ disk' = Sized(disk, fd, n)
              => GameKept
         /\ \A source \in Locations, p \in Paths :
              disk' = Sized(CopyOnWrite(disk, source, p), <<p, "staged">>, n) => GameKept
<1>1. disk \in Disks
  BY DEF TypeOK, Disks
<1>2. \A b \in Backing : <<b, "own">> \in Locations /\ Base(<<b, "own">>) /\ <<b, "own">> # None
  BY VirtualFilesAssumption, AbsentAssumption DEF Locations, Layers, Base
<1>3. ASSUME NEW fd \in Locations \cup {None}, fd # None => disk[fd] # Absent,
             fd = None \/ ~Base(fd), disk' = Sized(disk, fd, n)
      PROVE  GameKept
  <2>1. ChangesOnly(fd, disk, Sized(disk, fd, n))
    BY <1>1, <1>3, SizedChangesOne
  <2>2. QED
    BY <1>2, <1>3, <2>1 DEF GameKept, ChangesOnly
<1>4. ASSUME NEW source \in Locations, NEW p \in Paths,
             disk' = Sized(CopyOnWrite(disk, source, p), <<p, "staged">>, n)
      PROVE  GameKept
  <2> DEFINE table == CopyOnWrite(disk, source, p)
             stage == <<p, "staged">>
  <2>1. stage \in Locations /\ table \in Disks /\ table[stage] # Absent
        /\ ChangesOnly(stage, disk, table)
    BY <1>1, CopyOnWriteMakesStaged
  <2>2. stage # None /\ ~Base(stage)
    BY <2>1, AbsentAssumption DEF Base
  <2>3. disk' = Sized(table, stage, n)
    BY <1>4
  <2> HIDE DEF table, stage
  <2>4. ChangesOnly(stage, table, Sized(table, stage, n))
    BY <2>1, SizedChangesOne
  <2>5. QED
    BY <1>2, <2>1, <2>2, <2>3, <2>4 DEF GameKept, ChangesOnly
<1>5. QED
  BY <1>3, <1>4

\* One entry of the table changes, its descriptor being none of a file of the game.
LEMMA HandleChangeSpares ==
  ASSUME TypeOK, DescriptorsSpareGame, NEW h \in Handles, NEW of,
         open_files' = [open_files EXCEPT ![h] = of],
         of # None /\ ~of.cow_pending => of.fd = None \/ ~Base(of.fd)
  PROVE  DescriptorsSpareGame'
<1> SUFFICES ASSUME NEW g \in Live', ~open_files'[g].cow_pending
             PROVE  open_files'[g].fd = None \/ ~Base(open_files'[g].fd)
  BY DEF DescriptorsSpareGame, Base
<1>1. CASE g = h
  BY <1>1 DEF TypeOK, Live
<1>2. CASE g # h
  <2>1. g \in Live /\ open_files'[g] = open_files[g]
    BY <1>2 DEF Live, TypeOK
  <2>2. QED
    BY <2>1 DEF DescriptorsSpareGame
<1>3. QED
  BY <1>1, <1>2

\* Opening a handle keeps DescriptorsSpareGame.
LEMMA OpenHandleSpares ==
  ASSUME TypeOK, DescriptorsSpareGame, NEW h \in Handles, NEW p \in Paths, NEW real,
         NEW cow \in BOOLEAN, NEW size, OpenHandle(h, p, real, cow, size),
         ~cow => ~Base(real)
  PROVE  DescriptorsSpareGame'
  BY HandleChangeSpares DEF OpenHandle

\* No step modifies a file of the game, and DescriptorsSpareGame is inductive.
LEMMA SparesInductive ==
  /\ Init => DescriptorsSpareGame
  /\ TypeOK /\ DescriptorsSpareGame /\ [Next]_vars => DescriptorsSpareGame' /\ GameKept
<1>1. Init => DescriptorsSpareGame
  BY DEF Init, DescriptorsSpareGame, Live
<1> SUFFICES ASSUME TypeOK, DescriptorsSpareGame, [Next]_vars
             PROVE  DescriptorsSpareGame' /\ GameKept
  BY <1>1
<1>2. \A p \in Paths : <<p, "staged">> \in Locations /\ ~Base(<<p, "staged">>)
  BY DEF Locations, Layers, Base
<1>3. \A b \in Backing : <<b, "own">> \in Locations /\ Base(<<b, "own">>)
  BY VirtualFilesAssumption DEF Locations, Layers, Base
<1>4. 0 \in 0..MaxSize
  BY VirtualFilesAssumption
<1>5. ASSUME NEW p \in Paths, NEW h \in Handles, Create(p, h)
      PROVE  DescriptorsSpareGame' /\ GameKept
  <2>1. DescriptorsSpareGame'
    BY <1>2, <1>5, OpenHandleSpares DEF Create
  <2>2. GameKept
    BY <1>2, <1>3, <1>5 DEF Create, GameKept, TypeOK
  <2>3. QED
    BY <2>1, <2>2
<1>6. ASSUME NEW p \in Paths, NEW h \in Handles, NEW truncate \in BOOLEAN, Open(p, h, truncate)
      PROVE  DescriptorsSpareGame' /\ GameKept
  <2> DEFINE real == index[p].real
  <2>1. real \in Locations
    BY <1>6, OpenStep
  <2>2. InPlace(p, real) => ~Base(real)
    BY <2>1, InPlaceSparesBase
  <2>3. CASE ~truncate
    <3>1. OpenHandle(h, p, real, ~InPlace(p, real), index[p].size) /\ UNCHANGED disk
      BY ZenonT(60), <1>6, <2>3, OpenStep
    <3>2. QED
      BY <2>2, <3>1, OpenHandleSpares DEF GameKept
  <2>4. CASE truncate /\ InPlace(p, real)
    <3>1. disk[real] # Absent /\ disk' = Sized(disk, real, 0) /\ OpenHandle(h, p, real, FALSE, 0)
      BY ZenonT(60), <1>6, <2>4, OpenStep
    <3>2. QED
      BY <1>4, <2>1, <2>2, <2>4, <3>1, OpenHandleSpares, SizedSparesGame
  <2>5. CASE truncate /\ ~InPlace(p, real)
    <3>1. disk' = Sized(CopyOnWrite(disk, real, p), <<p, "staged">>, 0)
          /\ OpenHandle(h, p, <<p, "staged">>, FALSE, 0)
      BY <1>6, <2>5, OpenStep
    <3>2. GameKept
      BY <1>4, <2>1, <3>1, SizedSparesGame
    <3>3. QED
      BY <1>2, <3>1, <3>2, OpenHandleSpares
  <2>6. QED
    BY <2>3, <2>4, <2>5
<1>7. ASSUME NEW p \in Paths, NEW n \in 0..MaxSize, ResizePath(p, n)
      PROVE  DescriptorsSpareGame' /\ GameKept
  <2> DEFINE real == index[p].real
  <2>1. real \in Locations /\ UNCHANGED open_files
    BY <1>7, ResizePathStep
  <2>2. DescriptorsSpareGame'
    BY <2>1 DEF DescriptorsSpareGame, Live, Base
  <2>3. CASE InPlace(p, real)
    <3>1. disk[real] # Absent /\ disk' = Sized(disk, real, n)
      BY <1>7, <2>3, ResizePathStep
    <3>2. QED
      BY <2>1, <2>2, <2>3, <3>1, InPlaceSparesBase, SizedSparesGame
  <2>4. CASE ~InPlace(p, real)
    <3>1. disk' = Sized(CopyOnWrite(disk, real, p), <<p, "staged">>, n)
      BY <1>7, <2>4, ResizePathStep
    <3>2. QED
      BY <2>1, <2>2, <3>1, SizedSparesGame
  <2>5. QED
    BY <2>3, <2>4
<1>8. ASSUME NEW h \in Handles, NEW n \in 0..MaxSize, Write(h, n)
      PROVE  DescriptorsSpareGame' /\ GameKept
  <2> DEFINE of    == open_files[h]
             stage == <<of.path, "staged">>
  <2>1. h \in Live /\ of \in OpenFile
    BY <1>8, WriteStep
  <2>2. of.path \in Paths /\ of.real \in Locations /\ of.fd \in Locations \cup {None}
        /\ of.cow_pending \in BOOLEAN
    BY <2>1 DEF OpenFile
  <2>3. \A loc, fd : Written(of, loc, fd, n).fd = fd
    BY <2>1 DEF Written, OpenFile
  <2>4. CASE of.cow_pending
    <3>1. open_files' = [open_files EXCEPT ![h] = Written(of, stage, stage, n)]
      BY <1>8, <2>4, WriteStep
    <3>2. PICK m \in 0..MaxSize : disk' = Sized(CopyOnWrite(disk, of.real, of.path), stage, m)
      BY <1>8, <2>4, WriteStep
    <3>3. GameKept
      BY <2>2, <3>2, SizedSparesGame
    <3>4. QED
      <4> DEFINE new == Written(of, stage, stage, n)
      <4>1. new.fd = stage /\ ~Base(stage) /\ open_files' = [open_files EXCEPT ![h] = new]
        BY <1>2, <2>2, <2>3, <3>1
      <4> HIDE DEF new
      <4>2. QED
        BY <3>3, <4>1, HandleChangeSpares
  <2>5. CASE ~of.cow_pending
    <3>1. open_files' = [open_files EXCEPT ![h] = Written(of, of.real, of.fd, n)]
      BY <1>8, <2>5, WriteStep
    <3>2. PICK m \in 0..MaxSize : disk' = Sized(disk, of.fd, m)
      BY <1>8, <2>5, WriteStep
    <3>3. (of.fd = None \/ ~Base(of.fd)) /\ (of.fd # None => disk[of.fd] # Absent)
      BY <2>1, <2>5, LiveType DEF DescriptorsSpareGame
    <3>4. QED
      <4> DEFINE new == Written(of, of.real, of.fd, n)
      <4>1. new.fd = of.fd /\ open_files' = [open_files EXCEPT ![h] = new]
        BY <2>3, <3>1
      <4> HIDE DEF new
      <4>2. DescriptorsSpareGame'
        BY <3>3, <4>1, HandleChangeSpares
      <4>3. GameKept
        BY <2>2, <3>2, <3>3, SizedSparesGame
      <4>4. QED
        BY <4>2, <4>3
  <2>6. QED
    BY <2>2, <2>4, <2>5
<1>9. ASSUME NEW h \in Handles, NEW n \in 0..MaxSize, Resize(h, n)
      PROVE  DescriptorsSpareGame' /\ GameKept
  <2> DEFINE of     == open_files[h]
             p      == of.ino
             stage  == <<p, "staged">>
             source == IF Base(of.real) THEN <<p, "own">> ELSE of.real
             resized(real, fd) == [of EXCEPT !.real = real, !.fd = fd, !.cow_pending = FALSE,
                                             !.metadata_dirty = TRUE, !.virtual_size = n]
  <2>1. h \in Live /\ of \in OpenFile /\ p \in Paths /\ source \in Locations
    BY <1>9, ResizeStep
  <2>2. of.fd \in Locations \cup {None}
    BY <2>1 DEF OpenFile
  <2>3. \A loc, fd : resized(loc, fd).fd = fd
    BY <2>1 DEF OpenFile
  <2>4. CASE ~InPlace(p, of.real)
    <3>1. open_files' = [open_files EXCEPT ![h] = resized(stage, stage)]
          /\ disk' = Sized(CopyOnWrite(disk, source, p), stage, n)
      BY <1>9, <2>4, ResizeStep
    <3> HIDE DEF resized, source
    <3>2. GameKept
      BY <2>1, <3>1, SizedSparesGame
    <3>3. QED
      <4> DEFINE new == resized(stage, stage)
      <4>1. new.fd = stage /\ ~Base(stage) /\ open_files' = [open_files EXCEPT ![h] = new]
        BY <1>2, <2>1, <2>3, <3>1
      <4> HIDE DEF new
      <4>2. QED
        BY <3>2, <4>1, HandleChangeSpares
  <2>5. CASE InPlace(p, of.real)
    <3>1. open_files' = [open_files EXCEPT ![h] = resized(of.real, of.fd)]
          /\ disk' = Sized(disk, of.fd, n) /\ ~of.cow_pending
      BY <1>9, <2>5, ResizeStep
    <3>2. (of.fd = None \/ ~Base(of.fd)) /\ (of.fd # None => disk[of.fd] # Absent)
      BY <2>1, <3>1, LiveType DEF DescriptorsSpareGame
    <3> HIDE DEF resized
    <3>3. QED
      <4> DEFINE new == resized(of.real, of.fd)
      <4>1. new.fd = of.fd /\ open_files' = [open_files EXCEPT ![h] = new]
        BY <2>3, <3>1
      <4> HIDE DEF new
      <4>2. DescriptorsSpareGame'
        BY <3>2, <4>1, HandleChangeSpares
      <4>3. GameKept
        BY <2>2, <3>1, <3>2, SizedSparesGame
      <4>4. QED
        BY <4>2, <4>3
  <2>6. QED
    BY <2>4, <2>5
<1>10. ASSUME NEW w \in Workers, NEW h \in Handles, NEW c \in BOOLEAN, FlushBegins(w, h, c)
       PROVE  DescriptorsSpareGame' /\ GameKept
  <2> DEFINE clean == [open_files[h] EXCEPT !.metadata_dirty = FALSE]
  <2>1. h \in Live /\ UNCHANGED disk /\ open_files' = [open_files EXCEPT ![h] = clean]
    BY <1>10 DEF FlushBegins, Usable
  <2>2. clean.fd = open_files[h].fd /\ clean.cow_pending = open_files[h].cow_pending
    BY <2>1, LiveType DEF OpenFile
  <2> HIDE DEF clean
  <2>3. QED
    BY <2>1, <2>2, HandleChangeSpares DEF DescriptorsSpareGame, GameKept
<1>11. ASSUME NEW w \in Workers, Publishes(w)
       PROVE  DescriptorsSpareGame' /\ GameKept
  <2>1. flushing[w].h \in Handles
    BY <1>11 DEF Publishes, TypeOK, Flush
  <2>2. CASE UNCHANGED open_files
    BY <1>11, <2>2 DEF Publishes, DescriptorsSpareGame, GameKept, Live, Base
  <2>3. CASE open_files' = [open_files EXCEPT ![flushing[w].h] = None]
    BY <1>11, <2>1, <2>3, HandleChangeSpares DEF Publishes, GameKept
  <2>4. QED
    BY <1>11, <2>2, <2>3 DEF Publishes
<1>12. ASSUME NEW h \in Handles, Release(h)
       PROVE  DescriptorsSpareGame' /\ GameKept
  BY <1>12, HandleChangeSpares DEF Release, GameKept
<1>13. ASSUME NEW p \in Paths, Unlink(p)
       PROVE  DescriptorsSpareGame' /\ GameKept
  <2>1. GameKept
    BY <1>3, <1>13, FoundInExists DEF Unlink, GameKept, TypeOK
  <2>2. ASSUME NEW h \in Live'
        PROVE  /\ h \in Live /\ open_files'[h].cow_pending = open_files[h].cow_pending
               /\ open_files'[h].fd \in {open_files[h].fd, None}
    BY ZenonT(60), <1>13, <2>2, LiveType DEF Unlink, Live, OpenFile
  <2>3. QED
    BY <2>1, <2>2 DEF DescriptorsSpareGame, Base
<1>14. ASSUME NEW p \in Paths, NEW q \in Paths, Rename(p, q)
       PROVE  DescriptorsSpareGame' /\ GameKept
  <2> DEFINE moves == WrittenLayers(p) # {}
             from  == <<p, FoundIn(p)>>
             to    == <<q, FoundIn(p)>>
  <2>1. moves => ~Base(from) /\ ~Base(to)
    BY FoundInExists DEF Base
  <2>2. GameKept
    <3>1. CASE moves
      <4>1. disk' = [disk EXCEPT ![to] = disk[from], ![from] = Absent]
        BY <1>14, <3>1 DEF Rename
      <4> HIDE DEF from, to
      <4>2. QED
        BY <1>3, <2>1, <3>1, <4>1 DEF GameKept, TypeOK
    <3>2. CASE ~moves
      <4>1. disk' = CopyOnWrite(disk, index[p].real, q) /\ index[p].real \in Locations
            /\ disk \in Disks
        BY <1>14, <3>2 DEF Rename, TypeOK, Entry, Disks
      <4>2. ChangesOnly(<<q, "staged">>, disk, disk')
        BY <4>1, CopyOnWriteMakesStaged
      <4>3. QED
        BY <1>2, <1>3, <4>2 DEF GameKept, ChangesOnly
    <3>3. QED
      BY <3>1, <3>2
  <2>3. ASSUME NEW h \in Live'
        PROVE  /\ h \in Live /\ open_files'[h].cow_pending = open_files[h].cow_pending
               /\ open_files'[h].fd = open_files[h].fd
                  \/ (moves /\ open_files'[h].fd \in {to, None})
    BY <1>14, <2>3, LiveType DEF Rename, Live, OpenFile, Moved
  <2>4. QED
    BY <2>1, <2>2, <2>3 DEF DescriptorsSpareGame, Base
<1>15. CASE UNCHANGED vars
  BY <1>15 DEF vars, DescriptorsSpareGame, GameKept, Live, Base
<1>16. QED
  BY <1>5, <1>6, <1>7, <1>8, <1>9, <1>10, <1>11, <1>12, <1>13, <1>14, <1>15 DEF Next

\* Whatever programs open, write, rename and unlink, however they share files, the files
\* of the game stay as they are.
THEOREM GameStaysUnmodified == Spec => GameNeverModified
<1>1. TypeOK /\ DescriptorsSpareGame /\ [Next]_vars =>
        [\A p \in Backing : disk'[<<p, "own">>] = disk[<<p, "own">>]]_vars
  BY SparesInductive DEF GameKept
<1>2. QED
  BY <1>1, TypeInductive, SparesInductive, PTL DEF Spec, GameNeverModified
-----------------------------------------------------------------------------
(* The directory of the session, when programs share no files.              *)

\* The layer whose file a path has, if it has one.
TopLayer(p) == IF disk[<<p, "staged">>] # Absent THEN "staged"
               ELSE IF disk[<<p, "overwrite">>] # Absent THEN "overwrite" ELSE "own"

\* The index names an existing file of the topmost layer, and every staged file.
PathsSound ==
    \A p \in Paths :
        /\ disk[<<p, "staged">>] # Absent => index[p] # Absent
        /\ index[p] # Absent => disk[index[p].real] # Absent /\ index[p].real = <<p, TopLayer(p)>>

\* A handle is open on the file the index names for its path, unless its copy is due:
\* then on the file of the game, which somebody else may have copied.
HandlesSound ==
    \A h \in Live :
        LET of == open_files[h]
        IN  /\ index[of.path] # Absent /\ of.ino = of.path
            /\ IF of.cow_pending
                 THEN /\ of.real = <<of.path, "own">> /\ Base(of.real) /\ ~of.metadata_dirty
                      /\ index[of.path].real \in {of.real, <<of.path, "staged">>}
                 ELSE of.fd = index[of.path].real /\ of.real = of.fd /\ ~Base(of.real)

\* What is about to be published is the file the index names already; the handle of a
\* flush stays open, and nothing else is flushed from one that is being released.
FlushesSound ==
    \A w \in Workers : flushing[w] # None =>
        LET f == flushing[w]
        IN  /\ f.h \in Live /\ open_files[f.h].path = f.path
            /\ ~open_files[f.h].cow_pending /\ f.real = open_files[f.h].real
            /\ f.closing => \A v \in Workers \ {w} : flushing[v] # None => flushing[v].h # f.h

\* The inductive invariant, beside the types.
Sound == PathsSound /\ HandlesSound /\ FlushesSound

\* What the invariants say of the files of one path is about the files of that path.
LEMMA PathsSoundElsewhere ==
  ASSUME TypeOK, PathsSound, NEW q \in Paths, index'[q] = index[q],
         \A l \in Layers : disk'[<<q, l>>] = disk[<<q, l>>]
  PROVE  /\ disk'[<<q, "staged">>] # Absent => index'[q] # Absent
         /\ index'[q] # Absent =>
              disk'[index'[q].real] # Absent /\ index'[q].real = <<q, TopLayer(q)>>'
         /\ View'[q] = View[q]
<1>1. "staged" \in Layers /\ "overwrite" \in Layers /\ TopLayer(q) \in Layers
  BY DEF Layers, TopLayer
<1>2. TopLayer(q)' = TopLayer(q)
  BY <1>1 DEF TopLayer
<1>3. QED
  BY <1>1, <1>2 DEF PathsSound, View

\* A file of a path gets a size, in place or on its new copy: everybody still agrees on
\* the file of the path, and for programs only the size has changed.
LEMMA FileChange ==
  ASSUME TypeOK, TypeOK', Sound, NEW p \in Paths, NEW loc \in Locations, NEW n \in 0..MaxSize,
         NEW table \in Disks, index[p] # Absent, ~Base(loc),
         loc = index[p].real \/ (loc = <<p, "staged">> /\ Base(index[p].real)),
         table[loc] = disk[index[p].real], ChangesOnly(loc, disk, table),
         disk' = Sized(table, loc, n),
         index'[p] # Absent, index'[p].real = loc, \A q \in Paths \ {p} : index'[q] = index[q],
         UNCHANGED flushing,
         \/ UNCHANGED open_files
         \/ \E h \in Handles, of \in OpenFile :
              /\ open_files' = [open_files EXCEPT ![h] = of]
              /\ of.path = p /\ of.ino = p /\ ~of.cow_pending /\ of.fd = loc /\ of.real = loc
              /\ open_files[h] # None => open_files[h].path = p
  PROVE  Sound' /\ View[p] # Absent /\ View' = [View EXCEPT ![p].size = n]
<1>1. disk \in Disks /\ index[p] \in Entry /\ disk[index[p].real] # Absent
      /\ index[p].real = <<p, TopLayer(p)>> /\ TopLayer(p) \in Layers
  BY ZenonT(60) DEF TypeOK, Disks, Sound, PathsSound, TopLayer, Layers
<1>2. loc # None /\ \E l \in Layers : loc = <<p, l>>
  BY <1>1, AbsentAssumption DEF Layers
<1>3. ChangesOnly(loc, table, disk') /\ Keeps(table, disk') /\ Keeps(disk', table)
      /\ disk'[loc] = [disk[index[p].real] EXCEPT !.size = n]
  <2>1. ChangesOnly(loc, table, Sized(table, loc, n)) /\ Keeps(table, Sized(table, loc, n))
        /\ Keeps(Sized(table, loc, n), table)
        /\ Sized(table, loc, n)[loc] = [table[loc] EXCEPT !.size = n]
    BY <1>1, <1>2, SizedChangesOne
  <2>2. QED
    BY <2>1
<1>4. \A l \in Locations : l # loc => disk'[l] = disk[l]
  BY <1>3 DEF ChangesOnly
<1>5. disk'[loc] # Absent
  BY <1>1, <1>3 DEF Keeps
<1>6. ASSUME NEW q \in Paths, q # p
      PROVE  index'[q] = index[q] /\ \A l \in Layers : disk'[<<q, l>>] = disk[<<q, l>>]
  BY <1>2, <1>4, <1>6 DEF Locations
<1>7. <<p, "staged">> \in Locations /\ <<p, "overwrite">> \in Locations
  BY DEF Locations, Layers
<1>8. TopLayer(p)' = loc[2]
  <2>1. CASE loc = <<p, "staged">>
    BY <1>5, <2>1 DEF TopLayer
  <2>2. CASE loc = <<p, "overwrite">>
    <3>1. loc = index[p].real /\ TopLayer(p) = "overwrite"
      BY <1>1, <2>2
    <3>2. disk[<<p, "staged">>] = Absent
      BY <3>1 DEF TopLayer
    <3>3. disk'[<<p, "staged">>] = Absent
      BY <1>4, <1>7, <2>2, <3>2
    <3>4. QED
      BY <1>5, <2>2, <3>3 DEF TopLayer
  <2>3. CASE loc = <<p, "own">>
    <3>1. loc = index[p].real /\ TopLayer(p) = "own"
      BY <1>1, <2>3
    <3>2. disk[<<p, "staged">>] = Absent /\ disk[<<p, "overwrite">>] = Absent
      BY <3>1 DEF TopLayer
    <3>3. disk'[<<p, "staged">>] = Absent /\ disk'[<<p, "overwrite">>] = Absent
      BY <1>4, <1>7, <2>3, <3>2
    <3>4. QED
      BY <2>3, <3>3 DEF TopLayer
  <2>4. QED
    BY <1>2, <2>1, <2>2, <2>3 DEF Layers
<1>9. PathsSound'
  <2>1. PathsSound
    BY DEF Sound
  <2>2. ASSUME NEW q \in Paths
        PROVE  /\ disk'[<<q, "staged">>] # Absent => index'[q] # Absent
               /\ index'[q] # Absent =>
                    disk'[index'[q].real] # Absent /\ index'[q].real = <<q, TopLayer(q)>>'
    <3>1. CASE q = p
      BY <1>2, <1>5, <1>8, <3>1
    <3>2. CASE q # p
      BY <1>6, <2>1, <3>2, PathsSoundElsewhere
    <3>3. QED
      BY <3>1, <3>2
  <2>3. QED
    BY <2>2 DEF PathsSound
<1>10. View[p] # Absent /\ View' = [View EXCEPT ![p].size = n]
  <2>1. View[p] = disk[index[p].real] /\ View'[p] = disk'[loc]
    BY <1>1 DEF View
  <2>2. \A q \in Paths \ {p} : View'[q] = View[q]
    BY <1>6, PathsSoundElsewhere DEF Sound
  <2>3. QED
    <3> DEFINE new == [View EXCEPT ![p].size = n]
    <3>1. new = [q \in Paths |-> IF q = p THEN [View[p] EXCEPT !.size = n] ELSE View[q]]
      BY DEF View
    <3>2. View' = [q \in Paths |-> View'[q]]
      BY DEF View
    <3>3. \A q \in Paths : View'[q] = new[q]
      BY <1>3, <2>1, <2>2, <3>1
    <3>4. new = [q \in Paths |-> new[q]]
      BY <3>1
    <3> HIDE DEF new
    <3>5. View' = new
      BY <3>2, <3>3, <3>4
    <3>6. QED
      BY <1>1, <2>1, <3>5 DEF new
<1>11. ASSUME NEW g \in Live
       PROVE  g \in Live' /\ \/ open_files'[g] = open_files[g]
                             \/ /\ open_files[g].path = p /\ open_files'[g].path = p
                                /\ open_files'[g].ino = p /\ ~open_files'[g].cow_pending
                                /\ open_files'[g].fd = loc /\ open_files'[g].real = loc
  BY AbsentAssumption DEF Live, TypeOK
<1>12. ASSUME NEW g \in Live'
       PROVE  \/ g \in Live /\ open_files'[g] = open_files[g]
              \/ /\ open_files'[g].path = p /\ open_files'[g].ino = p
                 /\ ~open_files'[g].cow_pending
                 /\ open_files'[g].fd = loc /\ open_files'[g].real = loc
  BY DEF Live, TypeOK
<1>13. HandlesSound'
  <2> SUFFICES ASSUME NEW g \in Live'
               PROVE  LET of == open_files'[g]
                      IN  /\ index'[of.path] # Absent /\ of.ino = of.path
                          /\ IF of.cow_pending
                               THEN /\ of.real = <<of.path, "own">> /\ Base(of.real)
                                    /\ ~of.metadata_dirty
                                    /\ index'[of.path].real \in {of.real, <<of.path, "staged">>}
                               ELSE /\ of.fd = index'[of.path].real /\ of.real = of.fd
                                    /\ ~Base(of.real)
    BY DEF HandlesSound, Base
  <2>1. CASE g \in Live /\ open_files'[g] = open_files[g]
    <3>1. open_files[g].path \in Paths
      BY <2>1, LiveType DEF OpenFile
    <3>2. CASE open_files[g].path # p
      BY <1>6, <2>1, <3>1, <3>2 DEF Sound, HandlesSound
    <3>3. CASE open_files[g].path = p
      BY <2>1, <3>3 DEF Sound, HandlesSound
    <3>4. QED
      BY <3>2, <3>3
  <2>2. CASE /\ open_files'[g].path = p /\ open_files'[g].ino = p
             /\ ~open_files'[g].cow_pending
             /\ open_files'[g].fd = loc /\ open_files'[g].real = loc
    BY <2>2
  <2>3. QED
    BY <1>12, <2>1, <2>2
<1>14. FlushesSound'
  <2> SUFFICES ASSUME NEW w \in Workers, flushing[w] # None
               PROVE  LET f == flushing[w]
                      IN  /\ f.h \in Live' /\ open_files'[f.h].path = f.path
                          /\ ~open_files'[f.h].cow_pending /\ f.real = open_files'[f.h].real
                          /\ f.closing => \A v \in Workers \ {w} :
                                            flushing[v] # None => flushing[v].h # f.h
    BY DEF FlushesSound
  <2> DEFINE f == flushing[w]
             g == f.h
  <2>1. /\ g \in Live /\ open_files[g].path = f.path
        /\ ~open_files[g].cow_pending /\ f.real = open_files[g].real
        /\ f.closing => \A v \in Workers \ {w} : flushing[v] # None => flushing[v].h # f.h
    BY DEF Sound, FlushesSound
  <2>2. CASE open_files'[g] = open_files[g]
    BY <1>11, <2>1, <2>2
  <2>3. CASE /\ open_files[g].path = p /\ open_files'[g].path = p
             /\ ~open_files'[g].cow_pending /\ open_files'[g].real = loc
    <3>1. open_files[g].real = index[p].real /\ ~Base(index[p].real)
      BY <2>1, <2>3 DEF Sound, HandlesSound
    <3>2. QED
      BY <1>11, <2>1, <2>3, <3>1
  <2>4. QED
    BY <1>11, <2>1, <2>2, <2>3
<1>15. QED
  BY <1>9, <1>10, <1>13, <1>14 DEF Sound

\* What a step is for programs: one of the directory's, or none.
DirectoryStep == Directory!Next \/ UNCHANGED View

\* The steps of the directory, in terms of the files and the index.
LEMMA DirectorySteps ==
  ASSUME NEW p \in Paths
  PROVE  /\ \A n \in 0..MaxSize : View[p] # Absent /\ View' = [View EXCEPT ![p].size = n]
                                    => DirectoryStep
         /\ View[p] = Absent /\ View' = [View EXCEPT ![p] = [by |-> p, size |-> 0]]
              => DirectoryStep
         /\ View' = [View EXCEPT ![p] = Absent] => DirectoryStep
         /\ \A q \in Paths \ {p} : View[p] # Absent
                                   /\ View' = [View EXCEPT ![q] = View[p], ![p] = Absent]
                                    => DirectoryStep
  BY DEF DirectoryStep, Directory!Next, Directory!Create, Directory!Change,
         Directory!Remove, Directory!Rename

\* A step that gives the file of a path a size, for programs.
Resizing(p, n) == View[p] # Absent /\ View' = [View EXCEPT ![p].size = n]

\* Writing and resizing through a handle.
LEMMA SoundWriting ==
  ASSUME TypeOK, TypeOK', Sound, NEW h \in Handles, NEW n \in 0..MaxSize,
         Write(h, n) \/ Resize(h, n)
  PROVE  LET p == open_files[h].path
         IN  /\ Sound' /\ DirectoryStep
             /\ Write(h, n) => /\ Larger(View[p].size, n) \in 0..MaxSize
                               /\ Resizing(p, Larger(View[p].size, n))
             /\ Resize(h, n) => Resizing(p, n)
<1> DEFINE of    == open_files[h]
           p     == of.path
           stage == <<p, "staged">>
<1>1. disk \in Disks
  BY DEF TypeOK, Disks
<1>2. h \in Live /\ of \in OpenFile /\ UNCHANGED flushing
  BY WriteStep, ResizeStep
<1>3. p \in Paths /\ of.ino = p /\ index[p] # Absent /\ of.real \in Locations
      /\ stage \in Locations /\ ~Base(stage) /\ of.cow_pending \in BOOLEAN
      /\ of.virtual_size \in 0..MaxSize
  BY <1>2 DEF Sound, HandlesSound, OpenFile, Locations, Layers, Base
<1>4. disk[index[p].real] # Absent /\ index[p].real \in Locations
      /\ (disk[stage] # Absent => index[p].real = stage)
  BY <1>3 DEF Sound, PathsSound, TopLayer, TypeOK, Entry
<1>5. ASSUME of.cow_pending
      PROVE  LET table == CopyOnWrite(disk, of.real, p)
             IN  /\ table \in Disks /\ ChangesOnly(stage, disk, table)
                 /\ table[stage] = disk[index[p].real] /\ table[stage] # Absent
                 /\ stage = index[p].real \/ Base(index[p].real)
  <2>1. index[p].real \in {of.real, stage} /\ Base(of.real)
    BY <1>2, <1>5 DEF Sound, HandlesSound
  <2>2. CopyOnWrite(disk, of.real, p) \in Disks
        /\ ChangesOnly(stage, disk, CopyOnWrite(disk, of.real, p))
        /\ CopyOnWrite(disk, of.real, p)[stage] =
              IF disk[stage] # Absent THEN disk[stage]
              ELSE IF disk[of.real] # Absent THEN disk[of.real]
              ELSE [by |-> p, size |-> 0]
    BY <1>1, <1>3, CopyOnWriteMakesStaged
  <2>3. QED
    BY <1>4, <2>1, <2>2
<1>6. ASSUME ~of.cow_pending
      PROVE  of.fd = index[p].real /\ of.real = of.fd /\ ~Base(of.real)
  BY <1>2, <1>6 DEF Sound, HandlesSound
<1>7. ASSUME NEW new \in OpenFile, open_files' = [open_files EXCEPT ![h] = new],
             new.path = p /\ new.ino = p /\ ~new.cow_pending,
             NEW loc \in Locations, ~Base(loc), new.fd = loc, new.real = loc,
             loc = index[p].real \/ (loc = stage /\ Base(index[p].real)),
             NEW table \in Disks, table[loc] = disk[index[p].real],
             ChangesOnly(loc, disk, table),
             NEW m \in 0..MaxSize, disk' = Sized(table, loc, m),
             index'[p] # Absent, index'[p].real = loc,
             \A q \in Paths \ {p} : index'[q] = index[q]
      PROVE  Sound' /\ DirectoryStep /\ Resizing(p, m)
  <2>1. Sound' /\ View[p] # Absent /\ View' = [View EXCEPT ![p].size = m]
    BY ZenonT(60), <1>2, <1>3, <1>7, FileChange
  <2>2. QED
    BY <1>3, <2>1, DirectorySteps DEF Resizing
<1>8. index \in [Paths -> Entry \cup {Absent}] /\ View[p] = disk[index[p].real]
  BY <1>3 DEF TypeOK, View
<1>9. ASSUME Write(h, n)
      PROVE  Sound' /\ DirectoryStep /\ Larger(View[p].size, n) \in 0..MaxSize
             /\ Resizing(p, Larger(View[p].size, n))
  <2>1. ASSUME NEW loc \in Locations
        PROVE  /\ Written(of, loc, loc, n) \in OpenFile
               /\ Written(of, loc, loc, n).path = p /\ Written(of, loc, loc, n).ino = p
               /\ ~Written(of, loc, loc, n).cow_pending
               /\ Written(of, loc, loc, n).fd = loc /\ Written(of, loc, loc, n).real = loc
    BY <1>2, <1>3, VirtualFilesAssumption DEF Written, OpenFile, Larger
  <2>2. CASE of.cow_pending
    <3> DEFINE table == CopyOnWrite(disk, of.real, p)
    <3> DEFINE m == WrittenSize(table, stage, n)
    <3>1. m \in 0..MaxSize /\ disk' = Sized(table, stage, m)
      BY <1>9, <2>2, WriteStep
    <3>2. index' = Indexed(p, stage, table)
          /\ open_files' = [open_files EXCEPT ![h] = Written(of, stage, stage, n)]
      BY <1>9, <2>2, WriteStep
    <3>3. table \in Disks /\ ChangesOnly(stage, disk, table)
          /\ table[stage] = disk[index[p].real]
          /\ (stage = index[p].real \/ Base(index[p].real))
      BY <1>5, <2>2
    <3>10. m = Larger(View[p].size, n)
      BY <1>3, <1>8, <3>3, AbsentAssumption DEF WrittenSize
    <3> HIDE DEF table, m
    <3>4. index'[p] # Absent /\ index'[p].real = stage
          /\ \A q \in Paths \ {p} : index'[q] = index[q]
      <4>1. /\ Indexed(p, stage, table)[p] # Absent /\ Indexed(p, stage, table)[p].real = stage
            /\ \A q \in Paths : q # p => Indexed(p, stage, table)[q] = index[q]
        <5> HIDE DEF stage, p
        <5>1. QED
          BY <1>3, <1>8, <3>3, IndexedType
      <4>2. QED
        BY <3>2, <4>1
    <3>5. Sound' /\ DirectoryStep /\ Resizing(p, m)
      BY <1>3, <1>7, <2>1, <3>1, <3>2, <3>3, <3>4
    <3>6. QED
      BY <1>9, <3>1, <3>10, <3>5
  <2>3. CASE ~of.cow_pending
    <3> DEFINE m == WrittenSize(disk, of.fd, n)
    <3>1. m \in 0..MaxSize /\ disk' = Sized(disk, of.fd, m)
      BY <1>9, <2>3, WriteStep
    <3>2. UNCHANGED index
          /\ open_files' = [open_files EXCEPT ![h] = Written(of, of.real, of.fd, n)]
      BY <1>9, <2>3, WriteStep
    <3>3. ChangesOnly(of.fd, disk, disk) /\ of.fd = index[p].real /\ of.real = of.fd
          /\ ~Base(of.fd)
      BY <1>6, <2>3 DEF ChangesOnly
    <3>10. m = Larger(View[p].size, n)
      BY <1>4, <1>8, <3>3, AbsentAssumption DEF WrittenSize
    <3> HIDE DEF m
    <3>4. QED
      <4>1. open_files' = [open_files EXCEPT ![h] = Written(of, of.fd, of.fd, n)]
        BY <3>2, <3>3
      <4>2. of.fd \in Locations /\ disk[of.fd] = disk[index[p].real]
        BY <1>4, <3>3
      <4>3. index'[p] # Absent /\ index'[p].real = of.fd
            /\ \A q \in Paths \ {p} : index'[q] = index[q]
        BY <1>3, <3>2, <3>3
      <4>4. Sound' /\ DirectoryStep /\ Resizing(p, m)
        BY <1>1, <1>7, <2>1, <3>1, <3>3, <4>1, <4>2, <4>3
      <4>5. QED
        BY <1>9, <3>1, <3>10, <4>4
  <2>4. QED
    BY <1>3, <2>2, <2>3
<1>10. ASSUME Resize(h, n)
       PROVE  Sound' /\ DirectoryStep /\ Resizing(p, n)
  <2> DEFINE resized(real, fd) == [of EXCEPT !.real = real, !.fd = fd, !.cow_pending = FALSE,
                                             !.metadata_dirty = TRUE, !.virtual_size = n]
  <2>1. ASSUME NEW loc \in Locations
        PROVE  /\ resized(loc, loc) \in OpenFile
               /\ resized(loc, loc).path = p /\ resized(loc, loc).ino = p
               /\ ~resized(loc, loc).cow_pending
               /\ resized(loc, loc).fd = loc /\ resized(loc, loc).real = loc
    BY <1>2, <1>3 DEF OpenFile
  <2>2. CASE of.cow_pending
    <3> DEFINE table == CopyOnWrite(disk, of.real, p)
    <3>1. Base(of.real) /\ of.real = <<p, "own">> /\ ~InPlace(of.ino, of.real)
      BY <1>2, <1>3, <2>2, InPlaceSparesBase DEF Sound, HandlesSound
    <3>2. disk' = Sized(table, stage, n) /\ index' = Indexed(p, stage, disk')
          /\ open_files' = [open_files EXCEPT ![h] = resized(stage, stage)]
      <4>1. (IF Base(of.real) THEN <<of.ino, "own">> ELSE of.real) = of.real
        BY <1>3, <3>1
      <4>2. disk' = Sized(CopyOnWrite(disk, IF Base(of.real) THEN <<of.ino, "own">> ELSE of.real,
                                     of.ino), <<of.ino, "staged">>, n)
            /\ index' = Indexed(of.ino, <<of.ino, "staged">>, disk')
            /\ open_files' = [open_files EXCEPT ![h] =
                                resized(<<of.ino, "staged">>, <<of.ino, "staged">>)]
        BY <1>10, <3>1, ResizeStep
      <4>3. QED
        BY <1>3, <4>1, <4>2
    <3>3. table \in Disks /\ ChangesOnly(stage, disk, table)
          /\ table[stage] = disk[index[p].real]
          /\ (stage = index[p].real \/ Base(index[p].real))
      BY <1>5, <2>2
    <3>4. disk' \in Disks
      BY DEF TypeOK, Disks
    <3> HIDE DEF table, resized
    <3>5. index'[p] # Absent /\ index'[p].real = stage
          /\ \A q \in Paths \ {p} : index'[q] = index[q]
      <4>1. /\ Indexed(p, stage, disk')[p] # Absent /\ Indexed(p, stage, disk')[p].real = stage
            /\ \A q \in Paths : q # p => Indexed(p, stage, disk')[q] = index[q]
        <5> HIDE DEF stage, p
        <5>1. QED
          BY <1>3, <1>8, <3>4, IndexedType
      <4>2. QED
        BY <3>2, <4>1
    <3>6. Sound' /\ DirectoryStep /\ Resizing(p, n)
      BY <1>3, <1>7, <2>1, <3>2, <3>3, <3>5
    <3>7. QED
      BY <1>10, <3>6
  <2>3. CASE ~of.cow_pending
    <3>1. of.fd = index[p].real /\ of.real = of.fd /\ ~Base(of.fd)
          /\ InPlace(of.ino, of.real)
      BY <1>4, <1>6, <2>3 DEF InPlace
    <3>2. disk' = Sized(disk, of.fd, n) /\ index' = Indexed(p, of.real, disk')
          /\ open_files' = [open_files EXCEPT ![h] = resized(of.real, of.fd)]
      BY <1>3, <1>10, <3>1, ResizeStep
    <3>3. ChangesOnly(of.fd, disk, disk) /\ disk' \in Disks
      BY DEF ChangesOnly, TypeOK, Disks
    <3> HIDE DEF resized
    <3>4. index'[p] # Absent /\ index'[p].real = of.real
          /\ \A q \in Paths \ {p} : index'[q] = index[q]
      BY <1>3, <1>8, <3>2, <3>3, IndexedType
    <3>5. Sound' /\ DirectoryStep /\ Resizing(p, n)
      BY ZenonT(60), <1>1, <1>3, <1>4, <1>7, <2>1, <3>1, <3>2, <3>3, <3>4
    <3>6. QED
      BY <1>10, <3>5
  <2>4. QED
    BY <1>3, <2>2, <2>3
<1>11. QED
  BY <1>9, <1>10

\* A handle is opened, and what is about to be published stays right.
LEMMA FlushesKept ==
  ASSUME TypeOK, FlushesSound, UNCHANGED flushing, NEW h \in Handles, NEW of,
         open_files' = [open_files EXCEPT ![h] = of],
         \/ open_files[h] = None
         \/ /\ h \in Live /\ of # None /\ of.path = open_files[h].path
            /\ of.real = open_files[h].real /\ of.cow_pending = open_files[h].cow_pending
         \/ \A w \in Workers : flushing[w] # None => flushing[w].h # h
  PROVE  FlushesSound'
<1> SUFFICES ASSUME NEW w \in Workers, flushing[w] # None
             PROVE  LET f == flushing[w]
                    IN  /\ f.h \in Live' /\ open_files'[f.h].path = f.path
                        /\ ~open_files'[f.h].cow_pending /\ f.real = open_files'[f.h].real
                        /\ f.closing => \A v \in Workers \ {w} :
                                          flushing[v] # None => flushing[v].h # f.h
  BY DEF FlushesSound
<1> DEFINE g == flushing[w].h
<1>1. g \in Live /\ g \in Handles
  BY DEF FlushesSound, Live
<1>2. CASE g = h
  BY <1>1, <1>2 DEF FlushesSound, Live, TypeOK
<1>3. CASE g # h
  BY <1>1, <1>3 DEF FlushesSound, Live, TypeOK
<1>4. QED
  BY <1>2, <1>3

\* Opening, creating and resizing by name.
LEMMA SoundOpening ==
  ASSUME TypeOK, TypeOK', Sound, NEW p \in Paths,
         \/ \E h \in Handles : Create(p, h) \/ \E truncate \in BOOLEAN : Open(p, h, truncate)
         \/ \E n \in 0..MaxSize : ResizePath(p, n)
  PROVE  /\ Sound' /\ DirectoryStep
         /\ \/ \E h \in Handles : /\ Create(p, h)
                                  /\ View' = [View EXCEPT ![p] = [by |-> p, size |-> 0]]
            \/ \E h \in Handles : Open(p, h, FALSE) /\ UNCHANGED View
            \/ \E h \in Handles : Open(p, h, TRUE) /\ Resizing(p, 0)
            \/ \E n \in 0..MaxSize : ResizePath(p, n) /\ Resizing(p, n)
<1> DEFINE stage == <<p, "staged">>
<1>1. disk \in Disks /\ 0 \in 0..MaxSize /\ stage \in Locations /\ ~Base(stage) /\ stage # None
      /\ index \in [Paths -> Entry \cup {Absent}]
  BY VirtualFilesAssumption, AbsentAssumption DEF TypeOK, Disks, Locations, Layers, Base
<1>2. ASSUME index[p] # Absent
      PROVE  LET real  == index[p].real
                 table == CopyOnWrite(disk, real, p)
             IN  /\ disk[real] # Absent /\ real \in Locations /\ (disk[stage] # Absent => real = stage)
                 /\ table \in Disks /\ ChangesOnly(stage, disk, table)
                 /\ table[stage] = disk[real] /\ table[stage] # Absent
                 /\ InPlace(p, real) => ~Base(real)
                 /\ ~InPlace(p, real) => Base(real)
                 /\ real \in {<<p, "own">>, <<p, "overwrite">>, stage}
  <2>1. disk[index[p].real] # Absent /\ index[p].real \in Locations
        /\ (disk[stage] # Absent => index[p].real = stage)
        /\ index[p].real \in {<<p, "own">>, <<p, "overwrite">>, stage}
    BY <1>2 DEF Sound, PathsSound, TopLayer, TypeOK, Entry
  <2>2. CopyOnWrite(disk, index[p].real, p) \in Disks
        /\ ChangesOnly(stage, disk, CopyOnWrite(disk, index[p].real, p))
        /\ CopyOnWrite(disk, index[p].real, p)[stage] # Absent
        /\ CopyOnWrite(disk, index[p].real, p)[stage] =
              IF disk[stage] # Absent THEN disk[stage]
              ELSE IF disk[index[p].real] # Absent THEN disk[index[p].real]
              ELSE [by |-> p, size |-> 0]
    BY <1>1, <2>1, CopyOnWriteMakesStaged
  <2>3. (InPlace(p, index[p].real) => ~Base(index[p].real))
        /\ (~InPlace(p, index[p].real) => Base(index[p].real))
    BY <2>1, InPlaceSparesBase
  <2>4. QED
    BY <2>1, <2>2, <2>3
<1>3. ASSUME index[p] # Absent, UNCHANGED flushing,
             NEW loc \in Locations, ~Base(loc),
             loc = index[p].real \/ (loc = stage /\ Base(index[p].real)),
             \/ UNCHANGED open_files
             \/ \E h \in Handles : open_files[h] = None /\ OpenHandle(h, p, loc, FALSE, 0),
             NEW table \in Disks, table[loc] = disk[index[p].real],
             ChangesOnly(loc, disk, table),
             NEW n \in 0..MaxSize, disk' = Sized(table, loc, n),
             index'[p] # Absent, index'[p].real = loc,
             \A q \in Paths \ {p} : index'[q] = index[q]
      PROVE  Sound' /\ DirectoryStep /\ Resizing(p, n)
  <2> DEFINE of == [path |-> p, real |-> loc, fd |-> loc, ino |-> p, cow_pending |-> FALSE,
                    metadata_dirty |-> FALSE, virtual_size |-> 0]
  <2>1. of \in OpenFile /\ of.path = p /\ of.ino = p /\ ~of.cow_pending
        /\ of.fd = loc /\ of.real = loc
    BY <1>1 DEF OpenFile
  <2>2. \/ UNCHANGED open_files
        \/ \E h \in Handles : open_files[h] = None /\ open_files' = [open_files EXCEPT ![h] = of]
    BY <1>3 DEF OpenHandle
  <2> HIDE DEF of
  <2>3. Sound' /\ View[p] # Absent /\ View' = [View EXCEPT ![p].size = n]
    BY <1>3, <2>1, <2>2, FileChange
  <2>4. QED
    BY <2>3, DirectorySteps DEF Resizing
<1>4. ASSUME NEW h \in Handles, Create(p, h)
      PROVE  Sound' /\ DirectoryStep /\ View' = [View EXCEPT ![p] = [by |-> p, size |-> 0]]
  <2> DEFINE new == [by |-> p, size |-> 0]
             of  == [path |-> p, real |-> stage, fd |-> stage, ino |-> p, cow_pending |-> FALSE,
                     metadata_dirty |-> FALSE, virtual_size |-> 0]
  <2>1. open_files[h] = None /\ index[p] = Absent /\ UNCHANGED flushing
        /\ disk' = [disk EXCEPT ![stage] = new]
        /\ index' = [index EXCEPT ![p] = [real |-> stage, size |-> 0]]
        /\ open_files' = [open_files EXCEPT ![h] = of]
    BY <1>4 DEF Create, OpenHandle
  <2>2. new \in Content /\ new # Absent /\ of.path = p /\ of.ino = p /\ ~of.cow_pending
        /\ of.fd = stage /\ of.real = stage
    BY <1>1, AbsentAssumption DEF Content
  <2>3. [real |-> stage, size |-> 0] \in Entry /\ [real |-> stage, size |-> 0] # Absent
    BY <1>1, AbsentAssumption DEF Entry
  <2> HIDE DEF new, of
  <2>4. disk'[stage] = new /\ index'[p] # Absent /\ index'[p].real = stage
        /\ \A l \in Locations : l # stage => disk'[l] = disk[l]
    BY <1>1, <2>1, <2>2, <2>3 DEF Disks
  <2>5. ASSUME NEW q \in Paths, q # p
        PROVE  index'[q] = index[q] /\ \A l \in Layers : disk'[<<q, l>>] = disk[<<q, l>>]
    BY <1>1, <2>1, <2>4, <2>5 DEF Locations
  <2>6. PathsSound'
    <3>1. ASSUME NEW q \in Paths
          PROVE  /\ disk'[<<q, "staged">>] # Absent => index'[q] # Absent
                 /\ index'[q] # Absent =>
                      disk'[index'[q].real] # Absent /\ index'[q].real = <<q, TopLayer(q)>>'
      <4>1. CASE q = p
        BY <2>2, <2>4, <4>1 DEF TopLayer
      <4>2. CASE q # p
        BY <2>5, <4>2, PathsSoundElsewhere DEF Sound
      <4>3. QED
        BY <4>1, <4>2
    <3>2. QED
      BY <3>1 DEF PathsSound
  <2>7. HandlesSound'
    <3> SUFFICES ASSUME NEW g \in Live'
                 PROVE  LET o == open_files'[g]
                        IN  /\ index'[o.path] # Absent /\ o.ino = o.path
                            /\ IF o.cow_pending
                                 THEN /\ o.real = <<o.path, "own">> /\ Base(o.real)
                                      /\ ~o.metadata_dirty
                                      /\ index'[o.path].real \in {o.real, <<o.path, "staged">>}
                                 ELSE /\ o.fd = index'[o.path].real /\ o.real = o.fd
                                      /\ ~Base(o.real)
      BY DEF HandlesSound, Base
    <3>1. CASE g = h
      BY <1>1, <2>1, <2>2, <2>4, <3>1 DEF TypeOK
    <3>2. CASE g # h
      <4>1. g \in Live /\ open_files'[g] = open_files[g]
        BY <2>1, <3>2 DEF Live, TypeOK
      <4>2. open_files[g].path \in Paths /\ open_files[g].path # p
        BY <2>1, <4>1, LiveType DEF OpenFile, Sound, HandlesSound
      <4>3. QED
        BY <2>5, <4>1, <4>2 DEF Sound, HandlesSound
    <3>3. QED
      BY <3>1, <3>2
  <2>8. FlushesSound'
    BY <2>1, FlushesKept DEF Sound
  <2>9. View' = [View EXCEPT ![p] = new]
    <3>1. View'[p] = new
      BY <2>4 DEF View
    <3>2. \A q \in Paths \ {p} : View'[q] = View[q]
      BY <2>5, PathsSoundElsewhere DEF Sound
    <3>3. QED
      BY <3>1, <3>2 DEF View
  <2>10. View[p] = Absent
    BY <2>1 DEF View
  <2>11. QED
    BY <2>6, <2>7, <2>8, <2>9, <2>10, DirectorySteps DEF Sound, new
<1>5. ASSUME NEW h \in Handles, NEW truncate \in BOOLEAN, Open(p, h, truncate)
      PROVE  Sound' /\ DirectoryStep
             /\ IF truncate THEN Resizing(p, 0) ELSE UNCHANGED View
  <2> DEFINE real  == index[p].real
             table == CopyOnWrite(disk, real, p)
  <2>1. index[p] \in Entry /\ index[p] # Absent /\ UNCHANGED flushing /\ open_files[h] = None
    BY <1>5, OpenStep, AbsentAssumption DEF Open
  <2>2. \A loc \in Locations : [index EXCEPT ![p] = [real |-> loc, size |-> 0]][p] # Absent
    BY <1>1, AbsentAssumption DEF Entry
  <2>3. CASE ~truncate
    <3> DEFINE cow == ~InPlace(p, real)
               of  == [path |-> p, real |-> real, fd |-> real, ino |-> p, cow_pending |-> cow,
                       metadata_dirty |-> FALSE, virtual_size |-> index[p].size]
    <3>1. UNCHANGED <<disk, index>> /\ open_files' = [open_files EXCEPT ![h] = of]
      <4>1. UNCHANGED disk /\ UNCHANGED index
        BY <1>5, <2>3 DEF Open
      <4>2. OpenHandle(h, p, real, ~InPlace(p, real), index[p].size)
        BY <1>5, <2>3, OpenStep
      <4>3. QED
        BY <4>1, <4>2 DEF OpenHandle
    <3>2. of.path = p /\ of.ino = p /\ of.fd = real /\ of.real = real /\ of.cow_pending = cow
          /\ of.metadata_dirty = FALSE
      OBVIOUS
    <3> HIDE DEF of
    <3>3. cow => real = <<p, "own">> /\ Base(real)
      BY <1>2, <2>1 DEF Base
    <3>4. ~cow => ~Base(real)
      BY <1>2, <2>1
    <3>5. PathsSound' /\ UNCHANGED View
      BY <3>1 DEF Sound, PathsSound, TopLayer, View
    <3>6. HandlesSound'
      <4> HIDE DEF cow
      <4>1. QED
        BY <2>1, <3>1, <3>2, <3>3, <3>4 DEF Sound, HandlesSound, Live, TypeOK, Base
    <3>7. FlushesSound'
      BY <2>1, <3>1, FlushesKept DEF Sound
    <3>8. QED
      BY <2>3, <3>5, <3>6, <3>7 DEF Sound, DirectoryStep
  <2>4. CASE truncate /\ InPlace(p, real)
    <3>1. disk' = Sized(disk, real, 0)
          /\ index' = [index EXCEPT ![p] = [real |-> real, size |-> 0]]
          /\ OpenHandle(h, p, real, FALSE, 0)
      <4>1. disk' = Sized(disk, real, 0)
        BY ZenonT(60), <1>5, <2>4, OpenStep
      <4>2. index' = [index EXCEPT ![p] = [real |-> real, size |-> 0]]
        BY <1>5, <2>4 DEF Open
      <4>3. OpenHandle(h, p, real, FALSE, 0)
        BY <1>5, <2>4, OpenStep
      <4>4. QED
        BY <4>1, <4>2, <4>3
    <3>2. real \in Locations /\ ~Base(real) /\ ChangesOnly(real, disk, disk)
      BY <1>2, <2>1, <2>4 DEF ChangesOnly
    <3>3. index'[p] # Absent /\ index'[p].real = real
          /\ \A q \in Paths \ {p} : index'[q] = index[q]
      BY <1>1, <2>2, <3>1, <3>2
    <3> HIDE DEF real
    <3>4. QED
      BY <1>1, <1>3, <2>1, <2>4, <3>1, <3>2, <3>3 DEF real
  <2>5. CASE truncate /\ ~InPlace(p, real)
    <3>1. disk' = Sized(table, stage, 0)
          /\ index' = [index EXCEPT ![p] = [real |-> stage, size |-> 0]]
          /\ OpenHandle(h, p, stage, FALSE, 0)
      <4>1. disk' = Sized(table, stage, 0)
        BY ZenonT(60), <1>5, <2>5, OpenStep
      <4>2. index' = [index EXCEPT ![p] = [real |-> stage, size |-> 0]]
        BY <1>5, <2>5 DEF Open
      <4>3. OpenHandle(h, p, stage, FALSE, 0)
        BY <1>5, <2>5, OpenStep
      <4>4. QED
        BY <4>1, <4>2, <4>3
    <3>2. Base(real) /\ table \in Disks /\ ChangesOnly(stage, disk, table)
          /\ table[stage] = disk[real]
      BY <1>2, <2>1, <2>5
    <3>3. index'[p] # Absent /\ index'[p].real = stage
          /\ \A q \in Paths \ {p} : index'[q] = index[q]
      BY <1>1, <2>2, <3>1
    <3> HIDE DEF table, stage
    <3>4. QED
      BY <1>1, <1>3, <2>1, <2>5, <3>1, <3>2, <3>3
  <2>6. QED
    BY <2>3, <2>4, <2>5
<1>6. ASSUME NEW n \in 0..MaxSize, ResizePath(p, n)
      PROVE  Sound' /\ DirectoryStep /\ Resizing(p, n)
  <2> DEFINE real  == index[p].real
             table == CopyOnWrite(disk, real, p)
  <2>1. index[p] # Absent /\ UNCHANGED <<open_files, flushing>> /\ disk' \in Disks
    BY <1>6, ResizePathStep DEF ResizePath, TypeOK, Disks
  <2>2. \A loc \in Locations :
           /\ Indexed(p, loc, disk')[p] # Absent /\ Indexed(p, loc, disk')[p].real = loc
           /\ \A q \in Paths : q # p => Indexed(p, loc, disk')[q] = index[q]
    BY <1>1, <2>1, IndexedType
  <2>3. CASE InPlace(p, real)
    <3>1. disk' = Sized(disk, real, n) /\ index' = Indexed(p, real, disk')
      BY <1>6, <2>3, ResizePathStep
    <3>2. real \in Locations /\ ~Base(real) /\ ChangesOnly(real, disk, disk)
      BY <1>2, <2>1, <2>3 DEF ChangesOnly
    <3>3. index'[p] # Absent /\ index'[p].real = real
          /\ \A q \in Paths \ {p} : index'[q] = index[q]
      BY <2>2, <3>1, <3>2
    <3>4. QED
      BY <1>1, <1>3, <2>1, <3>1, <3>2, <3>3
  <2>4. CASE ~InPlace(p, real)
    <3>1. disk' = Sized(table, stage, n) /\ index' = Indexed(p, stage, disk')
      BY <1>6, <2>4, ResizePathStep
    <3>2. Base(real) /\ table \in Disks /\ ChangesOnly(stage, disk, table)
          /\ table[stage] = disk[real]
      BY <1>2, <2>1, <2>4
    <3>3. index'[p] # Absent /\ index'[p].real = stage
          /\ \A q \in Paths \ {p} : index'[q] = index[q]
      BY <1>1, <2>2, <3>1
    <3> HIDE DEF table, stage
    <3>4. QED
      BY <1>1, <1>3, <2>1, <3>1, <3>2, <3>3
  <2>5. QED
    BY <2>3, <2>4
<1>7. QED
  BY <1>4, <1>5, <1>6

\* Flushing and releasing: what is published names the file that the index has.
LEMMA SoundFlushing ==
  ASSUME TypeOK, TypeOK', Sound,
         \/ \E w \in Workers : Publishes(w) \/ \E h \in Handles, c \in BOOLEAN : FlushBegins(w, h, c)
         \/ \E h \in Handles : Release(h)
  PROVE  Sound' /\ DirectoryStep /\ UNCHANGED View
<1>1. ASSUME NEW w \in Workers, NEW h \in Handles, NEW closing \in BOOLEAN,
             FlushBegins(w, h, closing)
      PROVE  Sound' /\ DirectoryStep /\ UNCHANGED View
  <2> DEFINE of    == open_files[h]
             clean == [of EXCEPT !.metadata_dirty = FALSE]
             flush == [h |-> h, path |-> of.path, real |-> of.real,
                       size |-> of.virtual_size, closing |-> closing]
  <2>1. h \in Live /\ of \in OpenFile /\ of.metadata_dirty /\ ~Closing(h)
        /\ UNCHANGED <<disk, index>>
        /\ open_files' = [open_files EXCEPT ![h] = clean]
    BY <1>1, LiveType DEF FlushBegins, Usable
  <2>2. flushing' = [flushing EXCEPT ![w] = flush] /\ flushing[w] = None
    BY <1>1 DEF FlushBegins
  <2>3. of.path \in Paths /\ ~of.cow_pending
    BY <2>1 DEF OpenFile, Sound, HandlesSound
  <2>4. closing => \A v \in Workers : flushing[v] # None => flushing[v].h # h
    <3>1. ASSUME NEW v \in Workers, flushing[v] # None, flushing[v].h = h
          PROVE  flushing[v].path = of.path
      BY <3>1 DEF Sound, FlushesSound
    <3>2. QED
      BY <1>1, <3>1 DEF FlushBegins
  <2>5. clean.path = of.path /\ clean.ino = of.ino /\ clean.fd = of.fd /\ clean.real = of.real
        /\ clean.cow_pending = of.cow_pending /\ clean.metadata_dirty = FALSE
        /\ clean \in OpenFile
    BY <2>1 DEF OpenFile
  <2>6. flush.h = h /\ flush.path = of.path /\ flush.real = of.real /\ flush.closing = closing
        /\ flush # None
    BY AbsentAssumption, <2>1 DEF OpenFile, Flush
  <2> HIDE DEF clean, flush
  <2>7. PathsSound' /\ UNCHANGED View
    BY <2>1 DEF Sound, PathsSound, TopLayer, View
  <2>8. HandlesSound'
    BY <2>1, <2>5 DEF Sound, HandlesSound, Live, TypeOK, Base
  <2>9. \A g \in Handles : /\ g # h => open_files'[g] = open_files[g]
                           /\ open_files'[h] = clean
    BY <2>1 DEF TypeOK
  <2>10. \A v \in Workers : flushing'[v] = IF v = w THEN flush ELSE flushing[v]
    BY <2>2 DEF TypeOK
  <2>11. FlushesSound'
    <3> SUFFICES ASSUME NEW v \in Workers, flushing'[v] # None
                 PROVE  LET f == flushing'[v]
                        IN  /\ f.h \in Live' /\ open_files'[f.h].path = f.path
                            /\ ~open_files'[f.h].cow_pending /\ f.real = open_files'[f.h].real
                            /\ f.closing => \A u \in Workers \ {v} :
                                              flushing'[u] # None => flushing'[u].h # f.h
      BY DEF FlushesSound
    <3>1. h \in Live'
      BY <2>5, <2>9, AbsentAssumption DEF Live
    <3>2. CASE v = w
      BY <2>3, <2>4, <2>5, <2>6, <2>9, <2>10, <3>1, <3>2
    <3>3. CASE v # w
      <4>1. flushing'[v] = flushing[v] /\ flushing[v] # None
        BY <2>10, <3>3
      <4>2. /\ flushing[v].h \in Live /\ open_files[flushing[v].h].path = flushing[v].path
            /\ ~open_files[flushing[v].h].cow_pending
            /\ flushing[v].real = open_files[flushing[v].h].real
        BY <4>1 DEF Sound, FlushesSound
      <4>3. flushing[v].closing => flushing[v].h # h
        BY <2>1, <4>1 DEF Closing
      <4>4. flushing[v].closing =>
              \A u \in Workers \ {v} : flushing'[u] # None => flushing'[u].h # flushing[v].h
        BY <2>6, <2>10, <4>1, <4>3 DEF Sound, FlushesSound
      <4>5. flushing[v].h \in Live' /\ \/ open_files'[flushing[v].h] = open_files[flushing[v].h]
                                       \/ flushing[v].h = h
        BY <2>9, <3>1, <4>2 DEF Live
      <4>6. QED
        BY <2>5, <2>9, <4>1, <4>2, <4>4, <4>5
    <3>4. QED
      BY <3>2, <3>3
  <2>12. QED
    BY <2>7, <2>8, <2>11 DEF Sound, DirectoryStep
<1>2. ASSUME NEW w \in Workers, Publishes(w)
      PROVE  Sound' /\ DirectoryStep /\ UNCHANGED View
  <2> DEFINE f     == flushing[w]
             h     == f.h
             entry == [real |-> f.real, size |-> f.size]
  <2>1. f \in Flush /\ f # None /\ h \in Live /\ open_files[h].path = f.path
        /\ ~open_files[h].cow_pending /\ f.real = open_files[h].real
        /\ (f.closing => \A v \in Workers \ {w} : flushing[v] # None => flushing[v].h # h)
    BY <1>2 DEF Publishes, TypeOK, Sound, FlushesSound
  <2>2. f.path \in Paths /\ h \in Handles /\ entry \in Entry /\ f.closing \in BOOLEAN
    BY <2>1 DEF Flush, Entry
  <2>3. index[f.path] # Absent /\ f.real = index[f.path].real
    BY <2>1 DEF Sound, HandlesSound
  <2>4. index' = [index EXCEPT ![f.path] = entry] /\ UNCHANGED disk
        /\ flushing' = [flushing EXCEPT ![w] = None]
        /\ open_files' = IF f.closing THEN [open_files EXCEPT ![h] = None] ELSE open_files
    BY <1>2 DEF Publishes
  <2>5. entry # Absent /\ entry.real = f.real
    BY <2>2, AbsentAssumption
  <2> HIDE DEF entry
  <2>6. \A q \in Paths : /\ index'[q] = Absent <=> index[q] = Absent
                         /\ index[q] # Absent => index'[q].real = index[q].real
    BY <2>2, <2>3, <2>4, <2>5 DEF TypeOK
  <2>7. PathsSound' /\ UNCHANGED View
    BY <2>4, <2>6 DEF Sound, PathsSound, TopLayer, View
  <2>8. ASSUME NEW g \in Live'
        PROVE  g \in Live /\ open_files'[g] = open_files[g]
    BY <2>4, <2>8 DEF Live, TypeOK
  <2>9. HandlesSound'
    <3>1. \A g \in Live : open_files[g].path \in Paths
      BY LiveType DEF OpenFile
    <3>2. QED
      BY <2>6, <2>8, <3>1 DEF Sound, HandlesSound, Base
  <2>10. FlushesSound'
    <3> SUFFICES ASSUME NEW v \in Workers, flushing'[v] # None
                 PROVE  LET e == flushing'[v]
                        IN  /\ e.h \in Live' /\ open_files'[e.h].path = e.path
                            /\ ~open_files'[e.h].cow_pending /\ e.real = open_files'[e.h].real
                            /\ e.closing => \A u \in Workers \ {v} :
                                              flushing'[u] # None => flushing'[u].h # e.h
      BY DEF FlushesSound
    <3>1. v # w /\ flushing'[v] = flushing[v] /\ flushing[v] # None
      BY <2>4 DEF TypeOK
    <3>2. \A u \in Workers : flushing'[u] # None => flushing'[u] = flushing[u]
      BY <2>4 DEF TypeOK
    <3>3. f.closing => flushing[v].h # h
      BY <2>1, <3>1
    <3>4. flushing[v].h \in Live' /\ open_files'[flushing[v].h] = open_files[flushing[v].h]
      BY <2>2, <2>4, <3>1, <3>3 DEF Live, TypeOK, Sound, FlushesSound
    <3>5. QED
      BY <3>1, <3>2, <3>4 DEF Sound, FlushesSound
  <2>11. QED
    BY <2>7, <2>9, <2>10 DEF Sound, DirectoryStep
<1>3. ASSUME NEW h \in Handles, Release(h)
      PROVE  Sound' /\ DirectoryStep /\ UNCHANGED View
  <2>1. UNCHANGED <<disk, index, flushing>> /\ open_files' = [open_files EXCEPT ![h] = None]
        /\ \A w \in Workers : flushing[w] # None => flushing[w].h # h
    BY <1>3 DEF Release
  <2>2. PathsSound' /\ UNCHANGED View
    BY <2>1 DEF Sound, PathsSound, TopLayer, View
  <2>3. HandlesSound'
    BY <2>1 DEF Sound, HandlesSound, Live, TypeOK, Base
  <2>4. FlushesSound'
    BY <2>1, FlushesKept DEF Sound
  <2>5. QED
    BY <2>2, <2>3, <2>4 DEF Sound, DirectoryStep
<1>4. QED
  BY <1>1, <1>2, <1>3

\* Programs that do not share files have none open that they unlink or rename.
LEMMA NotShared ==
  ASSUME TypeOK, Sound, NEW p \in Paths, Writers(p) = {}
  PROVE  /\ \A h \in Live : open_files[h].path # p /\ open_files[h].ino # p
         /\ \A w \in Workers : flushing[w] # None => flushing[w].path # p
<1>1. \A h \in Live : open_files[h].path # p /\ open_files[h].ino # p
  BY DEF Writers
<1>2. QED
  BY <1>1 DEF Sound, FlushesSound

\* Names that are not open change: handles and flushes keep theirs.
LEMMA OthersKept ==
  ASSUME TypeOK, Sound, UNCHANGED flushing, Live' = Live,
         \A h \in Live :
            /\ index'[open_files[h].path] = index[open_files[h].path]
            /\ open_files'[h].path = open_files[h].path
            /\ open_files'[h].ino = open_files[h].ino
            /\ open_files'[h].real = open_files[h].real
            /\ open_files'[h].cow_pending = open_files[h].cow_pending
            /\ open_files'[h].metadata_dirty = open_files[h].metadata_dirty
            /\ ~open_files[h].cow_pending => open_files'[h].fd = open_files[h].fd
  PROVE  HandlesSound' /\ FlushesSound'
<1>1. HandlesSound'
  BY DEF Sound, HandlesSound, Base
<1>2. FlushesSound'
  BY DEF Sound, FlushesSound
<1>3. QED
  BY <1>1, <1>2

\* Unlinking.
LEMMA SoundUnlink ==
  ASSUME TypeOK, TypeOK', Sound, Sharing = {}, NEW p \in Paths, Unlink(p)
  PROVE  Sound' /\ DirectoryStep /\ View' = [View EXCEPT ![p] = Absent]
<1>1. Writers(p) = {} /\ index[p] # Absent /\ UNCHANGED flushing
      /\ index' = [index EXCEPT ![p] = Absent]
  BY DEF Unlink
<1>2. ASSUME NEW h \in Live
      PROVE  open_files[h].path \in Paths \ {p} /\ open_files[h] \in OpenFile /\ h \in Handles
  BY <1>1, NotShared, LiveType DEF OpenFile
<1>3. index'[p] = Absent /\ \A q \in Paths \ {p} : index'[q] = index[q]
  BY <1>1 DEF TypeOK
<1>4. \A q \in Paths \ {p}, l \in Layers : disk'[<<q, l>>] = disk[<<q, l>>]
  BY FoundInExists DEF Unlink, TypeOK, Locations
<1>5. disk'[<<p, "staged">>] = Absent
  <2>1. <<p, "staged">> \in Locations
    BY DEF Locations, Layers
  <2>2. CASE WrittenLayers(p) = {}
    BY <2>2 DEF WrittenLayers, Unlink
  <2>3. CASE WrittenLayers(p) # {}
    <3>1. disk' = [disk EXCEPT ![<<p, FoundIn(p)>>] = Absent]
      BY <2>3 DEF Unlink
    <3>2. CASE FoundIn(p) = "staged"
      BY <2>1, <3>1, <3>2 DEF TypeOK
    <3>3. CASE FoundIn(p) # "staged"
      BY <2>1, <3>1, <3>3 DEF TypeOK, FoundIn, WrittenLayers
    <3>4. QED
      BY <3>2, <3>3
  <2>4. QED
    BY <2>2, <2>3
<1>6. PathsSound'
  <2>1. ASSUME NEW q \in Paths
        PROVE  /\ disk'[<<q, "staged">>] # Absent => index'[q] # Absent
               /\ index'[q] # Absent =>
                    disk'[index'[q].real] # Absent /\ index'[q].real = <<q, TopLayer(q)>>'
    <3>1. CASE q = p
      BY <1>3, <1>5, <3>1
    <3>2. CASE q # p
      BY <1>3, <1>4, <3>2, PathsSoundElsewhere DEF Sound
    <3>3. QED
      BY <3>1, <3>2
  <2>2. QED
    BY <2>1 DEF PathsSound
<1>7. ASSUME NEW h \in Live
      PROVE  /\ h \in Live'
             /\ open_files'[h].path = open_files[h].path
             /\ open_files'[h].ino = open_files[h].ino
             /\ open_files'[h].real = open_files[h].real
             /\ open_files'[h].cow_pending = open_files[h].cow_pending
             /\ open_files'[h].metadata_dirty = open_files[h].metadata_dirty
             /\ ~open_files[h].cow_pending => open_files'[h].fd = open_files[h].fd
  <2> DEFINE of == open_files[h]
             loc == <<p, FoundIn(p)>>
  <2>1. open_files'[h] = of \/ (of.fd = loc /\ open_files'[h] = [of EXCEPT !.fd = None])
    BY <1>2 DEF Unlink
  <2>2. ~of.cow_pending => of.fd # loc
    <3>1. ASSUME ~of.cow_pending
          PROVE  of.fd # loc
      <4>1. of.fd = index[of.path].real /\ index[of.path] # Absent
        BY <3>1 DEF Sound, HandlesSound
      <4>2. index[of.path].real = <<of.path, TopLayer(of.path)>> /\ of.path # p
        BY <1>2, <4>1 DEF Sound, PathsSound
      <4>3. QED
        BY <4>1, <4>2
    <3>2. QED
      BY <3>1
  <2>3. of \in OpenFile /\ h \in Handles
    BY <1>2
  <2>4. open_files'[h] # None
    BY <2>1, <2>3, AbsentAssumption DEF TypeOK, OpenFile, Live
  <2>5. QED
    BY <2>1, <2>2, <2>3, <2>4 DEF OpenFile, Live
<1>8. Live' = Live
  <2>1. \A h \in Handles : h \notin Live => open_files'[h] = None
    BY DEF Unlink, Live
  <2>2. QED
    BY <1>7, <2>1 DEF Live
<1>9. HandlesSound' /\ FlushesSound'
  BY <1>1, <1>2, <1>3, <1>7, <1>8, OthersKept
<1>10. View' = [View EXCEPT ![p] = Absent]
  <2>1. View'[p] = Absent
    BY <1>3 DEF View
  <2>2. \A q \in Paths \ {p} : View'[q] = View[q]
    BY <1>3, <1>4, PathsSoundElsewhere DEF Sound
  <2>3. QED
    BY ZenonT(60), <2>1, <2>2 DEF View
<1>11. QED
  BY <1>6, <1>9, <1>10, DirectorySteps DEF Sound

\* Renaming.
LEMMA SoundRename ==
  ASSUME TypeOK, TypeOK', Sound, Sharing = {}, NEW p \in Paths, NEW q \in Paths, Rename(p, q)
  PROVE  /\ Sound' /\ DirectoryStep
         /\ View'[q] = View[p] /\ View'[p] = Absent
         /\ \A r \in Paths \ {p, q} : View'[r] = View[r]
<1> DEFINE moves == WrittenLayers(p) # {}
           from  == <<p, FoundIn(p)>>
           to    == <<q, FoundIn(p)>>
           new   == IF disk'[<<q, "staged">>] # Absent THEN <<q, "staged">>
                                                      ELSE <<q, "overwrite">>
<1>1. p # q /\ Writers(p) = {} /\ Writers(q) = {} /\ index[p] # Absent /\ UNCHANGED flushing
      /\ index' = [index EXCEPT ![p] = Absent,
                                ![q] = [real |-> new, size |-> index[p].size]]
  BY DEF Rename, Renamed
<1>2. disk[<<q, "staged">>] # Absent => "staged" \in WrittenLayers(p)
  BY DEF Rename
<1>3. ASSUME NEW h \in Live
      PROVE  open_files[h].path \in Paths \ {p, q} /\ open_files[h] \in OpenFile /\ h \in Handles
             /\ open_files[h].ino \notin {p, q}
  BY <1>1, NotShared, LiveType DEF OpenFile
<1>4. index[p] \in Entry /\ disk[index[p].real] # Absent /\ index[p].real = <<p, TopLayer(p)>>
      /\ index[p].real \in Locations /\ disk \in Disks
  BY <1>1 DEF TypeOK, Sound, PathsSound, Entry, Disks
<1>5. <<p, "staged">> \in Locations /\ <<q, "staged">> \in Locations
      /\ <<p, "overwrite">> \in Locations /\ <<q, "overwrite">> \in Locations
  BY DEF Locations, Layers
<1>6. /\ index'[p] = Absent /\ index'[q] # Absent /\ index'[q].real = new
      /\ \A r \in Paths \ {p, q} : index'[r] = index[r]
  <2>1. [real |-> new, size |-> index[p].size] \in Entry
    BY <1>4, <1>5 DEF Entry
  <2>2. [real |-> new, size |-> index[p].size].real = new
    OBVIOUS
  <2> HIDE DEF new
  <2>3. QED
    BY <1>1, <2>1, <2>2, AbsentAssumption DEF TypeOK
<1>7. /\ disk'[<<p, "staged">>] = Absent /\ disk'[new] = disk[index[p].real]
      /\ disk'[<<q, "staged">>] = Absent => disk'[<<q, "overwrite">>] # Absent
      /\ \A r \in Paths \ {p, q}, l \in Layers : disk'[<<r, l>>] = disk[<<r, l>>]
  <2>1. CASE moves
    <3>1. disk' = [disk EXCEPT ![to] = disk[from], ![from] = Absent]
      BY <2>1 DEF Rename
    <3>2. FoundIn(p) \in {"staged", "overwrite"} /\ from = index[p].real
      BY <1>4, <2>1 DEF FoundIn, WrittenLayers, TopLayer
    <3>3. FoundIn(p) = "overwrite" =>
             disk[<<p, "staged">>] = Absent /\ disk[<<q, "staged">>] = Absent
      BY <1>2 DEF FoundIn, WrittenLayers
    <3>4. \A loc \in Locations : disk'[loc] = IF loc = from THEN Absent
                                              ELSE IF loc = to THEN disk[from] ELSE disk[loc]
      BY <1>1, <1>4, <1>5, <3>1, <3>2 DEF Disks
    <3>5. CASE FoundIn(p) = "staged"
      <4>1. disk'[<<p, "staged">>] = Absent /\ disk'[<<q, "staged">>] = disk[from]
        BY <1>1, <1>5, <3>4, <3>5
      <4>2. \A r \in Paths \ {p, q}, l \in Layers : disk'[<<r, l>>] = disk[<<r, l>>]
        BY <3>4, <3>5 DEF Locations
      <4>3. QED
        BY <1>4, <3>2, <4>1, <4>2
    <3>6. CASE FoundIn(p) = "overwrite"
      <4>1. disk'[<<p, "staged">>] = Absent /\ disk'[<<q, "staged">>] = Absent
            /\ disk'[<<q, "overwrite">>] = disk[from]
        BY <1>1, <1>5, <3>3, <3>4, <3>6
      <4>2. \A r \in Paths \ {p, q}, l \in Layers : disk'[<<r, l>>] = disk[<<r, l>>]
        BY <3>4, <3>6 DEF Locations
      <4>3. QED
        BY <1>4, <3>2, <4>1, <4>2
    <3>7. QED
      BY <3>2, <3>5, <3>6
  <2>2. CASE ~moves
    <3>1. disk' = CopyOnWrite(disk, index[p].real, q)
      BY <2>2 DEF Rename
    <3>2. disk[<<p, "staged">>] = Absent /\ disk[<<q, "staged">>] = Absent
      BY <1>2, <2>2 DEF WrittenLayers
    <3>3. /\ CopyOnWrite(disk, index[p].real, q)[<<q, "staged">>] =
                IF disk[<<q, "staged">>] # Absent THEN disk[<<q, "staged">>]
                ELSE IF disk[index[p].real] # Absent THEN disk[index[p].real]
                ELSE [by |-> q, size |-> 0]
          /\ ChangesOnly(<<q, "staged">>, disk, CopyOnWrite(disk, index[p].real, q))
      BY <1>4, CopyOnWriteMakesStaged
    <3>4. disk'[<<q, "staged">>] = disk[index[p].real]
          /\ \A loc \in Locations : loc # <<q, "staged">> => disk'[loc] = disk[loc]
      BY <1>4, <3>1, <3>2, <3>3 DEF ChangesOnly
    <3>5. \A r \in Paths \ {p, q}, l \in Layers : disk'[<<r, l>>] = disk[<<r, l>>]
      BY <3>4 DEF Locations
    <3>6. QED
      BY <1>1, <1>4, <1>5, <3>2, <3>4, <3>5
  <2>3. QED
    BY <2>1, <2>2
<1> HIDE DEF new
<1>8. PathsSound'
  <2>1. ASSUME NEW r \in Paths
        PROVE  /\ disk'[<<r, "staged">>] # Absent => index'[r] # Absent
               /\ index'[r] # Absent =>
                    disk'[index'[r].real] # Absent /\ index'[r].real = <<r, TopLayer(r)>>'
    <3>1. CASE r = p
      BY <1>6, <1>7, <3>1
    <3>2. CASE r = q
      BY <1>4, <1>6, <1>7, <3>2 DEF TopLayer, new
    <3>3. CASE r \notin {p, q}
      BY <1>6, <1>7, <3>3, PathsSoundElsewhere DEF Sound
    <3>4. QED
      BY <3>1, <3>2, <3>3
  <2>2. QED
    BY <2>1 DEF PathsSound
<1>9. ASSUME NEW h \in Live
      PROVE  /\ h \in Live'
             /\ open_files'[h].path = open_files[h].path
             /\ open_files'[h].ino = open_files[h].ino
             /\ open_files'[h].real = open_files[h].real
             /\ open_files'[h].cow_pending = open_files[h].cow_pending
             /\ open_files'[h].metadata_dirty = open_files[h].metadata_dirty
             /\ ~open_files[h].cow_pending => open_files'[h].fd = open_files[h].fd
  <2> DEFINE of == open_files[h]
             fd == IF moves THEN Moved(of.fd, from, to) ELSE of.fd
  <2>1. of \in OpenFile /\ h \in Handles /\ of.ino \notin {p, q}
    BY <1>3
  <2>2. open_files'[h] = [of EXCEPT !.fd = fd]
    <3>1. open_files'[h] = [of EXCEPT !.fd = fd,
                                      !.ino = IF of.ino = p THEN q
                                              ELSE IF of.ino = q THEN None ELSE of.ino]
      BY <2>1 DEF Rename
    <3>2. (IF of.ino = p THEN q ELSE IF of.ino = q THEN None ELSE of.ino) = of.ino
      BY <2>1
    <3> HIDE DEF fd
    <3>3. QED
      BY <2>1, <3>1, <3>2 DEF OpenFile
  <2>3. ASSUME ~of.cow_pending
        PROVE  fd = of.fd
    <3>1. of.fd = index[of.path].real /\ index[of.path] # Absent
      BY <2>3 DEF Sound, HandlesSound
    <3>2. index[of.path].real = <<of.path, TopLayer(of.path)>> /\ of.path \notin {p, q}
      BY <1>3, <3>1 DEF Sound, PathsSound
    <3>3. QED
      BY <3>1, <3>2 DEF Moved
  <2> HIDE DEF fd
  <2>4. open_files'[h] # None
    <3>1. open_files' \in [Handles -> OpenFile \cup {None}]
      BY DEF TypeOK
    <3>2. open_files'[h] = [path |-> of.path, real |-> of.real, fd |-> fd, ino |-> of.ino,
             cow_pending |-> of.cow_pending, metadata_dirty |-> of.metadata_dirty,
             virtual_size |-> of.virtual_size]
      BY <2>1, <2>2 DEF OpenFile
    <3>3. fd \in Locations \cup {None}
      BY <1>5, <2>1, FoundInExists DEF fd, Moved, OpenFile
    <3>4. open_files'[h] \in OpenFile
      BY <2>1, <3>2, <3>3 DEF OpenFile
    <3>5. QED
      BY <3>4, AbsentAssumption
  <2>5. QED
    BY <2>1, <2>2, <2>3, <2>4 DEF OpenFile, Live
<1>10. Live' = Live
  <2>1. \A h \in Handles : h \notin Live => open_files'[h] = None
    BY DEF Rename
  <2>2. QED
    BY <1>9, <2>1 DEF Live
<1>11. HandlesSound' /\ FlushesSound'
  BY <1>1, <1>3, <1>6, <1>9, <1>10, OthersKept
<1>12. /\ View[p] # Absent /\ View' = [View EXCEPT ![q] = View[p], ![p] = Absent]
       /\ View'[q] = View[p] /\ View'[p] = Absent
       /\ \A r \in Paths \ {p, q} : View'[r] = View[r]
  <2>1. View[p] = disk[index[p].real] /\ View'[p] = Absent /\ View'[q] = disk'[new]
    BY <1>1, <1>6 DEF View
  <2>2. \A r \in Paths \ {p, q} : View'[r] = View[r]
    BY <1>6, <1>7, PathsSoundElsewhere DEF Sound
  <2>3. View[p] # Absent /\ View'[q] = View[p]
    BY <1>4, <1>7, <2>1
  <2>4. View' = [View EXCEPT ![q] = View[p], ![p] = Absent]
    <3> DEFINE moved == [View EXCEPT ![q] = View[p], ![p] = Absent]
    <3>1. moved = [r \in Paths |-> IF r = p THEN Absent ELSE IF r = q THEN View[p] ELSE View[r]]
      BY <1>1 DEF View
    <3>2. View' = [r \in Paths |-> View'[r]]
      BY DEF View
    <3>3. \A r \in Paths : View'[r] = moved[r]
      BY <2>1, <2>2, <2>3, <3>1
    <3>4. moved = [r \in Paths |-> moved[r]]
      BY <3>1
    <3> HIDE DEF moved
    <3>5. View' = moved
      BY <3>2, <3>3, <3>4
    <3>6. QED
      BY <3>5 DEF moved
  <2>5. QED
    BY <2>1, <2>2, <2>3, <2>4
<1>13. QED
  BY <1>1, <1>8, <1>11, <1>12, DirectorySteps DEF Sound

\* A session starts with what is installed, and what is in the overwrite directory first.
LEMMA SoundInit == Init => Sound /\ Directory!Init
<1> SUFFICES ASSUME Init PROVE Sound /\ Directory!Init
  OBVIOUS
<1>1. TypeOK
  BY TypeInductive
<1>2. Live = {}
  BY DEF Init, Live
<1>3. HandlesSound /\ FlushesSound
  BY <1>2 DEF Init, HandlesSound, FlushesSound
<1>4. PathsSound
  <2> SUFFICES ASSUME NEW p \in Paths
               PROVE  /\ disk[<<p, "staged">>] = Absent
                      /\ index[p] # Absent => disk[index[p].real] # Absent
                                              /\ index[p].real = <<p, TopLayer(p)>>
    BY DEF PathsSound
  <2>1. \A l \in Layers : <<p, l>> \in Locations
    BY DEF Locations
  <2>2. \A l \in Layers : disk[<<p, l>>] # Absent <=> <<p, l>> \in Installed
    <3>1. [by |-> p, size |-> MaxSize] # Absent
      BY AbsentAssumption, VirtualFilesAssumption DEF Content
    <3>2. QED
      BY <2>1, <3>1 DEF Init
  <2>3. disk[<<p, "staged">>] = Absent
    BY <2>2, VirtualFilesAssumption DEF Layers
  <2>4. CASE <<p, "overwrite">> \in Installed
    BY <2>2, <2>3, <2>4 DEF Init, TopLayer, Layers
  <2>5. CASE <<p, "overwrite">> \notin Installed
    BY <2>2, <2>3, <2>5 DEF Init, TopLayer, Layers
  <2>6. QED
    BY <2>3, <2>4, <2>5
<1>5. Directory!Init
  BY <1>1 DEF Directory!Init, Directory!Content, View, TypeOK, Content, Entry
<1>6. QED
  BY <1>3, <1>4, <1>5 DEF Sound

\* Without shared files the index, the handles and the flushes stay sound, and each step
\* is one of the directory's for programs.
LEMMA SoundInductive ==
  ASSUME Sharing = {}
  PROVE  TypeOK /\ TypeOK' /\ Sound /\ [Next]_vars => Sound' /\ DirectoryStep
<1> SUFFICES ASSUME TypeOK, TypeOK', Sound, [Next]_vars PROVE Sound' /\ DirectoryStep
  OBVIOUS
<1>1. CASE Next
  BY <1>1, SoundOpening, SoundWriting, SoundFlushing, SoundUnlink, SoundRename DEF Next
<1>2. CASE UNCHANGED vars
  <2>1. UNCHANGED View
    BY <1>2 DEF vars, View
  <2>2. QED
    BY <1>2, <2>1 DEF vars, Sound, PathsSound, HandlesSound, FlushesSound, TopLayer, Live, Base,
                      DirectoryStep
<1>3. QED
  BY <1>1, <1>2

\* While no file is renamed over, renamed or unlinked that somebody writes to, all who write
\* a path write the file that the index names for it, and that is the staged one if any.
THEOREM WritersAgree ==
  ASSUME Sharing = {}
  PROVE  Spec => []WritersShareFile
<1>1. TypeOK /\ Sound => WritersShareFile
  BY DEF Sound, HandlesSound, PathsSound, TopLayer, WritersShareFile
<1>2. QED
  BY <1>1, TypeInductive, SoundInit, SoundInductive, PTL DEF Spec

\* Under the same condition the files and the index implement the directory of the session.
THEOREM FilesAreDirectory ==
  ASSUME Sharing = {}
  PROVE  Spec => ImplementsDirectory
<1>1. TypeOK /\ TypeOK' /\ Sound /\ [Next]_vars => [Directory!Next]_View
  BY SoundInductive DEF DirectoryStep
<1>2. QED
  BY <1>1, TypeInductive, SoundInit, SoundInductive, PTL
     DEF Spec, ImplementsDirectory, Directory!Spec

\* And a renamed file is found at its new name and no longer at the old one.
THEOREM RenamedFileMoves ==
  ASSUME Sharing = {}
  PROVE  Spec => RenameMovesFile
<1>1. TypeOK /\ TypeOK' /\ Sound /\ [Next]_vars =>
        [\A p, q \in Paths : Rename(p, q) => View'[q] = View[p] /\ View'[p] = Absent]_vars
  BY SoundRename
<1>2. QED
  BY <1>1, TypeInductive, SoundInit, SoundInductive, PTL DEF Spec, RenameMovesFile
-----------------------------------------------------------------------------
(* The sizes, when programs share no files.                                 *)

\* The size of what is visible at a path.
FileSize(p) == View[p].size

\* The handles that are open on a path.
HandlesOf(p) == {h \in Live : open_files[h].path = p}

\* The flushes that are under way for a path.
FlushesOf(p) == {w \in Workers : flushing[w] # None /\ flushing[w].path = p}

\* What is known of the size of a path whose writers and flushes have never overlapped:
\* its one handle knows it, a flush publishes it unless it was written to since, and the
\* index has it when nothing is dirty or about to be published.
SizeSound(p) ==
    index[p] # Absent =>
        /\ \A h, g \in HandlesOf(p) : h = g
        /\ \A h \in HandlesOf(p) : open_files[h].virtual_size = FileSize(p)
        /\ \A w \in FlushesOf(p) : ~open_files[flushing[w].h].metadata_dirty =>
              flushing[w].size = FileSize(p)
        /\ (\A h \in HandlesOf(p) : ~open_files[h].metadata_dirty) /\ FlushesOf(p) = {} =>
              index[p].size = FileSize(p)

\* Nothing is written through a handle that is being released.
ClosingIsClean ==
    \A w \in Workers : flushing[w] # None /\ flushing[w].closing =>
        ~open_files[flushing[w].h].metadata_dirty

\* What is known of every path that no writers have shared.
SizesSound == ClosingIsClean /\ \A p \in Paths \ overlapped : SizeSound(p)

\* Handles and flushes of another path change, and what they know of this one does not.
LEMMA SizeElsewhere ==
  ASSUME TypeOK, Sound, NEW q \in Paths, SizeSound(q),
         index'[q] = index[q], View'[q] = View[q],
         \A h \in Handles :
            \/ /\ h \in Live /\ h \in Live' /\ open_files'[h].path = open_files[h].path
               /\ open_files'[h].virtual_size = open_files[h].virtual_size
               /\ open_files'[h].metadata_dirty = open_files[h].metadata_dirty
            \/ h \notin HandlesOf(q) /\ h \notin HandlesOf(q)',
         \A w \in Workers : \/ flushing'[w] = flushing[w]
                            \/ w \notin FlushesOf(q) /\ w \notin FlushesOf(q)'
  PROVE  SizeSound(q)'
<1>1. HandlesOf(q)' = HandlesOf(q)
  BY DEF HandlesOf, Live
<1>2. FlushesOf(q)' = FlushesOf(q) /\ \A w \in FlushesOf(q) : flushing'[w] = flushing[w]
  BY DEF FlushesOf
<1>3. \A w \in FlushesOf(q) : flushing[w].h \in HandlesOf(q)
  BY DEF Sound, FlushesSound, FlushesOf, HandlesOf
<1>4. \A h \in HandlesOf(q) :
         /\ open_files'[h].virtual_size = open_files[h].virtual_size
         /\ open_files'[h].metadata_dirty = open_files[h].metadata_dirty
  BY DEF HandlesOf, Live
<1>5. QED
  BY <1>1, <1>2, <1>3, <1>4 DEF SizeSound, FileSize

\* What programs find is a file or nothing, and a resized file has its new size.
LEMMA ViewType ==
  ASSUME TypeOK
  PROVE  /\ View \in [Paths -> Content \cup {Absent}]
         /\ \A p \in Paths, n \in 0..MaxSize : Resizing(p, n) =>
              View'[p].size = n /\ \A q \in Paths \ {p} : View'[q] = View[q]
<1>1. View \in [Paths -> Content \cup {Absent}]
  BY DEF TypeOK, View, Entry
<1>2. ASSUME NEW p \in Paths, NEW n \in 0..MaxSize, Resizing(p, n)
      PROVE  View'[p].size = n /\ \A q \in Paths \ {p} : View'[q] = View[q]
  <2>1. View[p] \in Content
    BY <1>1, <1>2 DEF Resizing
  <2>2. View' = [View EXCEPT ![p].size = n]
    BY <1>2 DEF Resizing
  <2>3. View'[p] = [View[p] EXCEPT !.size = n]
    BY <1>1, <2>2
  <2>4. View'[p].size = n
    BY <2>1, <2>3 DEF Content
  <2>5. QED
    BY <1>1, <2>2, <2>4
<1>3. QED
  BY <1>1, <1>2

\* After a write or resize its handle is dirty and knows the size.
LEMMA SizesWriting ==
  ASSUME TypeOK, TypeOK', Sound, SizesSound, NEW h \in Handles, NEW n \in 0..MaxSize,
         Write(h, n) \/ Resize(h, n)
  PROVE  SizesSound'
<1> DEFINE of == open_files[h]
<1>1. h \in Live /\ of \in OpenFile /\ UNCHANGED <<flushing, overlapped>> /\ ~Closing(h)
  BY WriteStep, ResizeStep DEF Write, Resize, Usable
<1>2. PICK p \in Paths : of.path = p /\ index[p] # Absent /\ of.ino = p
                         /\ of.virtual_size \in 0..MaxSize
  BY <1>1 DEF OpenFile, Sound, HandlesSound
<1>3. /\ Write(h, n) => /\ Larger(View[p].size, n) \in 0..MaxSize
                        /\ Resizing(p, Larger(View[p].size, n))
      /\ Resize(h, n) => Resizing(p, n)
  BY <1>2, SoundWriting
<1>4. /\ Write(h, n) => View'[p].size = Larger(View[p].size, n)
      /\ Resize(h, n) => View'[p].size = n
      /\ \A q \in Paths \ {p} : View'[q] = View[q]
  BY <1>2, <1>3, ViewType
<1>5. \A q \in Paths \ {p} : index'[q] = index[q]
  <2>1. CASE Write(h, n)
    BY ZenonT(60), <1>2, <2>1, WriteStep DEF Indexed, TypeOK
  <2>2. CASE Resize(h, n)
    <3>1. \E loc : index' = Indexed(p, loc, disk')
      BY <1>2, <2>2, ResizeStep
    <3>2. QED
      BY <3>1 DEF Indexed, TypeOK
  <2>3. QED
    BY <2>1, <2>2
<1>6. \A g \in Handles \ {h} : open_files'[g] = open_files[g]
  BY DEF Write, Resize, TypeOK
<1>7. /\ open_files'[h].path = p /\ open_files'[h].metadata_dirty /\ open_files'[h] # None
      /\ \/ Write(h, n) /\ open_files'[h].virtual_size = Larger(of.virtual_size, n)
         \/ Resize(h, n) /\ open_files'[h].virtual_size = n
  <2>1. of.real \in Locations /\ of.fd \in Locations \cup {None} /\ <<p, "staged">> \in Locations
    BY <1>1, <1>2 DEF OpenFile, Locations, Layers
  <2>2. CASE Write(h, n)
    <3>1. \E real \in Locations, fd \in Locations \cup {None} :
             open_files' = [open_files EXCEPT ![h] = Written(of, real, fd, n)]
      BY <1>2, <2>1, <2>2, WriteStep
    <3>2. \E real \in Locations, fd \in Locations \cup {None} :
             open_files'[h] = Written(of, real, fd, n)
      BY <1>1, <3>1 DEF TypeOK, Live
    <3>3. open_files'[h].path = p /\ open_files'[h].metadata_dirty = TRUE
          /\ open_files'[h].virtual_size = Larger(of.virtual_size, n)
      BY <1>1, <1>2, <3>2 DEF Written, OpenFile
    <3>4. open_files'[h] \in OpenFile
      BY <1>1, <1>2, <3>2, VirtualFilesAssumption DEF Written, OpenFile, Larger
    <3>5. QED
      BY <2>2, <3>3, <3>4, AbsentAssumption
  <2>3. CASE Resize(h, n)
    <3> DEFINE resized(real, fd) == [of EXCEPT !.real = real, !.fd = fd, !.cow_pending = FALSE,
                                               !.metadata_dirty = TRUE, !.virtual_size = n]
    <3>1. \E real \in Locations, fd \in Locations \cup {None} :
             open_files' = [open_files EXCEPT ![h] = resized(real, fd)]
      <4>1. CASE InPlace(of.ino, of.real)
        <5>1. open_files' = [open_files EXCEPT ![h] = resized(of.real, of.fd)]
          BY <2>3, <4>1, ResizeStep
        <5> HIDE DEF resized
        <5>2. QED
          BY <2>1, <5>1
      <4>2. CASE ~InPlace(of.ino, of.real)
        <5>1. open_files' = [open_files EXCEPT ![h] = resized(<<of.ino, "staged">>, <<of.ino, "staged">>)]
          BY <2>3, <4>2, ResizeStep
        <5> HIDE DEF resized
        <5>2. QED
          BY <1>2, <2>1, <5>1
      <4>3. QED
        BY <4>1, <4>2
    <3>2. \E real \in Locations, fd \in Locations \cup {None} : open_files'[h] = resized(real, fd)
      BY <1>1, <3>1 DEF TypeOK, Live
    <3>3. open_files'[h].path = p /\ open_files'[h].metadata_dirty = TRUE
          /\ open_files'[h].virtual_size = n
      BY <1>1, <1>2, <3>2 DEF OpenFile
    <3>4. open_files'[h] \in OpenFile
      BY <1>1, <1>2, <3>2 DEF OpenFile
    <3>5. QED
      BY <2>3, <3>3, <3>4, AbsentAssumption
  <2>4. QED
    BY <2>2, <2>3
<1>8. Live' = Live
  BY <1>1, <1>6, <1>7 DEF Live
<1>9. ClosingIsClean'
  BY <1>1, <1>6, <1>8 DEF SizesSound, ClosingIsClean, Closing, Sound, FlushesSound, Live
<1>10. ASSUME NEW q \in Paths \ overlapped, q # p
       PROVE  SizeSound(q)'
  <2>1. SizeSound(q)
    BY DEF SizesSound
  <2>2. \A g \in Handles : \/ g \in Live /\ g \in Live' /\ open_files'[g] = open_files[g]
                           \/ g \notin HandlesOf(q) /\ g \notin HandlesOf(q)'
    BY <1>2, <1>6, <1>7, <1>8, <1>10 DEF HandlesOf
  <2>3. QED
    BY <1>1, <1>4, <1>5, <1>10, <2>1, <2>2, SizeElsewhere
<1>11. ASSUME p \notin overlapped
       PROVE  SizeSound(p)'
  <2>1. /\ \A g \in HandlesOf(p) : g = h
        /\ of.virtual_size = View[p].size
    BY <1>1, <1>2, <1>11 DEF SizesSound, SizeSound, HandlesOf, FileSize
  <2>2. HandlesOf(p)' = {h}
    BY <1>1, <1>6, <1>7, <1>8, <2>1 DEF HandlesOf, Live
  <2>3. \A w \in FlushesOf(p)' : flushing'[w].h = h
    BY <1>1, <2>1 DEF FlushesOf, HandlesOf, Sound, FlushesSound
  <2>4. open_files'[h].virtual_size = View'[p].size
    BY <1>2, <1>4, <1>7, <2>1
  <2>5. QED
    BY <1>7, <2>2, <2>3, <2>4 DEF SizeSound, FileSize
<1>12. QED
  BY <1>1, <1>9, <1>10, <1>11 DEF SizesSound

\* A path that is opened, created or truncated by name, and that stays out of overlapped,
\* had no writer: the new handle, the index and the file have one size.
LEMMA SizesOpening ==
  ASSUME TypeOK, TypeOK', Sound, SizesSound, NEW p \in Paths,
         \/ \E h \in Handles : Create(p, h) \/ \E truncate \in BOOLEAN : Open(p, h, truncate)
         \/ \E n \in 0..MaxSize : ResizePath(p, n)
  PROVE  SizesSound'
<1>1. UNCHANGED flushing /\ NoteWriter(p)
  BY DEF Create, Open, ResizePath
<1>2. ASSUME p \notin overlapped'
      PROVE  HandlesOf(p) = {} /\ FlushesOf(p) = {} /\ p \notin overlapped
  <2>1. Writers(p) = {} /\ p \notin overlapped
    BY <1>1, <1>2 DEF NoteWriter
  <2>2. QED
    BY <2>1, NotShared DEF HandlesOf, FlushesOf
<1>3. overlapped \subseteq overlapped' /\ 0 \in 0..MaxSize
  BY <1>1, VirtualFilesAssumption DEF NoteWriter
<1>4. \A w \in Workers : flushing[w] # None => flushing[w].h \in Live
  BY DEF Sound, FlushesSound
<1>5. ASSUME \A q \in Paths \ {p} : index'[q] = index[q] /\ View'[q] = View[q],
             \/ UNCHANGED open_files
             \/ \E h \in Handles, of \in OpenFile :
                  /\ open_files[h] = None /\ open_files' = [open_files EXCEPT ![h] = of]
                  /\ of.path = p
                  /\ p \notin overlapped' => of.virtual_size = View'[p].size,
             p \notin overlapped' => index'[p].size = View'[p].size
      PROVE  SizesSound'
  <2>1. \A g \in Live : g \in Live' /\ open_files'[g] = open_files[g]
    BY <1>5 DEF Live, TypeOK
  <2>2. ASSUME NEW g \in Live' \ Live
        PROVE  /\ open_files'[g].path = p
               /\ p \notin overlapped' => open_files'[g].virtual_size = View'[p].size
               /\ \A k \in Live' \ Live : k = g
    BY <1>5 DEF Live, TypeOK
  <2>3. ClosingIsClean'
    BY <1>1, <1>4, <2>1 DEF SizesSound, ClosingIsClean
  <2>4. ASSUME NEW q \in Paths \ overlapped', q # p
        PROVE  SizeSound(q)'
    <3>1. SizeSound(q)
      BY <1>3 DEF SizesSound
    <3>2. \A g \in Handles : \/ g \in Live /\ g \in Live' /\ open_files'[g] = open_files[g]
                             \/ g \notin HandlesOf(q) /\ g \notin HandlesOf(q)'
      BY <2>1, <2>2, <2>4 DEF HandlesOf
    <3>3. QED
      BY <1>1, <1>5, <2>4, <3>1, <3>2, SizeElsewhere
  <2>5. ASSUME p \notin overlapped'
        PROVE  SizeSound(p)'
    <3>1. HandlesOf(p)' \subseteq Live' \ Live
      BY <1>2, <2>1, <2>5 DEF HandlesOf
    <3>2. FlushesOf(p)' = {}
      BY <1>1, <1>2, <2>5 DEF FlushesOf
    <3>3. QED
      BY <1>5, <2>2, <2>5, <3>1, <3>2 DEF SizeSound, FileSize
  <2>6. QED
    BY <2>3, <2>4, <2>5 DEF SizesSound
<1>6. CASE \E h \in Handles : /\ Create(p, h)
                              /\ View' = [View EXCEPT ![p] = [by |-> p, size |-> 0]]
  <2> PICK h \in Handles : /\ Create(p, h)
                           /\ View' = [View EXCEPT ![p] = [by |-> p, size |-> 0]]
    BY <1>6
  <2> DEFINE stage == <<p, "staged">>
             of == [path |-> p, real |-> stage, fd |-> stage, ino |-> p, cow_pending |-> FALSE,
                    metadata_dirty |-> FALSE, virtual_size |-> 0]
  <2>1. View'[p].size = 0 /\ \A q \in Paths \ {p} : View'[q] = View[q]
    BY ViewType
  <2>2. index' = [index EXCEPT ![p] = [real |-> stage, size |-> 0]]
    BY DEF Create
  <2>3. index'[p].size = 0 /\ \A q \in Paths \ {p} : index'[q] = index[q]
    BY <2>2 DEF TypeOK
  <2>4. open_files[h] = None /\ open_files' = [open_files EXCEPT ![h] = of]
    BY DEF Create, OpenHandle
  <2>5. of \in OpenFile /\ of.path = p /\ of.virtual_size = 0
    BY <1>3 DEF OpenFile, Locations, Layers
  <2> HIDE DEF of
  <2>6. QED
    BY <1>5, <2>1, <2>3, <2>4, <2>5
<1>7. CASE \E h \in Handles : Open(p, h, FALSE) /\ UNCHANGED View
  <2> PICK h \in Handles : Open(p, h, FALSE) /\ UNCHANGED View
    BY <1>7
  <2> DEFINE real == index[p].real
             of == [path |-> p, real |-> real, fd |-> real, ino |-> p,
                    cow_pending |-> ~InPlace(p, real),
                    metadata_dirty |-> FALSE, virtual_size |-> index[p].size]
  <2>1. UNCHANGED index /\ index[p] # Absent
    BY DEF Open
  <2>2. open_files[h] = None /\ index[p] \in Entry /\ real \in Locations
        /\ OpenHandle(h, p, real, ~InPlace(p, real), index[p].size)
    BY OpenStep
  <2>3. open_files' = [open_files EXCEPT ![h] = of]
    BY <2>2 DEF OpenHandle
  <2>4. of \in OpenFile /\ of.path = p /\ of.virtual_size = index[p].size
    BY <2>2 DEF OpenFile, Entry
  <2>5. p \notin overlapped' => index[p].size = View[p].size
    BY <1>2, <2>1 DEF SizesSound, SizeSound, FileSize
  <2> HIDE DEF of
  <2>6. QED
    BY <1>5, <2>1, <2>2, <2>3, <2>4, <2>5
<1>8. CASE \E h \in Handles : Open(p, h, TRUE) /\ Resizing(p, 0)
  <2> PICK h \in Handles : Open(p, h, TRUE) /\ Resizing(p, 0)
    BY <1>8
  <2>1. View'[p].size = 0 /\ \A q \in Paths \ {p} : View'[q] = View[q]
    BY <1>3, ViewType
  <2>2. \E real \in Locations :
           /\ index' = [index EXCEPT ![p] = [real |-> real, size |-> 0]]
           /\ OpenHandle(h, p, real, FALSE, 0)
    <3>1. index[p].real \in Locations /\ <<p, "staged">> \in Locations
      BY OpenStep DEF Locations, Layers
    <3>2. QED
      BY <3>1, OpenStep
  <2> PICK real \in Locations : /\ index' = [index EXCEPT ![p] = [real |-> real, size |-> 0]]
                                /\ OpenHandle(h, p, real, FALSE, 0)
    BY <2>2
  <2> DEFINE of == [path |-> p, real |-> real, fd |-> real, ino |-> p, cow_pending |-> FALSE,
                    metadata_dirty |-> FALSE, virtual_size |-> 0]
  <2>3. index'[p].size = 0 /\ \A q \in Paths \ {p} : index'[q] = index[q]
    BY DEF TypeOK
  <2>4. open_files[h] = None /\ open_files' = [open_files EXCEPT ![h] = of]
    BY OpenStep DEF OpenHandle
  <2>5. of \in OpenFile /\ of.path = p /\ of.virtual_size = 0
    BY <1>3 DEF OpenFile
  <2> HIDE DEF of
  <2>6. QED
    BY <1>5, <2>1, <2>3, <2>4, <2>5
<1>9. CASE \E n \in 0..MaxSize : ResizePath(p, n) /\ Resizing(p, n)
  <2> PICK n \in 0..MaxSize : ResizePath(p, n) /\ Resizing(p, n)
    BY <1>9
  <2>1. View'[p].size = n /\ \A q \in Paths \ {p} : View'[q] = View[q]
    BY ViewType
  <2>2. UNCHANGED open_files
    BY DEF ResizePath
  <2>3. PICK loc \in Locations : index' = Indexed(p, loc, disk')
    <3>1. index[p].real \in Locations /\ <<p, "staged">> \in Locations
      BY ResizePathStep DEF Locations, Layers
    <3>2. QED
      BY <3>1, ResizePathStep
  <2>4. index'[p] = [real |-> loc, size |-> Size(disk'[loc])]
        /\ \A q \in Paths \ {p} : index'[q] = index[q]
    BY <2>3 DEF Indexed, TypeOK
  <2>5. index'[p].real = loc /\ index'[p].size = Size(disk'[loc]) /\ index'[p] # Absent
    <3>1. index'[p].real = loc /\ index'[p].size = Size(disk'[loc])
      BY <2>4
    <3>2. index'[p] # Absent
      BY <2>3, IndexedType DEF TypeOK, Disks
    <3>3. QED
      BY <3>1, <3>2
  <2>6. View'[p] = disk'[loc]
    BY <2>5 DEF View
  <2>7. Sound'
    BY SoundOpening
  <2>8. disk'[loc] # Absent
    BY <2>5, <2>7 DEF Sound, PathsSound
  <2>9. index'[p].size = View'[p].size
    BY <2>5, <2>6, <2>8 DEF Size
  <2>10. QED
    BY <1>5, <2>1, <2>2, <2>4, <2>9
<1>10. QED
  BY <1>6, <1>7, <1>8, <1>9, SoundOpening

\* A flush of a path publishes the size of its file, unless the handle is dirty again.
LEMMA SizesFlushing ==
  ASSUME TypeOK, TypeOK', Sound, SizesSound,
         \/ \E w \in Workers : Publishes(w) \/ \E h \in Handles, c \in BOOLEAN : FlushBegins(w, h, c)
         \/ \E h \in Handles : Release(h)
  PROVE  SizesSound'
<1>1. UNCHANGED View
  BY SoundFlushing
<1>2. ASSUME NEW w \in Workers, NEW h \in Handles, NEW closing \in BOOLEAN,
             FlushBegins(w, h, closing)
      PROVE  SizesSound'
  <2> DEFINE of == open_files[h]
  <2>1. h \in Live /\ of \in OpenFile /\ UNCHANGED <<disk, index>> /\ flushing[w] = None
    BY <1>2, LiveType DEF FlushBegins, Usable
  <2>2. PICK p \in Paths : of.path = p
    BY <2>1 DEF OpenFile
  <2> DEFINE flush == [h |-> h, path |-> p, real |-> of.real, size |-> of.virtual_size,
                       closing |-> closing]
             clean == [of EXCEPT !.metadata_dirty = FALSE]
  <2>3. flushing' = [flushing EXCEPT ![w] = flush] /\ open_files' = [open_files EXCEPT ![h] = clean]
    BY <1>2, <2>2 DEF FlushBegins
  <2>4. /\ clean.path = p /\ clean.virtual_size = of.virtual_size /\ ~clean.metadata_dirty
        /\ clean \in OpenFile /\ clean # None
        /\ flush.h = h /\ flush.path = p /\ flush.size = of.virtual_size
    BY <2>1, <2>2, AbsentAssumption DEF OpenFile
  <2>5. overlapped \subseteq overlapped' /\ (p \notin overlapped' => FlushesOf(p) = {})
    BY <1>2, <2>2 DEF FlushBegins, FlushesOf
  <2> HIDE DEF flush, clean
  <2>6. /\ \A g \in Handles : open_files'[g] = IF g = h THEN clean ELSE open_files[g]
        /\ \A v \in Workers : flushing'[v] = IF v = w THEN flush ELSE flushing[v]
    BY <2>3 DEF TypeOK
  <2>7. Live' = Live
    BY <2>1, <2>4, <2>6 DEF Live
  <2>8. ClosingIsClean'
    <3> SUFFICES ASSUME NEW v \in Workers, flushing'[v] # None, flushing'[v].closing
                 PROVE  ~open_files'[flushing'[v].h].metadata_dirty
      BY DEF ClosingIsClean
    <3>1. CASE flushing'[v].h = h
      BY <2>4, <2>6, <3>1
    <3>2. CASE flushing'[v].h # h
      <4>1. flushing'[v] = flushing[v]
        BY <2>4, <2>6, <3>2
      <4>2. flushing[v].h \in Handles
        BY <4>1 DEF Sound, FlushesSound, Live
      <4>3. QED
        BY <2>6, <3>2, <4>1, <4>2 DEF SizesSound, ClosingIsClean
    <3>3. QED
      BY <3>1, <3>2
  <2>9. ASSUME NEW q \in Paths \ overlapped', q # p
        PROVE  SizeSound(q)'
    <3>1. SizeSound(q)
      BY <2>5 DEF SizesSound
    <3>2. \A g \in Handles : \/ g \in Live /\ g \in Live' /\ open_files'[g] = open_files[g]
                             \/ g \notin HandlesOf(q) /\ g \notin HandlesOf(q)'
      BY <2>2, <2>4, <2>6, <2>7, <2>9 DEF HandlesOf
    <3>3. \A v \in Workers : \/ flushing'[v] = flushing[v]
                             \/ v \notin FlushesOf(q) /\ v \notin FlushesOf(q)'
      BY <2>1, <2>4, <2>6, <2>9 DEF FlushesOf
    <3>4. QED
      BY <1>1, <2>1, <3>1, <3>2, <3>3, SizeElsewhere
  <2>10. ASSUME p \notin overlapped'
         PROVE  SizeSound(p)'
    <3>1. SizeSound(p) /\ index[p] # Absent
      BY <2>1, <2>2, <2>5, <2>10 DEF SizesSound, Sound, HandlesSound
    <3>2. (\A g \in HandlesOf(p) : g = h) /\ of.virtual_size = FileSize(p)
      BY <2>1, <2>2, <3>1 DEF SizeSound, HandlesOf
    <3>3. FileSize(p)' = FileSize(p)
      BY <1>1 DEF FileSize
    <3>4. \A g \in HandlesOf(p)' : g = h
      BY <2>2, <2>4, <2>6, <2>7, <3>2 DEF HandlesOf, Live
    <3>5. FlushesOf(p)' = {w} /\ flushing'[w].size = FileSize(p)'
      <4>1. flush # None
        BY <2>1, <2>2, AbsentAssumption DEF flush, Flush, OpenFile, Live
      <4>2. QED
        BY <2>4, <2>5, <2>6, <2>10, <3>2, <3>3, <4>1 DEF FlushesOf
    <3>6. open_files'[h].virtual_size = FileSize(p)'
      BY <2>4, <2>6, <3>2, <3>3
    <3>7. QED
      BY <3>4, <3>5, <3>6 DEF SizeSound
  <2>11. QED
    BY <2>8, <2>9, <2>10 DEF SizesSound
<1>3. ASSUME NEW w \in Workers, Publishes(w)
      PROVE  SizesSound'
  <2> DEFINE f == flushing[w]
             h == f.h
  <2>1. f \in Flush /\ f # None /\ h \in Live /\ UNCHANGED <<disk, overlapped>>
        /\ open_files[h].path = f.path
        /\ (f.closing => \A v \in Workers \ {w} : flushing[v] # None => flushing[v].h # h)
    BY <1>3 DEF Publishes, TypeOK, Sound, FlushesSound
  <2>2. PICK p \in Paths : f.path = p
    BY <2>1 DEF Flush
  <2>3. /\ index'[p].size = f.size /\ index[p] # Absent
        /\ \A q \in Paths \ {p} : index'[q] = index[q]
    <3>1. index' = [index EXCEPT ![p] = [real |-> f.real, size |-> f.size]] /\ Paths \subseteq DOMAIN index
      BY <1>3, <2>2 DEF Publishes, TypeOK
    <3>2. index[p] # Absent
      BY <1>3, <2>1, <2>2 DEF Sound, HandlesSound
    <3>3. QED
      BY <3>1, <3>2
  <2>4. /\ \A v \in Workers : flushing'[v] = IF v = w THEN None ELSE flushing[v]
        /\ \A g \in Handles : open_files'[g] = IF f.closing /\ g = h THEN None ELSE open_files[g]
    BY <1>3 DEF Publishes, TypeOK
  <2>5. \A v \in Workers : flushing'[v] # None =>
           /\ v # w /\ flushing'[v] = flushing[v] /\ flushing[v].h \in Live
           /\ open_files'[flushing[v].h] = open_files[flushing[v].h]
    BY <2>1, <2>4 DEF Sound, FlushesSound, Live
  <2>6. ClosingIsClean'
    BY <2>5 DEF SizesSound, ClosingIsClean
  <2>7. ASSUME NEW q \in Paths \ overlapped, q # p
        PROVE  SizeSound(q)'
    <3>1. SizeSound(q)
      BY DEF SizesSound
    <3>2. \A g \in Handles : \/ g \in Live /\ g \in Live' /\ open_files'[g] = open_files[g]
                             \/ g \notin HandlesOf(q) /\ g \notin HandlesOf(q)'
      BY <2>1, <2>2, <2>4, <2>7 DEF HandlesOf, Live
    <3>3. \A v \in Workers : \/ flushing'[v] = flushing[v]
                             \/ v \notin FlushesOf(q) /\ v \notin FlushesOf(q)'
      BY <2>1, <2>2, <2>4, <2>7 DEF FlushesOf
    <3>4. QED
      BY <1>1, <2>3, <2>7, <3>1, <3>2, <3>3, SizeElsewhere
  <2>8. ASSUME p \notin overlapped
        PROVE  SizeSound(p)'
    <3>1. SizeSound(p)
      BY <2>8 DEF SizesSound
    <3>2. FileSize(p)' = FileSize(p)
      BY <1>1 DEF FileSize
    <3>3. /\ \A g \in HandlesOf(p) : g = h
          /\ ~open_files[h].metadata_dirty => f.size = FileSize(p)
      BY <2>1, <2>2, <2>3, <3>1 DEF SizeSound, HandlesOf, FlushesOf
    <3>4. \A g \in HandlesOf(p)' : g = h /\ ~f.closing /\ open_files'[g] = open_files[h]
      BY <2>4, <3>3 DEF HandlesOf, Live
    <3>5. \A v \in FlushesOf(p)' : v \in FlushesOf(p) /\ flushing'[v] = flushing[v]
                                   /\ open_files'[flushing[v].h] = open_files[flushing[v].h]
      BY <2>5 DEF FlushesOf
    <3>6. open_files[h].virtual_size = FileSize(p)
      BY <2>1, <2>2, <2>3, <3>1 DEF SizeSound, HandlesOf
    <3>7. \A v \in FlushesOf(p)' : ~open_files'[flushing'[v].h].metadata_dirty =>
             flushing'[v].size = FileSize(p)'
      BY <2>3, <3>1, <3>2, <3>5 DEF SizeSound
    <3>8. (\A g \in HandlesOf(p)' : ~open_files'[g].metadata_dirty) => ~open_files[h].metadata_dirty
      <4>1. CASE f.closing
        BY <2>1, <4>1 DEF SizesSound, ClosingIsClean
      <4>2. CASE ~f.closing
        BY <2>1, <2>2, <2>4, <4>2 DEF HandlesOf, Live
      <4>3. QED
        BY <4>1, <4>2
    <3>9. QED
      BY <2>3, <3>2, <3>3, <3>4, <3>6, <3>7, <3>8 DEF SizeSound
  <2>9. QED
    BY <2>1, <2>6, <2>7, <2>8 DEF SizesSound
<1>4. ASSUME NEW h \in Handles, Release(h)
      PROVE  SizesSound'
  <2>1. h \in Live /\ UNCHANGED <<disk, index, flushing, overlapped>>
        /\ ~open_files[h].metadata_dirty
        /\ \A w \in Workers : flushing[w] # None => flushing[w].h # h
    BY <1>4 DEF Release, Usable
  <2>2. \A g \in Handles : open_files'[g] = IF g = h THEN None ELSE open_files[g]
    BY <1>4 DEF Release, TypeOK
  <2>3. PICK p \in Paths : open_files[h].path = p
    BY <2>1, LiveType DEF OpenFile
  <2>4. ClosingIsClean'
    BY <2>1, <2>2 DEF SizesSound, ClosingIsClean, Sound, FlushesSound, Live
  <2>5. ASSUME NEW q \in Paths \ overlapped, q # p
        PROVE  SizeSound(q)'
    <3>1. SizeSound(q)
      BY DEF SizesSound
    <3>2. \A g \in Handles : \/ g \in Live /\ g \in Live' /\ open_files'[g] = open_files[g]
                             \/ g \notin HandlesOf(q) /\ g \notin HandlesOf(q)'
      BY <2>2, <2>3, <2>5 DEF HandlesOf, Live
    <3>3. QED
      BY <1>1, <2>1, <3>1, <3>2, SizeElsewhere
  <2>6. ASSUME p \notin overlapped
        PROVE  SizeSound(p)'
    <3>1. SizeSound(p) /\ index[p] # Absent
      BY <2>1, <2>3, <2>6 DEF SizesSound, Sound, HandlesSound
    <3>2. \A g \in HandlesOf(p) : g = h
      BY <2>1, <2>3, <3>1 DEF SizeSound, HandlesOf
    <3>3. HandlesOf(p)' = {}
      BY <2>2, <3>2 DEF HandlesOf, Live
    <3>4. FlushesOf(p) = {}
      BY <2>1, <3>2 DEF FlushesOf, HandlesOf, Sound, FlushesSound
    <3>5. FlushesOf(p)' = {} /\ FileSize(p)' = FileSize(p)
      BY <1>1, <2>1, <3>4 DEF FlushesOf, FileSize
    <3>6. QED
      BY <2>1, <3>1, <3>2, <3>3, <3>4, <3>5 DEF SizeSound
  <2>7. QED
    BY <2>1, <2>4, <2>5, <2>6 DEF SizesSound
<1>5. QED
  BY <1>2, <1>3, <1>4

\* An unlinked path has no size, and a renamed file takes its size along.
LEMMA SizesNaming ==
  ASSUME TypeOK, TypeOK', Sound, SizesSound, Sharing = {}, NEW p \in Paths,
         Unlink(p) \/ \E q \in Paths : Rename(p, q)
  PROVE  SizesSound'
<1>1. \A w \in Workers : flushing[w] # None => flushing[w].h \in Live
  BY DEF Sound, FlushesSound
<1>2. CASE Unlink(p)
  <2>1. Writers(p) = {} /\ UNCHANGED flushing /\ overlapped' = overlapped \ {p}
        /\ index' = [index EXCEPT ![p] = Absent]
    BY <1>2 DEF Unlink
  <2>2. index'[p] = Absent /\ \A q \in Paths \ {p} : index'[q] = index[q] /\ View'[q] = View[q]
    BY <1>2, <2>1, SoundUnlink, ViewType DEF TypeOK
  <2>3. ASSUME NEW h \in Handles
        PROVE  \/ /\ h \in Live /\ h \in Live' /\ open_files'[h].path = open_files[h].path
                  /\ open_files'[h].virtual_size = open_files[h].virtual_size
                  /\ open_files'[h].metadata_dirty = open_files[h].metadata_dirty
               \/ h \notin Live /\ h \notin Live'
    <3>1. open_files'[h] \in OpenFile \cup {None} /\ None \notin OpenFile
      BY AbsentAssumption DEF TypeOK
    <3>2. CASE h \in Live
      <4>1. open_files[h] \in OpenFile
        BY <3>2, LiveType
      <4>2. open_files'[h] = open_files[h] \/ open_files'[h] = [open_files[h] EXCEPT !.fd = None]
        BY <1>2 DEF Unlink
      <4>3. open_files'[h] \in OpenFile
        BY <4>1, <4>2 DEF OpenFile
      <4>4. QED
        BY <3>1, <3>2, <4>1, <4>2, <4>3 DEF OpenFile, Live
    <3>3. CASE h \notin Live
      BY <1>2, <3>3 DEF Unlink, Live
    <3>4. QED
      BY <3>2, <3>3
  <2>4. ClosingIsClean'
    BY <1>1, <2>1, <2>3 DEF SizesSound, ClosingIsClean, Live
  <2>5. ASSUME NEW q \in Paths \ overlapped'
        PROVE  SizeSound(q)'
    <3>1. CASE q = p
      BY <2>2, <3>1 DEF SizeSound
    <3>2. CASE q # p
      <4>1. SizeSound(q)
        BY <2>1, <3>2 DEF SizesSound
      <4>2. QED
        BY <2>1, <2>2, <2>3, <3>2, <4>1, SizeElsewhere DEF HandlesOf
    <3>3. QED
      BY <3>1, <3>2
  <2>6. QED
    BY <2>4, <2>5 DEF SizesSound
<1>3. ASSUME NEW q \in Paths, Rename(p, q)
      PROVE  SizesSound'
  <2>1. p # q /\ Writers(p) = {} /\ Writers(q) = {} /\ UNCHANGED flushing
        /\ overlapped' = IF p \in overlapped THEN overlapped \cup {q} ELSE overlapped
    BY <1>3 DEF Rename
  <2>2. /\ View'[q] = View[p] /\ View'[p] = Absent
        /\ \A r \in Paths \ {p, q} : View'[r] = View[r]
    BY <1>3, SoundRename
  <2>3. /\ index'[p] = Absent /\ index'[q].size = index[p].size /\ index[p] # Absent
        /\ \A r \in Paths \ {p, q} : index'[r] = index[r]
    BY <1>3, <2>1 DEF Rename, Renamed, TypeOK
  <2>4. ASSUME NEW h \in Handles
        PROVE  \/ /\ h \in Live /\ h \in Live' /\ open_files'[h].path = open_files[h].path
                  /\ open_files'[h].virtual_size = open_files[h].virtual_size
                  /\ open_files'[h].metadata_dirty = open_files[h].metadata_dirty
               \/ h \notin Live /\ h \notin Live'
    <3>1. open_files'[h] \in OpenFile \cup {None} /\ None \notin OpenFile
      BY AbsentAssumption DEF TypeOK
    <3>2. CASE h \in Live
      <4>1. open_files[h] \in OpenFile
        BY <3>2, LiveType
      <4>2. <<q, FoundIn(p)>> \in Locations
        BY DEF FoundIn, Locations, Layers
      <4>3. \E fd \in Locations \cup {None}, ino \in Paths \cup {None} :
               open_files'[h] = [open_files[h] EXCEPT !.fd = fd, !.ino = ino]
        BY <1>3, <3>2, <4>1, <4>2 DEF Rename, Moved, OpenFile
      <4>4. open_files'[h] \in OpenFile
        BY <4>1, <4>3 DEF OpenFile
      <4>5. QED
        BY <3>1, <3>2, <4>1, <4>3, <4>4 DEF OpenFile, Live
    <3>3. CASE h \notin Live
      BY <1>3, <3>3 DEF Rename, Live
    <3>4. QED
      BY <3>2, <3>3
  <2>5. ClosingIsClean'
    BY <1>1, <2>1, <2>4 DEF SizesSound, ClosingIsClean, Live
  <2>6. ASSUME NEW r \in Paths \ overlapped'
        PROVE  SizeSound(r)'
    <3>1. CASE r = p
      BY <2>3, <3>1 DEF SizeSound
    <3>2. CASE r = q
      <4>1. SizeSound(p)
        BY <2>1, <2>6, <3>2 DEF SizesSound
      <4>2. HandlesOf(p) = {} /\ FlushesOf(p) = {} /\ HandlesOf(q) = {} /\ FlushesOf(q) = {}
        BY <2>1, NotShared DEF HandlesOf, FlushesOf
      <4>3. HandlesOf(q)' = {} /\ FlushesOf(q)' = {}
        BY <2>1, <2>4, <4>2 DEF HandlesOf, FlushesOf, Live
      <4>4. index[p].size = FileSize(p)
        BY <2>3, <4>1, <4>2 DEF SizeSound
      <4>5. QED
        BY <2>2, <2>3, <3>2, <4>3, <4>4 DEF SizeSound, FileSize
    <3>3. CASE r \notin {p, q}
      <4>1. SizeSound(r)
        BY <2>1, <2>6 DEF SizesSound
      <4>2. QED
        BY <2>1, <2>2, <2>3, <2>4, <3>3, <4>1, SizeElsewhere DEF HandlesOf
    <3>4. QED
      BY <3>1, <3>2, <3>3
  <2>7. QED
    BY <2>5, <2>6 DEF SizesSound
<1>4. QED
  BY <1>2, <1>3

\* Without shared files the sizes stay sound.
LEMMA SizesInductive ==
  ASSUME Sharing = {}
  PROVE  /\ Init => SizesSound
         /\ TypeOK /\ TypeOK' /\ Sound /\ SizesSound /\ [Next]_vars => SizesSound'
<1>1. ASSUME Init PROVE SizesSound
  <2>1. TypeOK /\ Sound
    BY <1>1, TypeInductive, SoundInit
  <2>2. Live = {} /\ \A w \in Workers : flushing[w] = None
    BY <1>1 DEF Init, Live
  <2>3. ASSUME NEW p \in Paths, index[p] # Absent
        PROVE  index[p].size = FileSize(p)
    <3>1. index[p].size = MaxSize /\ index[p].real \in Installed
      BY <1>1, <2>3 DEF Init
    <3>2. disk[index[p].real].size = MaxSize
      BY <1>1, <2>1, <2>3, <3>1 DEF Init, TypeOK, Entry
    <3>3. QED
      BY <2>3, <3>1, <3>2 DEF FileSize, View
  <2>4. QED
    BY <2>2, <2>3 DEF SizesSound, SizeSound, ClosingIsClean, HandlesOf, FlushesOf
<1>2. ASSUME TypeOK, TypeOK', Sound, SizesSound, [Next]_vars
      PROVE  SizesSound'
  <2>1. CASE Next
    BY <1>2, <2>1, SizesOpening, SizesWriting, SizesFlushing, SizesNaming DEF Next
  <2>2. CASE UNCHANGED vars
    BY <1>2, <2>2 DEF vars, SizesSound, SizeSound, ClosingIsClean, HandlesOf, FlushesOf, FileSize,
                      View, Live
  <2>3. QED
    BY <1>2, <2>1, <2>2
<1>3. QED
  BY <1>1, <1>2

\* While programs share no files, the index has the size of every file once all its handles
\* have been flushed, if writers or flushes of the path have never overlapped.
THEOREM SizesAgreeAtRest ==
  ASSUME Sharing = {}
  PROVE  Spec => []SizesAtRest
<1>1. TypeOK /\ Sound /\ SizesSound => SizesAtRest
  <2> SUFFICES ASSUME TypeOK, Sound, SizesSound, NEW p \in Paths \ overlapped, index[p] # Absent,
                      \A h \in Writers(p) : ~open_files[h].metadata_dirty,
                      \A w \in Workers : flushing[w] # None => flushing[w].path # p
               PROVE  index[p].size = Size(disk[index[p].real])
    BY DEF SizesAtRest
  <2>1. index[p].size = FileSize(p)
    BY DEF SizesSound, SizeSound, HandlesOf, FlushesOf, Writers
  <2>2. disk[index[p].real] # Absent
    BY DEF Sound, PathsSound
  <2>3. QED
    BY <2>1, <2>2 DEF FileSize, View, Size
<1>2. QED
  BY <1>1, TypeInductive, SoundInit, SoundInductive, SizesInductive, PTL DEF Spec
=============================================================================
