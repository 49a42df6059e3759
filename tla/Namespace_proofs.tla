--------------------------- MODULE Namespace_proofs ---------------------------
(***************************************************************************)
(* Theorems about Namespace: for any paths of two levels, any number of    *)
(* inodes and changes, and any size of the negative cache.                 *)
(*                                                                         *)
(* Four invariants, each on top of the one before: Sound has the types and *)
(* how the table, the caches and the change and request under way hang     *)
(* together; LeavesSound, what the index tells of the files of the tree;   *)
(* DirsSound, what it tells of directories; ListedSound, what the cached   *)
(* listings tell.  LookupSound follows one lookup through its steps.  Each *)
(* has a lemma per part and action that can disturb it, and ends in a lemma*)
(* ...Step about Next.                                                     *)
(***************************************************************************)
EXTENDS Namespace, RuntimeIndex_proofs

-----------------------------------------------------------------------------
(* Paths: directories of the root, and leaves in the root or in one of them. *)

LEMMA TwoLevels ==
    ASSUME NEW p \in Paths
    PROVE  /\ p \in Seq(Names) /\ Len(p) \in {1, 2} /\ p # Root /\ p \in AllPaths
           /\ Parent(p) = Root \/ (Parent(p) \in Dirs /\ Parent(p) \in Paths)
           /\ Parent(p) = Root <=> Len(p) = 1
           /\ p \in Dirs => Parent(p) = Root
           /\ Parent(p) # p
           /\ p[1] \in Names /\ (p \in Dirs => p = <<p[1]>> /\ Name(p) = p[1])
           /\ Parent(p) # Root => Parent(p) = <<p[1]>>
<1>1. /\ p \in Seq(Names) /\ p # Root /\ Len(p) \in Nat /\ Len(p) >= 1
      /\ Parent(p) \in Seq(Names) /\ Len(Parent(p)) = Len(p) - 1 /\ Parent(p) # p
      /\ Append(Parent(p), Name(p)) = p
  BY PathParts
<1>2. Parent(p) \in Dirs \cup {Root} /\ Dirs \subseteq Paths
      /\ \A d \in Dirs : Parent(d) = Root
  BY NamespaceAssumption
<1>3. Len(Root) = 0 /\ \A d \in Dirs : Len(d) \in Nat /\ Len(d) >= 1 /\ Len(Parent(d)) = Len(d) - 1
  BY <1>2, PathParts DEF Root
<1>4. ASSUME NEW d \in Dirs PROVE Len(d) = 1
  <2>1. Parent(d) = Root /\ Len(d) \in Nat /\ Len(Parent(d)) = Len(d) - 1
    BY <1>2, <1>3
  <2> QED
    BY <2>1, <1>3
<1>5. Parent(p) = Root <=> Len(p) = 1
  BY <1>1, <1>2, <1>3, <1>4
<1>6. Len(p) \in {1, 2}
  BY <1>1, <1>2, <1>3, <1>4
<1>7. p[1] \in Names
  BY <1>1
<1>8. \A d \in Paths : Len(d) = 1 => d = <<d[1]>> /\ d[Len(d)] = d[1]
  BY PathParts
<1>9. p \in Dirs => p = <<p[1]>> /\ Name(p) = p[1]
  BY <1>4, <1>8 DEF Name, Last
<1>10. Parent(p) # Root => Parent(p) = <<p[1]>>
  <2> SUFFICES ASSUME Parent(p) # Root PROVE Parent(p) = <<p[1]>>
    OBVIOUS
  <2>1. Parent(p) \in Paths /\ Len(Parent(p)) = 1 /\ Len(p) = 2
    BY <1>1, <1>2, <1>4
  <2>2. Parent(p)[1] = p[1]
    BY <2>1, <1>1, AppendProperties
  <2> QED
    BY <2>1, <2>2, <1>8
<1> QED
  BY <1>1, <1>2, <1>5, <1>6, <1>7, <1>9, <1>10 DEF AllPaths

LEMMA WithinParts ==
    ASSUME NEW p \in Paths, NEW q \in Paths
    PROVE  Within(q, p) <=> q = p \/ Parent(q) = p
<1>1. /\ p \in Seq(Names) /\ q \in Seq(Names) /\ Len(p) \in {1, 2} /\ Len(q) \in {1, 2}
      /\ Len(Parent(q)) = Len(q) - 1
  BY TwoLevels, PathParts
<1>2. SubSeq(p, 1, Len(p)) = p
  <2>1. Len(p) \in 0..Len(p)
    BY <1>1
  <2> QED
    BY <1>1, <2>1, Beginning
<1>3. ASSUME q = p \/ Parent(q) = p PROVE Within(q, p)
  <2>1. CASE q = p
    BY <2>1, <1>1 DEF Within, IsPrefix
  <2>2. CASE Parent(q) = p
    BY <2>2, <1>1, <1>2 DEF Within, IsPrefix, Parent, Front
  <2> QED
    BY <1>3, <2>1, <2>2
<1>4. ASSUME Within(q, p) PROVE q = p \/ Parent(q) = p
  <2>1. Len(p) <= Len(q) /\ p = SubSeq(q, 1, Len(p))
    BY <1>1, <1>2, <1>4 DEF Within, IsPrefix
  <2>2. CASE Len(p) = Len(q)
    <3>1. Len(q) \in 0..Len(q)
      BY <1>1
    <3>2. SubSeq(q, 1, Len(q)) = q
      BY <1>1, <3>1, Beginning
    <3> QED
      BY <2>1, <2>2, <3>2
  <2>3. CASE Len(p) # Len(q)
    <3>1. Len(p) = Len(q) - 1
      <4>1. \A m, n \in {1, 2} : m <= n /\ m # n => m = n - 1
        OBVIOUS
      <4> QED
        BY <4>1, <1>1, <2>1, <2>3
    <3> QED
      BY <2>1, <3>1, SMTT(60) DEF Parent, Front
  <2> QED
    BY <2>2, <2>3
<1> QED
  BY <1>3, <1>4

LEMMA WithinRoot ==
    ASSUME NEW p \in Paths
    PROVE  ~Within(Root, p) /\ Within(p, Root)
<1>1. Len(p) \in Nat /\ Len(p) >= 1 /\ Len(Root) = 0 /\ p \in Seq(Names)
  BY PathParts DEF Root
<1>2. SubSeq(p, 1, 0) = << >> /\ SubSeq(Root, 1, 0) = << >>
  BY <1>1, SubSeqEmpty DEF Root
<1> QED
  BY <1>1, <1>2 DEF Within, IsPrefix

LEMMA DirParts ==
    ASSUME NEW d \in Dirs
    PROVE  /\ d \in Paths /\ d \in AllPaths /\ d # Root /\ Parent(d) = Root /\ d = <<Name(d)>>
           /\ Name(d) \in Names /\ d \in Seq(Names)
<1>1. d \in Paths
  BY NamespaceAssumption
<1> QED
  BY <1>1, TwoLevels, PathParts

\* Nothing but itself is below a leaf.
LEMMA LeafParts ==
    ASSUME NEW p \in Leaves
    PROVE  p \in Paths /\ p \notin Dirs /\ \A q \in Paths : Parent(q) # p /\ (Within(q, p) => q = p)
<1>1. p \in Paths /\ p \notin Dirs
  BY DEF Leaves
<1>2. \A q \in Paths : Parent(q) # p
  BY <1>1, TwoLevels
<1> QED
  BY <1>1, <1>2, WithinParts

\* What a path becomes when the path it is within becomes another.
LEMMA MovedParts ==
    ASSUME NEW p \in Paths, NEW q \in Paths, p \in Dirs <=> q \in Dirs, NEW r \in Paths, Within(r, p)
    PROVE  /\ Moved(r, p, q) \in Paths
           /\ r = p => Moved(r, p, q) = q
           /\ r # p => /\ Parent(r) = p /\ p \in Dirs /\ q \in Dirs /\ r \in Leaves
                       /\ Moved(r, p, q) = Append(q, Name(r))
                       /\ Parent(Moved(r, p, q)) = q /\ Name(Moved(r, p, q)) = Name(r)
                       /\ Moved(r, p, q) \in Leaves
           /\ r \in Dirs <=> Moved(r, p, q) \in Dirs
<1>1. /\ p \in Seq(Names) /\ q \in Seq(Names) /\ r \in Seq(Names)
      /\ Len(p) \in Nat /\ Len(r) \in Nat /\ Len(q) \in Nat
  BY PathParts
<1>2. CASE r = p
  <2>1. SubSeq(p, Len(p) + 1, Len(p)) = << >>
    BY <1>1, SubSeqEmpty
  <2>2. Moved(r, p, q) = q
    BY <1>1, <1>2, <2>1 DEF Moved
  <2> QED
    BY <1>2, <2>2
<1>3. CASE r # p
  <2>1. Parent(r) = p /\ p \in Dirs /\ q \in Dirs /\ r \notin Dirs
    <3>1. Parent(r) = p
      BY <1>3, WithinParts
    <3> QED
      BY <3>1, TwoLevels
  <2>2. Len(r) = Len(p) + 1 /\ Append(p, Name(r)) = r /\ Name(r) \in Names
    BY <2>1, PathParts
  <2>3. SubSeq(r, Len(p) + 1, Len(r)) = <<Name(r)>>
    <3>1. Len(p) \in 0..Len(r) /\ Len(r) - Len(p) = 1
      BY <2>2, <1>1
    <3>2. /\ SubSeq(r, Len(p) + 1, Len(r)) \in Seq(Names)
          /\ Len(SubSeq(r, Len(p) + 1, Len(r))) = 1
          /\ SubSeq(r, Len(p) + 1, Len(r))[1] = r[Len(p) + 1]
      BY <3>1, <1>1, Ending
    <3>3. r[Len(p) + 1] = Name(r)
      BY <2>2 DEF Name, Last
    <3>4. \A s \in Seq(Names) : Len(s) = 1 => s = <<s[1]>>
      OBVIOUS
    <3> QED
      BY <3>2, <3>3, <3>4
  <2>4. Moved(r, p, q) = Append(q, Name(r))
    BY <2>2, <2>3, <1>1 DEF Moved
  <2>5. Moved(r, p, q) \in Paths
    BY <2>1, NamespaceAssumption
  <2>6. Parent(Moved(r, p, q)) = q /\ Name(Moved(r, p, q)) = Name(r)
    BY <1>1, <2>2, <2>4, ChildParts
  <2>7. Moved(r, p, q) \notin Dirs
    BY <2>1, <2>6, DirParts
  <2> QED
    BY <1>3, <2>1, <2>4, <2>5, <2>6, <2>7 DEF Leaves
<1> QED
  BY <1>2, <1>3

\* A child of a directory is a leaf when the directory is one of Dirs.
LEMMA AppendParts ==
    ASSUME NEW d \in Dirs \cup {Root}, NEW n \in Names
    PROVE  /\ Parent(Append(d, n)) = d /\ Name(Append(d, n)) = n
           /\ d = Root => Append(d, n) = <<n>>
           /\ d # Root => Append(d, n) \notin Dirs
<1>1. d \in Seq(Names)
  BY DirParts, ParentOfRoot
<1>2. Parent(Append(d, n)) = d /\ Name(Append(d, n)) = n
  BY <1>1, ChildParts
<1>3. Append(Root, n) = <<n>>
  BY DEF Root
<1>4. d # Root => Append(d, n) \notin Dirs
  BY <1>2, DirParts
<1> QED
  BY <1>2, <1>3, <1>4

\* The same name in another directory is a path of the same kind.
LEMMA OtherDirectory ==
    ASSUME NEW p \in Paths, Parent(p) # Root, NEW d \in Dirs
    PROVE  Append(d, Name(p)) \in Leaves
<1>1. Parent(p) \in Dirs /\ Parent(p) \in Paths /\ p # Parent(p)
  BY TwoLevels
<1>2. Within(p, Parent(p)) /\ d \in Paths
  BY <1>1, WithinParts, DirParts
<1>3. Moved(p, Parent(p), d) = Append(d, Name(p)) /\ Moved(p, Parent(p), d) \in Leaves
  BY <1>1, <1>2, MovedParts
<1> QED
  BY <1>3

-----------------------------------------------------------------------------
(* What the steps leave alone.                                              *)

\* One conjunct for each action: what it does not write.
LEMMA Frames ==
    /\ \A p, sp : Create(p, sp) => UNCHANGED <<tree, shown, table, base, index, nodes, entries,
           blobs, handle, req>>
    /\ \A p, sp : Mkdir(p, sp) => UNCHANGED <<tree, shown, table, base, index, nodes, entries,
           blobs, handle, req>>
    /\ \A p, q, sp : Rename(p, q, sp) => UNCHANGED <<tree, shown, table, base, index, nodes,
           entries, blobs, handle, req>>
    /\ \A p : Unlink(p) => UNCHANGED <<tree, shown, table, base, index, nodes, entries, blobs,
           handle, req>>
    /\ \A p : Rmdir(p) => UNCHANGED <<tree, shown, table, base, index, nodes, entries, blobs,
           handle, req>>
    /\ \A p : OpenFile(p) => UNCHANGED <<tree, shown, table, base, index, nodes, entries,
           blobs, mut, req, changes>>
    /\ Flush => UNCHANGED <<tree, shown, store, table, base, index, nodes, entries, blobs,
           handle, req>>
    /\ Release => UNCHANGED <<tree, shown, store, table, base, index, nodes, entries, blobs,
           mut, req, changes>>
    /\ ChangeTree => UNCHANGED <<store, table, base, index, entries, blobs, handle, req,
           changes>>
    /\ ChangeInodes => UNCHANGED <<tree, shown, store, base, index, nodes, entries, blobs,
           handle, req, changes>>
    /\ TombstonePath => UNCHANGED <<tree, shown, store, table, base, nodes, entries, blobs,
           handle, req, changes>>
    /\ PublishChange => UNCHANGED <<tree, shown, store, base, nodes, entries, blobs, handle,
           req, changes>>
    /\ InvalidateListings => UNCHANGED <<tree, shown, store, table, base, index, nodes, req,
           changes>>
    /\ \A i : StartListing(i) => UNCHANGED <<tree, shown, store, table, base, index, nodes,
           entries, blobs, handle, mut, changes>>
    /\ \A i, n : StartLookup(i, n) => UNCHANGED <<tree, shown, store, table, base, index,
           nodes, entries, blobs, handle, mut, changes>>
    /\ \A i : StartGetattr(i) => UNCHANGED <<tree, shown, store, table, base, index, nodes,
           entries, blobs, handle, mut, changes>>
    /\ OverlaySection => UNCHANGED <<tree, shown, store, table, base, index, nodes, entries,
           blobs, handle, mut, changes>>
    /\ BaseSection => UNCHANGED <<tree, shown, store, table, base, index, nodes, entries,
           blobs, handle, mut, changes>>
    /\ NegativeSection => UNCHANGED <<tree, shown, store, table, base, index, nodes, entries,
           blobs, handle, mut, changes>>
    /\ TreeSection => UNCHANGED <<tree, shown, store, table, base, index, entries, blobs,
           handle, mut, changes>>
    /\ RecordMissing => UNCHANGED <<tree, shown, store, table, base, nodes, entries, blobs,
           handle, mut, changes>>
    /\ CreatePhantom => UNCHANGED <<tree, shown, store, table, base, index, nodes, entries,
           blobs, handle>>
    /\ FoundInode => UNCHANGED <<tree, shown, store, base, index, nodes, entries, blobs,
           handle, mut, changes>>
    /\ GetattrNode => UNCHANGED <<tree, shown, store, table, base, index, nodes, entries,
           blobs, handle, mut, changes>>
    /\ GetattrTree => UNCHANGED <<tree, shown, store, table, base, index, entries, blobs,
           handle, mut, changes>>
    /\ GetattrPath => UNCHANGED <<tree, shown, store, table, base, index, nodes, entries,
           blobs, handle, mut, changes>>
    /\ Heal => UNCHANGED <<tree, shown, store, base, nodes, entries, blobs, handle, mut,
           changes>>
    /\ CachedEntries => UNCHANGED <<tree, shown, store, table, base, index, nodes, entries,
           blobs, handle, mut, changes>>
    /\ BuildEntries => UNCHANGED <<tree, shown, store, base, index, nodes, entries, blobs,
           handle, mut, changes>>
    /\ KeepEntries => UNCHANGED <<tree, shown, store, table, base, index, nodes, blobs, handle,
           mut, changes>>
    /\ KeepBlob => UNCHANGED <<tree, shown, store, table, base, index, nodes, entries, handle,
           mut, changes>>
    /\ EndRequest => UNCHANGED <<tree, shown, store, table, base, index, nodes, entries, blobs,
           handle, mut, changes>>
    /\ ExpireNegative => UNCHANGED <<tree, shown, store, table, base, nodes, entries, blobs,
           handle, mut, req, changes>>
<1>1. \A p, sp : Create(p, sp) => UNCHANGED <<tree, shown, table, base, index, nodes, entries,
          blobs, handle, req>>
  BY DEF caches, Create
<1>2. \A p, sp : Mkdir(p, sp) => UNCHANGED <<tree, shown, table, base, index, nodes, entries,
          blobs, handle, req>>
  BY DEF caches, Mkdir
<1>3. \A p, q, sp : Rename(p, q, sp) => UNCHANGED <<tree, shown, table, base, index, nodes,
          entries, blobs, handle, req>>
  <2>1. ASSUME NEW p, NEW q, NEW sp, Rename(p, q, sp)
        PROVE  UNCHANGED <<tree, shown, table, base, index, caches, handle, req>>
    BY <2>1 DEF Rename
  <2> QED
    BY <2>1 DEF caches
<1>4. \A p : Unlink(p) => UNCHANGED <<tree, shown, table, base, index, nodes, entries, blobs,
          handle, req>>
  BY DEF caches, Unlink
<1>5. \A p : Rmdir(p) => UNCHANGED <<tree, shown, table, base, index, nodes, entries, blobs,
          handle, req>>
  BY DEF caches, Rmdir
<1>6. \A p : OpenFile(p) => UNCHANGED <<tree, shown, table, base, index, nodes, entries, blobs,
          mut, req, changes>>
  BY DEF caches, OpenFile
<1>7. Flush => UNCHANGED <<tree, shown, store, table, base, index, nodes, entries, blobs,
          handle, req>>
  BY DEF caches, Flush
<1>8. Release => UNCHANGED <<tree, shown, store, table, base, index, nodes, entries, blobs,
          mut, req, changes>>
  BY DEF caches, Release
<1>9. ChangeTree => UNCHANGED <<store, table, base, index, entries, blobs, handle, req,
          changes>>
  BY DEF caches, ChangeTree
<1>10. ChangeInodes => UNCHANGED <<tree, shown, store, base, index, nodes, entries, blobs,
          handle, req, changes>>
  BY DEF caches, ChangeInodes
<1>11. TombstonePath => UNCHANGED <<tree, shown, store, table, base, nodes, entries, blobs,
          handle, req, changes>>
  BY DEF caches, TombstonePath
<1>12. PublishChange => UNCHANGED <<tree, shown, store, base, nodes, entries, blobs, handle,
          req, changes>>
  BY DEF caches, PublishChange
<1>13. InvalidateListings => UNCHANGED <<tree, shown, store, table, base, index, nodes, req,
          changes>>
  BY DEF caches, InvalidateListings
<1>14. \A i : StartListing(i) => UNCHANGED <<tree, shown, store, table, base, index, nodes,
          entries, blobs, handle, mut, changes>>
  BY DEF caches, Start, StartListing
<1>15. \A i, n : StartLookup(i, n) => UNCHANGED <<tree, shown, store, table, base, index, nodes,
          entries, blobs, handle, mut, changes>>
  BY DEF caches, Start, StartLookup
<1>16. \A i : StartGetattr(i) => UNCHANGED <<tree, shown, store, table, base, index, nodes,
          entries, blobs, handle, mut, changes>>
  BY DEF caches, Start, StartGetattr
<1>17. OverlaySection => UNCHANGED <<tree, shown, store, table, base, index, nodes, entries,
          blobs, handle, mut, changes>>
  BY DEF caches, Section, OverlaySection
<1>18. BaseSection => UNCHANGED <<tree, shown, store, table, base, index, nodes, entries, blobs,
          handle, mut, changes>>
  BY DEF caches, Section, BaseSection
<1>19. NegativeSection => UNCHANGED <<tree, shown, store, table, base, index, nodes, entries,
          blobs, handle, mut, changes>>
  BY DEF caches, Section, NegativeSection
<1>20. TreeSection => UNCHANGED <<tree, shown, store, table, base, index, entries, blobs,
          handle, mut, changes>>
  BY DEF caches, TreeSection
<1>21. RecordMissing => UNCHANGED <<tree, shown, store, table, base, nodes, entries, blobs,
          handle, mut, changes>>
  BY DEF caches, RecordMissing
<1>22. CreatePhantom => UNCHANGED <<tree, shown, store, table, base, index, nodes, entries,
          blobs, handle>>
  BY DEF caches, CreatePhantom
<1>23. FoundInode => UNCHANGED <<tree, shown, store, base, index, nodes, entries, blobs, handle,
          mut, changes>>
  BY DEF caches, FoundInode
<1>24. GetattrNode => UNCHANGED <<tree, shown, store, table, base, index, nodes, entries, blobs,
          handle, mut, changes>>
  BY DEF caches, GetattrNode
<1>25. GetattrTree => UNCHANGED <<tree, shown, store, table, base, index, entries, blobs,
          handle, mut, changes>>
  BY DEF caches, GetattrTree
<1>26. GetattrPath => UNCHANGED <<tree, shown, store, table, base, index, nodes, entries, blobs,
          handle, mut, changes>>
  BY DEF caches, GetattrPath
<1>27. Heal => UNCHANGED <<tree, shown, store, base, nodes, entries, blobs, handle, mut,
          changes>>
  BY DEF caches, Heal
<1>28. CachedEntries => UNCHANGED <<tree, shown, store, table, base, index, nodes, entries,
          blobs, handle, mut, changes>>
  BY DEF caches, CachedEntries
<1>29. BuildEntries => UNCHANGED <<tree, shown, store, base, index, nodes, entries, blobs,
          handle, mut, changes>>
  BY DEF caches, BuildEntries
<1>30. KeepEntries => UNCHANGED <<tree, shown, store, table, base, index, nodes, blobs, handle,
          mut, changes>>
  BY DEF caches, KeepEntries
<1>31. KeepBlob => UNCHANGED <<tree, shown, store, table, base, index, nodes, entries, handle,
          mut, changes>>
  BY DEF caches, KeepBlob
<1>32. EndRequest => UNCHANGED <<tree, shown, store, table, base, index, nodes, entries, blobs,
          handle, mut, changes>>
  BY DEF caches, EndRequest
<1>33. ExpireNegative => UNCHANGED <<tree, shown, store, table, base, nodes, entries, blobs,
          handle, mut, req, changes>>
  BY DEF caches, ExpireNegative
<1> QED
  BY <1>1, <1>2, <1>3, <1>4, <1>5, <1>6, <1>7, <1>8, <1>9, <1>10, <1>11, <1>12, <1>13, <1>14,
      <1>15, <1>16, <1>17, <1>18, <1>19, <1>20, <1>21, <1>22, <1>23, <1>24, <1>25, <1>26, <1>27,
      <1>28, <1>29, <1>30, <1>31, <1>32, <1>33

LEMMA Spelt == Spells \subseteq Spellings /\ AnySpelling \in Spellings
BY PathsAssumption DEF Spells, AnySpelling

\* Which actions write a variable.
LEMMA Writers ==
    ASSUME Next
    PROVE  /\ UNCHANGED <<tree, shown>> \/ ChangeTree
           /\ \/ UNCHANGED store
              \/ \E p \in Paths, sp \in Spells : Create(p, sp) \/ Mkdir(p, sp)
              \/ \E p, q \in Paths, sp \in Spells : Rename(p, q, sp)
              \/ \E p \in Paths : Unlink(p) \/ Rmdir(p) \/ OpenFile(p)
           /\ UNCHANGED handle \/ (\E p \in Paths : OpenFile(p)) \/ Release \/ InvalidateListings
           /\ UNCHANGED table \/ ChangeInodes \/ PublishChange \/ FoundInode \/ Heal \/ BuildEntries
           /\ UNCHANGED base
           /\ UNCHANGED index \/ TombstonePath \/ PublishChange \/ RecordMissing \/ Heal
                 \/ ExpireNegative
           /\ UNCHANGED nodes \/ ChangeTree \/ TreeSection \/ GetattrTree
           /\ UNCHANGED entries \/ InvalidateListings \/ KeepEntries
           /\ UNCHANGED blobs \/ InvalidateListings \/ KeepBlob
<1>1. Change \/ Request \/ ExpireNegative
  BY DEF Next
<1>2. CASE Change
  <2>1. CASE \E p \in Paths, sp \in Spells : Create(p, sp) \/ Mkdir(p, sp)
    BY <2>1, Frames, Zenon
  <2>2. CASE \E p, q \in Paths, sp \in Spells : Rename(p, q, sp)
    BY <2>2, Frames, Zenon
  <2>4. CASE \E p \in Paths : Unlink(p) \/ Rmdir(p)
    BY <2>4, Frames, Zenon
  <2>5. CASE \E p \in Paths : OpenFile(p)
    BY <2>5, Frames, Zenon
  <2>6. CASE Flush \/ Release
    BY <2>6, Frames, Zenon
  <2>3. CASE ChangeTree \/ ChangeInodes \/ TombstonePath \/ PublishChange \/ InvalidateListings
    BY <2>3, Frames, Zenon
  <2> QED
    BY <1>2, <2>1, <2>2, <2>3, <2>4, <2>5, <2>6, Zenon DEF Change
<1>3. CASE Request
  BY <1>3, Frames, Zenon DEF Request
<1>4. CASE ExpireNegative
  BY <1>4, Frames, Zenon
<1> QED
  BY <1>1, <1>2, <1>3, <1>4

-----------------------------------------------------------------------------
(* What the variables are.                                                  *)

MutKinds == {"create", "flush", "mkdir", "phantom", "unlink", "rmdir", "rename"}
MutSteps == {"none", "tree", "inodes", "tombstone", "publish", "listings"}
LookupSteps  == {"overlay", "base", "negative", "tree", "unknown", "inode", "heal", "replied"}
GetattrSteps == {"node", "stat", "path", "heal", "replied"}
ListingSteps == {"entries", "build", "keep", "blob", "replied"}

MutRecord ==
    [kind : MutKinds \cup {"none"}, step : MutSteps, path : Spelled, to : Spelled,
     what : What \cup {"absent"}, ino : 0..MaxIno, dirs : SUBSET Ino]

ReqRecord ==
    [kind : {"lookup", "getattr", "listing"},
     step : LookupSteps \cup GetattrSteps \cup ListingSteps,
     ino : Ino, name : Names \cup {"none"}, dirs : SUBSET Ino,
     what : What \cup {"absent"}, answer : 0..MaxIno, names : SUBSET Names,
     path : Spelled, version : Nat \X MutSteps]

\* A directory that holds something is there.
TreeSound ==
    /\ tree \in [Paths -> What \cup {"absent"}]
    /\ \A p \in Paths : tree[p] # "absent" =>
          (tree[p] = "dir" <=> p \in Dirs) /\ IsDir(Parent(p))
    /\ shown \in [{p \in Paths : Parent(p) = Root} -> Spellings \cup {"none"}]
    /\ store \subseteq Paths
    /\ handle = Idle \/ (handle \in Spelled /\ handle.key \in Leaves)

IsDirIno(i) == table.path[i] = NoPath \/ table.path[i].key \in Dirs

\* The names of directories lead to inodes of directories.
TablesSound ==
    /\ TableSound(table) /\ base \in Base /\ IndexSound(base, index)
    /\ \A k \in Key : index.child[k] < table.next /\ base.child[k] < table.next
    /\ \A n \in Names : <<n>> \in Dirs =>
          \A i \in {index.child[<<1, n>>], base.child[<<1, n>>]} \ {0} : IsDirIno(i)

\* A cached node is in the tree, under the path of its inode if that has one.
NodesSound ==
    /\ nodes \in [Ino -> Paths \cup {NoPath, Dangling}]
    /\ \A i \in Ino : nodes[i] # NoPath => i < table.next
    /\ \A i \in Ino : nodes[i] \in Paths =>
          /\ tree[nodes[i]] # "absent"
          /\ table.path[i] # NoPath => table.path[i].key = nodes[i]

CachesSound ==
    \A cache \in {entries, blobs} :
        /\ DOMAIN cache = SpelledDirs /\ cache = [s \in SpelledDirs |-> cache[s]]
        /\ \A s \in SpelledDirs : cache[s] = NoListing \/ cache[s] \subseteq Names

\* What the change that is going on is about, by its kind and its step.
MutSound ==
    /\ mut \in MutRecord
    /\ (mut.step = "none" \/ mut.kind = "none") => mut = NoChange
    /\ mut.kind = "create" => /\ mut.path.key \in Leaves /\ mut.what = "empty"
                              /\ mut.step \in {"tree", "publish", "listings"}
    /\ mut.kind = "flush"  => /\ mut.path.key \in Leaves /\ mut.what = "written"
                              /\ mut.step \in {"tree", "publish"}
    /\ mut.kind \in {"mkdir", "phantom"} =>
          /\ mut.path.key \in Dirs /\ mut.what = "dir"
          /\ mut.step \in {"tree", "publish", "listings"}
    /\ mut.kind = "unlink" => /\ mut.path.key \in Leaves /\ mut.what = "absent"
                              /\ mut.step \in {"tree", "tombstone", "listings"}
    /\ mut.kind = "rmdir"  => /\ mut.path.key \in Dirs /\ mut.what = "absent"
                              /\ mut.step \in {"tree", "tombstone", "listings"}
    /\ mut.kind = "rename" =>
          /\ mut.path.key \in Paths /\ mut.to.key \in Paths /\ mut.path.key # mut.to.key
          /\ mut.path.key \in Dirs <=> mut.to.key \in Dirs
          /\ mut.what \in What /\ (mut.what = "dir" <=> mut.path.key \in Dirs)
          /\ mut.step \in {"tree", "inodes", "tombstone", "publish", "listings"}
    /\ mut.kind # "rename" => mut.to = RootPath
    /\ mut.ino < table.next
    /\ mut.step = "inodes" =>
          /\ mut.ino # 0 => table.ino[mut.path.key] = mut.ino
          /\ \A q \in Below(mut.path.key) : tree[q] = "absent"
    /\ mut.kind = "rename" /\ mut.step \in {"tombstone", "publish"} /\ mut.ino # 0 =>
          table.ino[mut.to.key] = mut.ino

\* What the request that is going on is about, by its kind and its step.
ReqSound ==
    req # Idle =>
    /\ req \in ReqRecord /\ req.ino < table.next
    /\ req.kind = "lookup" =>
          /\ req.step \in LookupSteps /\ req.name \in Names
          /\ table.path[req.ino] # NoPath => Append(table.path[req.ino].key, req.name) \in Paths
          /\ nodes[req.ino] \in Paths => Append(nodes[req.ino], req.name) \in Paths
    /\ req.kind = "getattr" => req.step \in GetattrSteps /\ req.ino # 1
    /\ req.kind = "listing" => req.step \in ListingSteps /\ req.path \in SpelledDirs
    /\ req.step \in {"inode", "path"} => req.what \in What
    /\ req.step = "heal" =>
          /\ req.path.key \in Paths /\ req.answer # 0 /\ req.answer < table.next
          /\ req.what \in What
          /\ req.path.key \in Dirs => IsDirIno(req.answer)

SeenSound ==
    late \subseteq Paths /\ revived \subseteq Paths /\ misfiled \subseteq AllPaths /\ changes \in Nat

Sound ==
    /\ TreeSound /\ TablesSound /\ NodesSound /\ CachesSound /\ MutSound /\ ReqSound /\ SeenSound

-----------------------------------------------------------------------------
(* Tables that only grow, names that are published.                         *)

\* The inodes in t are those in u, which may have more.
Grown(t, u) ==
    /\ TableSound(u) /\ t.next <= u.next
    /\ \A p \in AllPaths : t.ino[p] # 0 => u.ino[p] = t.ino[p]
    /\ \A i \in Ino : i < t.next => u.path[i] = t.path[i]

LEMMA GrownTwice ==
    ASSUME NEW t, NEW u, NEW v, TableSound(t), Grown(t, u), Grown(u, v)
    PROVE  Grown(t, v)
<1>1. t.next \in Nat /\ u.next \in Nat /\ v.next \in Nat
  BY TableParts DEF Grown
<1>2. \A i \in Ino : i < t.next => i < u.next
  BY <1>1 DEF Grown, Ino
<1> QED
  BY <1>1, <1>2 DEF Grown

LEMMA GrownSame == ASSUME NEW t, TableSound(t) PROVE Grown(t, t)
BY TableParts DEF Grown

LEMMA GetOrCreateGrown ==
    ASSUME NEW t, TableSound(t), NEW s \in Spelled, Room(GetOrCreate(t, s), 0)
    PROVE  LET u == GetOrCreate(t, s)
           IN  /\ Grown(t, u) /\ u.ino[s.key] \in Ino /\ u.ino[s.key] < u.next
               /\ u.ino[s.key] # 0 /\ u.path[u.ino[s.key]] # NoPath
               /\ u.path[u.ino[s.key]].key = s.key
               /\ \A p \in AllPaths : p # s.key => u.ino[p] = t.ino[p]
               /\ t.ino[s.key] = 0 => u.ino[s.key] = t.next
<1> DEFINE u == GetOrCreate(t, s)
<1>1. t.next \in Nat /\ MaxIno \in Nat /\ s.key \in AllPaths
  BY TableParts, PathsAssumption DEF Spelled
<1>2. t.ino[s.key] = 0 => u.next = t.next + 1 /\ Room(t, 1)
  BY <1>1 DEF GetOrCreate, Room
<1>3. /\ TableSound(u)
      /\ u.ino[s.key] \in Ino /\ u.path[u.ino[s.key]] # NoPath
      /\ u.path[u.ino[s.key]].key = s.key
      /\ \A p \in AllPaths : p # s.key => u.ino[p] = t.ino[p]
      /\ t.ino[s.key] # 0 => u = t
      /\ \A i \in Ino : i # t.next => u.path[i] = t.path[i]
      /\ t.next <= u.next
  BY <1>2, GetOrCreateSound
<1>4. \A i \in Ino : i < t.next => i # t.next
  BY <1>1 DEF Ino
<1>5. t.ino[s.key] = 0 => u.ino[s.key] = t.next
  BY <1>1, TableParts DEF GetOrCreate, Table
<1>6. u.ino[s.key] < u.next /\ u.ino[s.key] # 0
  BY <1>1, <1>3, TableParts DEF Ino
<1> QED
  BY <1>1, <1>3, <1>4, <1>5, <1>6 DEF Grown

LEMMA ParentPathParts ==
    ASSUME NEW s \in Spelled, s.key \in Paths
    PROVE  ParentPath(s) \in Spelled /\ ParentPath(s).key = Parent(s.key)
<1>1. Parent(s.key) \in AllPaths
  BY PathsAssumption
<1> QED
  BY <1>1 DEF ParentPath, Spelled

\* The inode ino of what is at s is published: the index finds it in the directory
\* of s, which has an inode by then.
Published(s, ino, what) ==
    LET k    == <<table'.ino[Parent(s.key)], Name(s.key)>>
        node == [path |-> s, what |-> what]
    IN  /\ s \in Spelled /\ s.key \in Paths /\ ino \in Ino /\ what \in What
        /\ k \in Key /\ node \in Node /\ table'.ino[Parent(s.key)] < table'.next
        /\ table'.ino[Parent(s.key)] # 0
        /\ IndexSound(base, index')
        /\ index'.child = [index.child EXCEPT ![k] = ino]
        /\ index'.tombstones = index.tombstones \ {k}
        /\ index'.node = [index.node EXCEPT ![ino] = node]
        /\ index'.hidden = index.hidden \ {ino}
        /\ index'.negative = index.negative \ {k}

LEMMA PublishedParts ==
    ASSUME NEW t, TableSound(t), IndexSound(base, index), NEW s \in Spelled, s.key \in Paths,
           NEW ino \in Ino, NEW what \in What, PublishPath(t, s, ino, what)
    PROVE  /\ Grown(t, table') /\ Published(s, ino, what)
           /\ \A p \in AllPaths : p # Parent(s.key) => table'.ino[p] = t.ino[p]
           /\ t.ino[Parent(s.key)] = 0 => table'.ino[Parent(s.key)] = t.next
<1> DEFINE k    == <<table'.ino[Parent(s.key)], Name(s.key)>>
           node == [path |-> s, what |-> what]
<1>1. ParentPath(s) \in Spelled /\ ParentPath(s).key = Parent(s.key) /\ Name(s.key) \in Names
  BY ParentPathParts, PathParts
<1>2. table' = GetOrCreate(t, ParentPath(s)) /\ Room(table', 0)
      /\ index' = Publish(index, k, ino, node)
  BY DEF PublishPath
<1>3. /\ Grown(t, table') /\ table'.ino[Parent(s.key)] \in Ino
      /\ table'.ino[Parent(s.key)] < table'.next
      /\ \A p \in AllPaths : p # Parent(s.key) => table'.ino[p] = t.ino[p]
      /\ t.ino[Parent(s.key)] = 0 => table'.ino[Parent(s.key)] = t.next
  BY <1>1, <1>2, GetOrCreateGrown
<1>4. k \in Key /\ table'.ino[Parent(s.key)] # 0
  BY <1>1, <1>3 DEF Key, Ino
<1>5. node \in Node
  BY DEF Node
<1> HIDE DEF k, node
<1>6. /\ IndexSound(base, index')
      /\ index'.child = [index.child EXCEPT ![k] = ino]
      /\ index'.tombstones = index.tombstones \ {k}
      /\ index'.node = [index.node EXCEPT ![ino] = node]
      /\ index'.hidden = index.hidden \ {ino}
      /\ index'.negative = index.negative \ {k}
  BY <1>2, <1>4, <1>5, PublishSound
<1> QED
  BY <1>3, <1>4, <1>5, <1>6 DEF k, node, Published

-----------------------------------------------------------------------------
(* What lookups in the index lead to.                                       *)

LEMMA HitParts ==
    ASSUME TablesSound, NEW i \in Ino, NEW n \in Names
    PROVE  /\ HitOf(i, n).ino \in 0..MaxIno /\ HitOf(i, n).ino < table.next
           /\ HitOf(i, n).ino \in {0, index.child[<<i, n>>], base.child[<<i, n>>]}
<1> DEFINE k == <<i, n>>
<1>1. k \in Key
  BY DEF Key
<1>2. /\ index.child[k] \in 0..MaxIno /\ index.child[k] < table.next
      /\ base.child[k] \in 0..MaxIno /\ base.child[k] < table.next
      /\ 0 \in 0..MaxIno /\ 0 < table.next
  <2>1. index \in Index /\ base \in Base /\ TableSound(table) /\ table.next \in Nat /\ table.next >= 2
    BY TableParts DEF TablesSound, IndexSound, Alike, TableSound
  <2>2. index.child[k] \in 0..MaxIno /\ base.child[k] \in 0..MaxIno
    BY <1>1, <2>1, IndexParts DEF Base
  <2> QED
    BY <1>1, <2>1, <2>2, PathsAssumption DEF TablesSound
<1>3. HitOf(i, n).ino \in {0, index.child[k], base.child[k]}
  BY DEF HitOf, Lookup, LookupOverlay, LookupBase, LookupNegative, Found, NotFound
<1> QED
  BY <1>2, <1>3

LEMMA DirInoParts ==
    ASSUME TablesSound, NEW p \in Dirs \cup {Root}, DirIno(p) # 0
    PROVE  /\ DirIno(p) \in Ino /\ DirIno(p) < table.next
           /\ p = Root => DirIno(p) = 1
           /\ p # Root => IsDirIno(DirIno(p))
           /\ \/ table.path[DirIno(p)] = NoPath
              \/ /\ table.path[DirIno(p)] \in Spelled
                 /\ table.path[DirIno(p)].key \in Dirs \cup {Root}
                 /\ p = Root <=> table.path[DirIno(p)].key = Root
<1>1. TableSound(table)
  BY DEF TablesSound
<1>2. CASE p = Root
  <2>1. DirIno(p) = 1
    BY <1>2 DEF DirIno
  <2> QED
    BY <1>1, <1>2, <2>1, TableParts DEF TableSound
<1>3. CASE p # Root
  <2>1. p \in Dirs /\ p = <<p[1]>> /\ p[1] \in Names /\ 1 \in Ino
    BY <1>1, <1>3, TwoLevels, DirParts, TableParts
  <2>2. DirIno(p) = HitOf(1, p[1]).ino
    BY <1>3 DEF DirIno
  <2>3. /\ DirIno(p) \in 0..MaxIno /\ DirIno(p) < table.next
        /\ DirIno(p) \in {index.child[<<1, p[1]>>], base.child[<<1, p[1]>>]} \ {0}
    BY <2>1, <2>2, HitParts
  <2>4. DirIno(p) \in Ino
    BY <2>3, PathsAssumption DEF Ino
  <2>5. IsDirIno(DirIno(p))
    BY <2>1, <2>3 DEF TablesSound
  <2>6. table.path[DirIno(p)] \in Spelled \cup {NoPath}
    BY <1>1, <2>4, TableParts
  <2>7. \A d \in Dirs : d # Root
    BY DirParts
  <2> QED
    BY <1>3, <2>3, <2>4, <2>5, <2>6, <2>7 DEF IsDirIno
<1> QED
  BY <1>2, <1>3

LEMMA CanonicalParts ==
    ASSUME TreeSound, NEW s \in Spelled, NEW n \in Names, NEW sp \in Spellings,
           Append(s.key, n) \in Paths
    PROVE  Canonical(s, n, sp) \in Spelled /\ Canonical(s, n, sp).key = Append(s.key, n)
<1>1. Append(s.key, n) \in AllPaths /\ s.sp \in Spellings
  BY DEF AllPaths, Spelled
<1>2. ASSUME s.key = Root PROVE <<n>> \in DOMAIN shown /\ shown[<<n>>] \in Spellings \cup {"none"}
  <2>1. <<n>> = Append(Root, n)
    BY DEF Root
  <2>2. Parent(<<n>>) = Root /\ <<n>> \in Paths
    BY <1>2, <2>1, ChildParts, ParentOfRoot
  <2> QED
    BY <2>2 DEF TreeSound
<1> QED
  BY <1>1, <1>2 DEF Canonical, Spelled

-----------------------------------------------------------------------------
(* The inode table.                                                         *)

\* A rename of inodes: those of the path and of what is below it get the new path,
\* those which had it lose theirs.
LEMMA InodesStep ==
    ASSUME Sound, ChangeInodes
    PROVE  LET below == {p \in Paths : Within(p, mut.path.key) /\ table.ino[p] # 0}
               to(p) == Moved(p, mut.path.key, mut.to.key)
           IN  /\ mut.kind = "rename" /\ mut.path.key \in Paths /\ mut.to.key \in Paths
               /\ mut.path.key \in Dirs <=> mut.to.key \in Dirs
               /\ mut.path.key # mut.to.key
               /\ TableSound(table') /\ table'.next = table.next
               /\ \A p \in below : /\ to(p) \in Paths /\ table'.ino[to(p)] = table.ino[p]
                                   /\ table'.path[table.ino[p]] = [key |-> to(p), sp |-> mut.to.sp]
               /\ \A p \in below : (\A q \in below : to(q) # p) => table'.ino[p] = 0
               /\ \A q \in AllPaths : q \notin below /\ (\A p \in below : to(p) # q) =>
                     table'.ino[q] = table.ino[q]
               /\ \A i \in Ino : (\A p \in below : table.ino[p] # i) =>
                     table'.path[i] = IF \E p \in below : table.ino[to(p)] = i THEN NoPath
                                      ELSE table.path[i]
               /\ mut.ino # 0 => table'.ino[mut.to.key] = mut.ino
<1> DEFINE below == {p \in Paths : Within(p, mut.path.key) /\ table.ino[p] # 0}
           to(p) == Moved(p, mut.path.key, mut.to.key)
<1>1. /\ TableSound(table) /\ mut.path \in Spelled /\ mut.to \in Spelled
      /\ mut.step = "inodes" /\ mut.kind = "rename"
  <2>1. TableSound(table) /\ mut.step = "inodes"
    BY DEF Sound, TablesSound, ChangeInodes
  <2>2. mut.path \in Spelled /\ mut.to \in Spelled /\ mut.kind \in MutKinds \cup {"none"}
    BY DEF Sound, MutSound, MutRecord
  <2>3. mut.kind # "none"
    BY <2>1 DEF Sound, MutSound, NoChange
  <2> QED
    BY <2>1, <2>2, <2>3 DEF Sound, MutSound, MutKinds
<1>2. /\ mut.path.key \in Paths /\ mut.to.key \in Paths /\ mut.path.key # mut.to.key
      /\ mut.path.key \in Dirs <=> mut.to.key \in Dirs
      /\ mut.ino # 0 => table.ino[mut.path.key] = mut.ino
  BY <1>1 DEF Sound, MutSound
<1>3. table' = RenameInode(table, mut.path, mut.to)
  BY DEF ChangeInodes
<1>4. \A r \in Paths : Within(r, mut.path.key) => Moved(r, mut.path.key, mut.to.key) \in Paths
  BY <1>2, MovedParts
<1>5. below = {p \in AllPaths : Within(p, mut.path.key) /\ table.ino[p] # 0}
  BY <1>2, WithinRoot DEF AllPaths
<1>6. mut.ino # 0 => mut.path.key \in below /\ to(mut.path.key) = mut.to.key
  BY <1>2, WithinParts, MovedParts
<1> HIDE DEF below
<1>7. /\ TableSound(table') /\ table'.next = table.next
      /\ \A p \in below : /\ to(p) \in Paths /\ table'.ino[to(p)] = table.ino[p]
                          /\ table'.path[table.ino[p]] = [key |-> to(p), sp |-> mut.to.sp]
      /\ \A p \in below : (\A q \in below : to(q) # p) => table'.ino[p] = 0
      /\ \A q \in AllPaths : q \notin below /\ (\A p \in below : to(p) # q) =>
            table'.ino[q] = table.ino[q]
      /\ \A i \in Ino : (\A p \in below : table.ino[p] # i) =>
            table'.path[i] = IF \E p \in below : table.ino[to(p)] = i THEN NoPath
                             ELSE table.path[i]
  <2> DEFINE moving == {p \in AllPaths : Within(p, mut.path.key) /\ table.ino[p] # 0}
  <2>1. /\ TableSound(table') /\ table'.next = table.next
        /\ \A p \in moving : /\ to(p) \in Paths /\ table'.ino[to(p)] = table.ino[p]
                             /\ table'.path[table.ino[p]] = [key |-> to(p), sp |-> mut.to.sp]
        /\ \A p \in moving : (\A q \in moving : to(q) # p) => table'.ino[p] = 0
        /\ \A q \in AllPaths : q \notin moving /\ (\A p \in moving : to(p) # q) =>
              table'.ino[q] = table.ino[q]
        /\ \A i \in Ino : (\A p \in moving : table.ino[p] # i) =>
              table'.path[i] = IF \E p \in moving : table.ino[to(p)] = i THEN NoPath
                               ELSE table.path[i]
    BY <1>1, <1>2, <1>3, <1>4, RenameInodeSound, SMTT(60)
  <2>2. moving = below
    BY <1>5
  <2> HIDE DEF moving
  <2> QED
    BY <2>1, <2>2, Zenon
<1> HIDE DEF to
<1>8. mut.ino # 0 => table'.ino[mut.to.key] = mut.ino
  BY <1>2, <1>6, <1>7
<1> QED
  BY <1>1, <1>2, <1>7, <1>8 DEF below, to

\* What becomes of the path of an inode.
LEMMA InodesPath ==
    ASSUME Sound, ChangeInodes, NEW i \in Ino
    PROVE  \/ table'.path[i] = table.path[i]
           \/ table'.path[i] = NoPath
           \/ /\ table.path[i] # NoPath /\ table.path[i].key \in Paths
              /\ Within(table.path[i].key, mut.path.key)
              /\ table'.path[i] # NoPath /\ table'.path[i].sp = mut.to.sp
              /\ table'.path[i].key = Moved(table.path[i].key, mut.path.key, mut.to.key)
              /\ table'.path[i].key \in Paths
<1> DEFINE below == {p \in Paths : Within(p, mut.path.key) /\ table.ino[p] # 0}
           to(p) == Moved(p, mut.path.key, mut.to.key)
<1>1. /\ TableSound(table) /\ TableSound(table')
      /\ \A p \in below : /\ to(p) \in Paths
                          /\ table'.path[table.ino[p]] = [key |-> to(p), sp |-> mut.to.sp]
      /\ (\A p \in below : table.ino[p] # i) =>
            table'.path[i] = IF \E p \in below : table.ino[to(p)] = i THEN NoPath
                             ELSE table.path[i]
  BY InodesStep DEF Sound, TablesSound
<1>2. ASSUME NEW p \in below, table.ino[p] = i
      PROVE  /\ table.path[i] # NoPath /\ table.path[i].key = p
             /\ table'.path[i] # NoPath /\ table'.path[i].sp = mut.to.sp
             /\ table'.path[i].key = to(p)
  <2>1. table.path[i] # NoPath /\ table.path[i].key = p
    BY <1>1, <1>2, TableParts DEF TableAgrees, AllPaths
  <2>2. table'.path[i] = [key |-> to(p), sp |-> mut.to.sp] /\ to(p) \in AllPaths
    BY <1>1, <1>2 DEF AllPaths
  <2>3. mut.to.sp \in Spellings
    BY DEF Sound, MutSound, MutRecord, Spelled
  <2>4. table'.path[i] \in [key : AllPaths, sp : Spellings] /\ table'.path[i].sp = mut.to.sp
        /\ table'.path[i].key = to(p)
    BY <2>2, <2>3
  <2> QED
    BY <2>1, <2>4, PathsAssumption
<1> QED
  BY <1>1, <1>2

\* A directory that is listed: its children all have inodes.
LEMMA BuildParts ==
    ASSUME Sound, BuildEntries
    PROVE  /\ Grown(table, table')
           /\ req'.step # "replied" =>
                /\ IsDir(req.path.key)
                /\ req' = [req EXCEPT !.step = "keep", !.names = {Name(q) : q \in Children(req.path.key)}]
           /\ req'.step = "replied" => /\ req' = [req EXCEPT !.step = "replied", !.answer = 0]
                                       /\ UNCHANGED table /\ ~IsDir(req.path.key)
           /\ \A p \in AllPaths : table'.ino[p] = table.ino[p] \/ table'.ino[p] >= table.next
           /\ req.path \in SpelledDirs /\ req # Idle /\ req \in ReqRecord /\ req.kind = "listing"
           /\ req.step = "build"
<1> DEFINE children == Children(req.path.key)
           lacking  == {q \in children : table.ino[q] = 0}
           fresh    == SetToSeq(lacking)
           paths    == [n \in DOMAIN fresh |-> Canonical(req.path, Name(fresh[n]), AnySpelling)]
<1>1. /\ req # Idle /\ req \in ReqRecord /\ req.step = "build" /\ req.path \in SpelledDirs
      /\ req.path \in Spelled /\ req.path.key \in Dirs \cup {Root} /\ req.kind = "listing"
      /\ TableSound(table) /\ TreeSound
  BY DEF Sound, ReqSound, BuildEntries, TablesSound, ReqRecord, LookupSteps, GetattrSteps, SpelledDirs
<1>2. CASE ~IsDir(req.path.key)
  <2>1. UNCHANGED table /\ req' = [req EXCEPT !.step = "replied", !.answer = 0]
    BY <1>2 DEF BuildEntries, Reply
  <2>2. req'.step = "replied" /\ Grown(table, table')
    BY <1>1, <2>1, GrownSame DEF ReqRecord
  <2> QED
    BY <1>1, <1>2, <2>1, <2>2
<1>3. CASE IsDir(req.path.key)
  <2>1. GetOrCreate(table, ParentPath(req.path)) = table
    <3>1. Parent(req.path.key) = Root
      BY <1>1, DirParts, ParentOfRoot
    <3>2. ParentPath(req.path).key = Root
      BY <1>1, <3>1 DEF ParentPath, Spelled
    <3> QED
      BY <1>1, <3>2 DEF GetOrCreate, TableSound
  <2>2. /\ Room(table, Cardinality(children) + 1) /\ table' = Numbered(table, paths)
        /\ req' = [req EXCEPT !.step = "keep", !.names = {Name(q) : q \in children}]
    BY <1>3, <2>1 DEF BuildEntries
  <2>3. /\ IsFiniteSet(lacking) /\ IsFiniteSet(children)
        /\ Cardinality(lacking) <= Cardinality(children)
        /\ Cardinality(lacking) \in Nat /\ Cardinality(children) \in Nat
    <3>1. children \subseteq Paths /\ lacking \subseteq children
      BY DEF Children
    <3>2. IsFiniteSet(children)
      BY <3>1, PathsAssumption, FS_Subset
    <3> HIDE DEF children, lacking
    <3> QED
      BY <3>1, <3>2, FS_Subset, FS_CardinalityType
  <2>4. /\ Len(fresh) = Cardinality(lacking) /\ Len(fresh) \in Nat /\ DOMAIN fresh = 1..Len(fresh)
        /\ \A n \in DOMAIN fresh : fresh[n] \in lacking
        /\ \A m, n \in DOMAIN fresh : fresh[m] = fresh[n] => m = n
    <3> HIDE DEF lacking
    <3> QED
      BY <2>3, SetToSeqParts
  <2> HIDE DEF fresh
  <2>5. \A n \in DOMAIN fresh : paths[n] \in Spelled /\ paths[n].key = fresh[n]
    <3> TAKE n \in DOMAIN fresh
    <3>1. fresh[n] \in Paths /\ Parent(fresh[n]) = req.path.key
      BY <2>4 DEF Children
    <3>2. Append(req.path.key, Name(fresh[n])) = fresh[n] /\ Name(fresh[n]) \in Names
      BY <3>1, PathParts
    <3> QED
      BY <1>1, <3>1, <3>2, Spelt, CanonicalParts
  <2>6. paths \in Seq(Spelled) /\ Len(paths) = Len(fresh) /\ DOMAIN paths = DOMAIN fresh
    <3>1. paths \in [1..Len(fresh) -> Spelled]
      BY <2>4, <2>5
    <3> HIDE DEF paths
    <3>2. \A n \in Nat : \A s \in [1..n -> Spelled] : s \in Seq(Spelled) /\ Len(s) = n
      OBVIOUS
    <3>3. Len(fresh) \in Nat /\ DOMAIN fresh = 1..Len(fresh) /\ DOMAIN paths = 1..Len(fresh)
      BY <2>4, <3>1
    <3> QED
      BY <3>1, <3>2, <3>3
  <2>7. table.next + Len(paths) <= MaxIno + 1
    BY <1>1, <2>2, <2>3, <2>4, <2>6, TableParts, PathsAssumption DEF Room
  <2>8. /\ \A n \in DOMAIN paths : table.ino[paths[n].key] = 0
        /\ \A m, n \in DOMAIN paths : paths[m].key = paths[n].key => m = n
    <3> HIDE DEF paths
    <3>1. \A n \in DOMAIN fresh : table.ino[fresh[n]] = 0
      BY <2>4
    <3>2. \A n \in DOMAIN paths : n \in DOMAIN fresh /\ paths[n].key = fresh[n]
      BY <2>5, <2>6
    <3>3. \A n \in DOMAIN paths : table.ino[paths[n].key] = 0
      BY <3>1, <3>2
    <3>4. ASSUME NEW m \in DOMAIN paths, NEW n \in DOMAIN paths, paths[m].key = paths[n].key
          PROVE  m = n
      BY <2>4, <3>2, <3>4
    <3> QED
      BY <3>3, <3>4
  <2> HIDE DEF paths, children
  <2>9. /\ TableSound(table') /\ table'.next = table.next + Len(paths)
        /\ \A n \in DOMAIN paths : table'.ino[paths[n].key] = table.next - 1 + n
        /\ \A p \in AllPaths : (\A n \in DOMAIN paths : paths[n].key # p) =>
              table'.ino[p] = table.ino[p]
        /\ \A i \in Ino : i < table.next => table'.path[i] = table.path[i]
    <3> DEFINE u == Numbered(table, paths)
    <3>1. /\ TableSound(u) /\ u.next = table.next + Len(paths)
          /\ \A n \in DOMAIN paths : u.ino[paths[n].key] = table.next - 1 + n
          /\ \A p \in AllPaths : (\A n \in DOMAIN paths : paths[n].key # p) =>
                u.ino[p] = table.ino[p]
          /\ \A i \in Ino : i < table.next => u.path[i] = table.path[i]
      BY <1>1, <2>6, <2>7, <2>8, NumberedSound, SMTT(120)
    <3>2. table' = u
      BY <2>2
    <3> QED
      BY <3>1, <3>2, Zenon
  <2>10. Grown(table, table')
    <3>1. table.next <= table'.next
      BY <1>1, <2>4, <2>6, <2>9, TableParts
    <3> QED
      BY <2>8, <2>9, <3>1 DEF Grown
  <2>11. \A p \in AllPaths : table'.ino[p] = table.ino[p] \/ table'.ino[p] >= table.next
    <3>1. \A n \in DOMAIN paths : table.next - 1 + n >= table.next
      BY <1>1, <2>4, <2>6, TableParts
    <3> QED
      BY <2>9, <3>1
  <2>12. req'.step = "keep"
    BY <1>1, <2>2 DEF ReqRecord
  <2> QED
    BY <1>1, <1>3, <2>2, <2>10, <2>11, <2>12 DEF children
<1> QED
  BY <1>2, <1>3

\* A change that is published: a rename under the new name with the inode of the old
\* one, any other under its name with the inode the name has by then.
LEMMA PublishChangeParts ==
    ASSUME Sound, PublishChange
    PROVE  /\ Grown(table, table')
           /\ mut.kind = "rename" /\ mut.ino = 0 => UNCHANGED <<table, index>>
           /\ mut.kind = "rename" /\ mut.ino # 0 =>
                 /\ Published(mut.to, mut.ino, mut.what) /\ table'.ino[mut.to.key] = mut.ino
                 /\ \A p \in AllPaths : p # Parent(mut.to.key) => table'.ino[p] = table.ino[p]
           /\ mut.kind # "rename" =>
                 /\ Published(mut.path, table'.ino[mut.path.key], mut.what)
                 /\ \A p \in AllPaths : p \notin {mut.path.key, Parent(mut.path.key)} =>
                       table'.ino[p] = table.ino[p]
                 /\ mut.kind \in {"create", "flush", "mkdir", "phantom"}
           /\ mut.kind # "none"
<1>1. /\ TableSound(table) /\ IndexSound(base, index) /\ mut.path \in Spelled
      /\ mut.to \in Spelled /\ mut.step = "publish"
  BY DEF Sound, TablesSound, MutSound, MutRecord, PublishChange
<1>2. mut.kind \in MutKinds
  BY <1>1 DEF Sound, MutSound, MutRecord, NoChange
<1>3. CASE mut.kind = "rename" /\ mut.ino = 0
  <2>1. UNCHANGED <<table, index>>
    BY <1>3 DEF PublishChange
  <2> QED
    BY <1>1, <1>3, <2>1, GrownSame
<1>4. CASE mut.kind = "rename" /\ mut.ino # 0
  <2>1. /\ mut.to.key \in Paths /\ mut.ino \in Ino /\ mut.what \in What
        /\ table.ino[mut.to.key] = mut.ino
    <3>1. mut.ino \in 0..MaxIno
      BY DEF Sound, MutSound, MutRecord
    <3> QED
      BY <1>1, <1>4, <3>1, PathsAssumption DEF Sound, MutSound, Ino
  <2>2. PublishPath(table, mut.to, mut.ino, mut.what)
    BY <1>4 DEF PublishChange
  <2>3. /\ Grown(table, table') /\ Published(mut.to, mut.ino, mut.what)
        /\ \A p \in AllPaths : p # Parent(mut.to.key) => table'.ino[p] = table.ino[p]
    BY <1>1, <2>1, <2>2, PublishedParts
  <2>4. table'.ino[mut.to.key] = mut.ino
    BY <1>4, <2>1, <2>3 DEF Grown, AllPaths
  <2> QED
    BY <1>4, <2>3, <2>4
<1>5. CASE mut.kind # "rename"
  <2> DEFINE t == GetOrCreate(table, mut.path)
             u == GetOrCreate(t, ParentPath(mut.path))
             ino == t.ino[mut.path.key]
  <2>1. /\ mut.path.key \in Paths /\ mut.what \in What
        /\ mut.kind \in {"create", "flush", "mkdir", "phantom"}
    BY <1>1, <1>2, <1>5, DirParts, LeafParts DEF Sound, MutSound, MutKinds, What
  <2>2. PublishPath(t, mut.path, ino, mut.what)
    BY <1>5 DEF PublishChange
  <2>3. Room(t, 0)
    <3>1. Room(u, 0)
      BY <2>2 DEF PublishPath
    <3>2. t.next <= u.next /\ t.next \in Nat /\ u.next \in Nat
      BY <1>1, TableParts DEF GetOrCreate
    <3> HIDE DEF t, u
    <3> QED
      BY <3>1, <3>2, PathsAssumption DEF Room
  <2>4. /\ Grown(table, t) /\ ino \in Ino
        /\ \A p \in AllPaths : p # mut.path.key => t.ino[p] = table.ino[p]
    BY <1>1, <2>3, GetOrCreateGrown
  <2> HIDE DEF t
  <2>5. TableSound(t)
    BY <2>4 DEF Grown
  <2> HIDE DEF ino
  <2>6. /\ Grown(t, table') /\ Published(mut.path, ino, mut.what)
        /\ \A p \in AllPaths : p # Parent(mut.path.key) => table'.ino[p] = t.ino[p]
    BY <1>1, <2>1, <2>2, <2>4, <2>5, PublishedParts
  <2>7. Grown(table, table')
    BY <1>1, <2>4, <2>6, GrownTwice
  <2>8. table'.ino[mut.path.key] = ino
    <3>1. mut.path.key \in AllPaths /\ mut.path.key # Parent(mut.path.key)
      BY <2>1, PathParts DEF AllPaths
    <3> QED
      BY <2>6, <3>1 DEF ino
  <2> QED
    BY <1>5, <2>1, <2>4, <2>6, <2>7, <2>8
<1> QED
  BY <1>2, <1>3, <1>4, <1>5 DEF MutKinds

LEMMA HealParts ==
    ASSUME Sound, Heal
    PROVE  /\ Grown(table, table') /\ Published(req.path, req.answer, req.what)
           /\ \A p \in AllPaths : p # Parent(req.path.key) => table'.ino[p] = table.ino[p]
           /\ req # Idle /\ req.step = "heal" /\ req' = [req EXCEPT !.step = "replied"]
           /\ req.kind \in {"lookup", "getattr"}
<1>1. /\ TableSound(table) /\ IndexSound(base, index)
      /\ req # Idle /\ req.step = "heal" /\ req' = [req EXCEPT !.step = "replied"]
      /\ PublishPath(table, req.path, req.answer, req.what)
  BY DEF Sound, TablesSound, Heal, Step
<1>2. /\ req.path \in Spelled /\ req.path.key \in Paths /\ req.answer \in Ino /\ req.what \in What
  <2>1. req.answer \in 0..MaxIno /\ req.answer # 0
    BY <1>1 DEF Sound, ReqSound, ReqRecord
  <2> QED
    BY <1>1, <2>1, PathsAssumption DEF Sound, ReqSound, ReqRecord, Ino
<1>3. req.kind \in {"lookup", "getattr"}
  BY <1>1 DEF Sound, ReqSound, ReqRecord, ListingSteps
<1> QED
  BY <1>1, <1>2, <1>3, PublishedParts

\* A name that was found in the tree gets its inode.
LEMMA FoundInodeParts ==
    ASSUME Sound, FoundInode
    PROVE  LET s == Canonical(table.path[req.ino], req.name, AnySpelling)
           IN  /\ Grown(table, table')
               /\ req # Idle /\ req.step = "inode" /\ req.kind = "lookup"
               /\ \/ /\ table.path[req.ino] = NoPath /\ UNCHANGED table
                     /\ req' = [req EXCEPT !.step = "replied", !.answer = 0]
                  \/ /\ table.path[req.ino] # NoPath
                     /\ s \in Spelled /\ s.key = Append(table.path[req.ino].key, req.name)
                     /\ s.key \in Paths
                     /\ table' = GetOrCreate(table, s)
                     /\ table'.ino[s.key] \in Ino /\ table'.ino[s.key] < table'.next
                     /\ table'.path[table'.ino[s.key]] # NoPath
                     /\ table'.path[table'.ino[s.key]].key = s.key
                     /\ \A p \in AllPaths : p # s.key => table'.ino[p] = table.ino[p]
                     /\ req' = [req EXCEPT !.step = "heal", !.path = s,
                                           !.answer = table'.ino[s.key]]
<1> DEFINE s == Canonical(table.path[req.ino], req.name, AnySpelling)
<1>1. /\ TableSound(table) /\ TreeSound /\ req # Idle /\ req.step = "inode"
      /\ req.ino \in Ino /\ req \in ReqRecord
  BY DEF Sound, TablesSound, FoundInode, ReqSound, ReqRecord
<1>2. req.kind = "lookup" /\ req.name \in Names
  BY <1>1 DEF Sound, ReqSound, ReqRecord, GetattrSteps, ListingSteps
<1>3. CASE table.path[req.ino] = NoPath
  <2>1. UNCHANGED table /\ req' = [req EXCEPT !.step = "replied", !.answer = 0]
    BY <1>3 DEF FoundInode, Reply
  <2> QED
    BY <1>1, <1>2, <1>3, <2>1, GrownSame
<1>4. CASE table.path[req.ino] # NoPath
  <2>1. Append(table.path[req.ino].key, req.name) \in Paths
    BY <1>1, <1>2, <1>4 DEF Sound, ReqSound
  <2>2. table.path[req.ino] \in Spelled
    BY <1>1, <1>4, TableParts
  <2>3. s \in Spelled /\ s.key = Append(table.path[req.ino].key, req.name)
    BY <1>1, <1>2, <2>1, <2>2, Spelt, CanonicalParts
  <2>4. /\ Room(table, 2) /\ table' = GetOrCreate(table, s)
        /\ req' = [req EXCEPT !.step = "heal", !.path = s, !.answer = table'.ino[s.key]]
    BY <1>4 DEF FoundInode
  <2> HIDE DEF s
  <2>5. Room(GetOrCreate(table, s), 0)
    BY <1>1, <2>4, TableParts, PathsAssumption, SMTT(60) DEF Room, GetOrCreate
  <2> QED
    BY <1>1, <1>2, <1>4, <2>1, <2>3, <2>4, <2>5, GetOrCreateGrown DEF s
<1> QED
  BY <1>3, <1>4

LEMMA TableSteps ==
    ASSUME Sound, Next
    PROVE  Grown(table, table') \/ ChangeInodes
<1>1. UNCHANGED table => Grown(table, table')
  BY GrownSame DEF Sound, TablesSound
<1> QED
  BY <1>1, Writers, PublishChangeParts, FoundInodeParts, HealParts, BuildParts

LEMMA TableSoundSteps == ASSUME Sound, Next PROVE TableSound(table') /\ table.next <= table'.next
BY TableSteps, InodesStep, TableParts DEF Sound, TablesSound, Grown

LEMMA DirInoStays ==
    ASSUME Sound, Next, NEW i \in Ino, i < table.next, IsDirIno(i)
    PROVE  IsDirIno(i)'
<1>1. CASE Grown(table, table')
  BY <1>1 DEF Grown, IsDirIno
<1>2. CASE ChangeInodes
  <2>1. mut.path.key \in Paths /\ mut.to.key \in Paths /\ (mut.path.key \in Dirs <=> mut.to.key \in Dirs)
    BY <1>2, InodesStep
  <2>2. CASE table'.path[i] = table.path[i] \/ table'.path[i] = NoPath
    BY <2>2 DEF IsDirIno
  <2>3. CASE /\ table.path[i] # NoPath /\ table.path[i].key \in Paths
             /\ Within(table.path[i].key, mut.path.key)
             /\ table'.path[i].key = Moved(table.path[i].key, mut.path.key, mut.to.key)
    BY <2>1, <2>3, MovedParts DEF IsDirIno
  <2> QED
    BY <1>2, <2>2, <2>3, InodesPath
<1> QED
  BY <1>1, <1>2, TableSteps

LEMMA TombstoneParts ==
    ASSUME Sound, TombstonePath
    PROVE  LET parent == table.ino[Parent(mut.path.key)]
               k      == <<parent, Name(mut.path.key)>>
           IN  /\ mut.path.key \in Paths /\ mut.kind \in {"unlink", "rmdir", "rename"}
               /\ parent = 0 => UNCHANGED index
               /\ parent # 0 =>
                    /\ k \in Key /\ IndexSound(base, index')
                    /\ index'.child = [index.child EXCEPT ![k] = 0]
                    /\ index'.tombstones = index.tombstones \cup {k}
                    /\ mut.ino = 0 => index'.node = index.node /\ index'.hidden = index.hidden
                    /\ mut.ino # 0 => /\ index'.node = [index.node EXCEPT ![mut.ino] = NoNode]
                                      /\ index'.hidden = index.hidden \cup {mut.ino}
                    /\ index'.negative = index.negative \ {k}
<1> DEFINE parent == table.ino[Parent(mut.path.key)]
           k      == <<parent, Name(mut.path.key)>>
<1>1. /\ TableSound(table) /\ IndexSound(base, index) /\ mut.step = "tombstone"
      /\ mut.kind \in MutKinds /\ mut.ino \in 0..MaxIno
  BY DEF Sound, TablesSound, TombstonePath, MutSound, MutRecord, NoChange
<1>2. mut.path.key \in Paths /\ mut.kind \in {"unlink", "rmdir", "rename"}
  BY <1>1, LeafParts, DirParts DEF Sound, MutSound, MutKinds
<1>3. parent = 0 => UNCHANGED index
  BY DEF TombstonePath
<1>4. ASSUME parent # 0
      PROVE  k \in Key /\ index' = Tombstone(index, k, mut.ino)
  <2>1. Parent(mut.path.key) \in AllPaths /\ Name(mut.path.key) \in Names
    BY <1>2, PathParts
  <2>2. parent \in Ino
    BY <1>1, <1>4, <2>1, TableParts
  <2> QED
    BY <1>4, <2>1, <2>2 DEF Key, TombstonePath
<1> HIDE DEF k
<1>5. parent # 0 =>
        /\ k \in Key /\ IndexSound(base, index')
        /\ index'.child = [index.child EXCEPT ![k] = 0]
        /\ index'.tombstones = index.tombstones \cup {k}
        /\ mut.ino = 0 => index'.node = index.node /\ index'.hidden = index.hidden
        /\ mut.ino # 0 => /\ index'.node = [index.node EXCEPT ![mut.ino] = NoNode]
                          /\ index'.hidden = index.hidden \cup {mut.ino}
        /\ index'.negative = index.negative \ {k}
  BY <1>1, <1>4, TombstoneSound
<1> QED
  BY <1>2, <1>3, <1>5 DEF k

LEMMA RecordMissingParts ==
    ASSUME Sound, RecordMissing
    PROVE  /\ IndexSound(base, index') /\ SameNames(index, index') /\ req # Idle
           /\ req.step = "unknown" /\ req.kind = "lookup"
           /\ req' = [req EXCEPT !.step = "replied", !.answer = 0]
           /\ index'.negative \subseteq index.negative \cup {ReqKey} /\ ReqKey \in Key
<1>1. /\ req # Idle /\ req.step = "unknown" /\ req \in ReqRecord /\ IndexSound(base, index)
      /\ index' = RecordNegative(base, index, ReqKey)
      /\ req' = [req EXCEPT !.step = "replied", !.answer = 0]
  BY DEF Sound, RecordMissing, ReqSound, TablesSound, Reply
<1>2. req.kind = "lookup" /\ req.name \in Names /\ req.ino \in Ino
  BY <1>1 DEF Sound, ReqSound, ReqRecord, GetattrSteps, ListingSteps
<1>3. ReqKey \in Key
  BY <1>2 DEF ReqKey, Key
<1> QED
  BY <1>1, <1>2, <1>3, RecordNegativeSound

LEMMA ExpireParts ==
    ASSUME Sound, ExpireNegative
    PROVE  IndexSound(base, index') /\ SameNames(index, index')
           /\ index'.negative = index.negative
BY ExpireSound DEF Sound, TablesSound, ExpireNegative

\* What a step does to the index: nothing, or less, or a name is published.
LEMMA IndexSteps ==
    ASSUME Sound, Next
    PROVE  /\ IndexSound(base, index')
           /\ \/ \A k \in Key : index'.child[k] \in {0, index.child[k]}
              \/ \E s \in Spelled, ino \in Ino, what \in What :
                    /\ Published(s, ino, what) /\ ino < table'.next
                    /\ s.key \in Dirs => IsDirIno(ino)'
<1>1. /\ IndexSound(base, index) /\ TableSound(table) /\ TableSound(table') /\ index \in Index
      /\ table.next \in Nat /\ table'.next \in Nat /\ table.next <= table'.next
  BY TableSoundSteps, TableParts DEF Sound, TablesSound, IndexSound, Alike
<1>2. CASE UNCHANGED index
  BY <1>1, <1>2
<1>3. CASE TombstonePath
  <2>1. CASE table.ino[Parent(mut.path.key)] = 0
    BY <1>2, <1>3, <2>1, TombstoneParts
  <2>2. CASE table.ino[Parent(mut.path.key)] # 0
    BY <1>1, <1>3, <2>2, TombstoneParts, IndexParts
  <2> QED
    BY <2>1, <2>2
<1>4. CASE RecordMissing \/ ExpireNegative
  BY <1>4, RecordMissingParts, ExpireParts DEF SameNames
<1>5. ASSUME NEW s, NEW ino, NEW what, Published(s, ino, what), table'.ino[s.key] = ino
      PROVE  ino < table'.next /\ (s.key \in Dirs => IsDirIno(ino)')
  <2>1. s.key \in AllPaths /\ ino \in Ino /\ ino # 0
    BY <1>5 DEF Published, AllPaths, Ino
  <2>2. table'.path[ino].key = s.key /\ ino < table'.next
    BY <1>1, <1>5, <2>1, TableParts DEF TableAgrees
  <2> QED
    BY <2>2 DEF IsDirIno
<1>6. CASE PublishChange
  <2>1. CASE mut.kind = "rename" /\ mut.ino = 0
    BY <1>2, <1>6, <2>1, PublishChangeParts, SMTT(60)
  <2>2. CASE mut.kind = "rename" /\ mut.ino # 0
    <3>1. Published(mut.to, mut.ino, mut.what) /\ table'.ino[mut.to.key] = mut.ino
      BY <1>6, <2>2, PublishChangeParts
    <3> QED
      BY <1>5, <3>1 DEF Published
  <2>3. CASE mut.kind # "rename"
    <3>1. Published(mut.path, table'.ino[mut.path.key], mut.what)
      BY <1>6, <2>3, PublishChangeParts
    <3> QED
      BY <1>5, <3>1 DEF Published
  <2> QED
    BY <2>1, <2>2, <2>3
<1>7. CASE Heal
  <2>1. Published(req.path, req.answer, req.what) /\ req # Idle /\ req.step = "heal"
    BY <1>7, HealParts
  <2>2. /\ req.answer \in Ino /\ req.answer < table.next
        /\ req.path.key \in Dirs => IsDirIno(req.answer)
    BY <2>1 DEF Sound, ReqSound, Published
  <2>3. req.answer < table'.next
    BY <1>1, <2>2 DEF Ino
  <2>4. \A i \in Ino : i = req.answer /\ req.path.key \in Dirs => IsDirIno(i)'
    BY <2>2, DirInoStays
  <2> QED
    BY <2>1, <2>2, <2>3, <2>4 DEF Published
<1> QED
  BY <1>2, <1>3, <1>4, <1>6, <1>7, Writers

LEMMA TablesStep ==
    ASSUME Sound, Next
    PROVE  TablesSound'
<1>1. /\ TableSound(table) /\ TableSound(table') /\ IndexSound(base, index)
      /\ table.next \in Nat /\ table'.next \in Nat /\ table.next <= table'.next
      /\ IndexSound(base, index') /\ base' = base /\ base \in Base
      /\ index \in Index /\ index' \in Index
  BY TableSoundSteps, TableParts, IndexSteps, Writers DEF Sound, TablesSound, IndexSound, Alike
<1>2. \A k \in Key : /\ index.child[k] \in 0..MaxIno /\ base.child[k] \in 0..MaxIno
                     /\ index.child[k] < table.next /\ base.child[k] < table.next
  BY <1>1, IndexParts DEF Sound, TablesSound, Base
<1>3. 1 \in Ino /\ \A n \in Names : <<1, n>> \in Key
  BY <1>1, TableParts DEF Key
<1>4. ASSUME NEW n \in Names, <<n>> \in Dirs
      PROVE  \A i \in {index.child[<<1, n>>], base.child[<<1, n>>]} \ {0} : IsDirIno(i)'
  <2> TAKE i \in {index.child[<<1, n>>], base.child[<<1, n>>]} \ {0}
  <2>1. i \in Ino /\ i < table.next
    BY <1>2, <1>3, PathsAssumption DEF Ino
  <2>2. IsDirIno(i)
    BY <1>4 DEF Sound, TablesSound
  <2> QED
    BY <2>1, <2>2, DirInoStays
<1>5. CASE \A k \in Key : index'.child[k] \in {0, index.child[k]}
  <2>1. \A k \in Key : index'.child[k] < table'.next /\ base'.child[k] < table'.next
    <3> TAKE k \in Key
    <3>1. index'.child[k] \in {0, index.child[k]}
      BY <1>5
    <3> QED
      BY <1>1, <1>2, <3>1 DEF TableSound
  <2>2. ASSUME NEW n \in Names, <<n>> \in Dirs
        PROVE  \A i \in {index'.child[<<1, n>>], base'.child[<<1, n>>]} \ {0} : IsDirIno(i)'
    BY <1>1, <1>3, <1>4, <1>5, <2>2
  <2> QED
    BY <1>1, <2>1, <2>2 DEF TablesSound, IsDirIno
<1>6. CASE \E s \in Spelled, ino \in Ino, what \in What :
              /\ Published(s, ino, what) /\ ino < table'.next
              /\ s.key \in Dirs => IsDirIno(ino)'
  <2>1. PICK s \in Spelled, ino \in Ino, what \in What :
              /\ Published(s, ino, what) /\ ino < table'.next
              /\ s.key \in Dirs => IsDirIno(ino)'
    BY <1>6
  <2> DEFINE at == <<table'.ino[Parent(s.key)], Name(s.key)>>
  <2>2. /\ s.key \in Paths /\ at \in Key
        /\ \A k \in Key : index'.child[k] = IF k = at THEN ino ELSE index.child[k]
    BY <1>1, <2>1, IndexParts, SMTT(60) DEF Published
  <2> HIDE DEF at
  <2>3. \A k \in Key : index'.child[k] < table'.next /\ base'.child[k] < table'.next
    <3> TAKE k \in Key
    <3>1. index'.child[k] = ino \/ index'.child[k] = index.child[k]
      BY <2>2
    <3> QED
      BY <1>1, <1>2, <2>1, <3>1
  <2>4. ASSUME NEW n \in Names, <<n>> \in Dirs
        PROVE  \A i \in {index'.child[<<1, n>>], base'.child[<<1, n>>]} \ {0} : IsDirIno(i)'
    <3>1. CASE <<1, n>> = at
      <4>1. table'.ino[Parent(s.key)] = 1 /\ Name(s.key) = n
        BY <3>1 DEF at
      <4>2. Parent(s.key) = Root
        <5>1. Root \in AllPaths /\ Parent(s.key) \in AllPaths /\ table'.ino[Root] = 1
          BY <1>1, <2>2, PathsAssumption DEF AllPaths, TableSound
        <5> QED
          BY <1>1, <4>1, <5>1, TableParts
      <4>3. s.key = <<n>>
        <5>1. Parent(<<n>>) = Root /\ Name(<<n>>) = n /\ <<n>> \in Paths
          BY <2>4, DirParts
        <5> QED
          BY <2>2, <4>1, <4>2, <5>1, SameParts
      <4> QED
        BY <1>1, <1>3, <1>4, <2>1, <2>2, <2>4, <3>1, <4>3
    <3>2. CASE <<1, n>> # at
      BY <1>1, <1>3, <1>4, <2>2, <2>4, <3>2
    <3> QED
      BY <3>1, <3>2
  <2> QED
    BY <1>1, <2>3, <2>4 DEF TablesSound, IsDirIno
<1> QED
  BY <1>5, <1>6, IndexSteps

-----------------------------------------------------------------------------
(* The tree.                                                                *)

\* The path a change puts something at, whether it does, and what it removes.
Target  == IF mut.kind = "rename" THEN mut.to ELSE mut.path
Puts    == mut.kind \in {"create", "flush", "mkdir", "phantom", "rename"}
Removed == IF mut.kind \in {"unlink", "rmdir", "rename"} THEN Gone(mut.path.key) ELSE {}

LEMMA GoneParts ==
    ASSUME NEW p \in Paths
    PROVE  /\ Gone(p) \subseteq Paths
           /\ \A q \in Paths : q \in Gone(p) <=>
                 /\ tree[p] # "absent"
                 /\ \/ q = p \/ Parent(q) = p
                    \/ q = Parent(p) /\ Children(q) = {p}
<1>1. \A q \in Paths : q \in Below(p) <=> q = p \/ Parent(q) = p
  BY WithinParts DEF Below
<1>2. Parent(p) # Root => Parent(p) \in Paths
  BY TwoLevels
<1>3. \A q \in Paths : q # Root
  BY PathsAssumption
<1> QED
  BY <1>1, <1>2, <1>3 DEF Gone, Below

\* What the change of the tree makes of each path.
LEMMA ChangeTreeParts ==
    ASSUME Sound, ChangeTree
    PROVE  /\ mut.step = "tree" /\ mut.kind \in MutKinds
           /\ mut.path \in Spelled /\ mut.path.key \in Paths
           /\ Target \in Spelled /\ Target.key \in Paths
           /\ Puts => mut.what \in What /\ (mut.what = "dir" <=> Target.key \in Dirs)
           /\ Removed \subseteq Paths
           /\ tree' \in [Paths -> What \cup {"absent"}]
           /\ \A q \in Paths : tree'[q] =
                IF Puts /\ q = Target.key THEN mut.what
                ELSE IF Puts /\ q = Parent(Target.key) /\ (q \in Removed \/ tree[q] = "absent")
                       THEN "dir"
                ELSE IF q \in Removed THEN "absent" ELSE tree[q]
<1>1. /\ mut.step = "tree" /\ mut.kind \in MutKinds /\ mut.path \in Spelled /\ mut.to \in Spelled
      /\ tree \in [Paths -> What \cup {"absent"}]
  BY DEF Sound, MutSound, MutRecord, NoChange, ChangeTree, TreeSound
<1>2. mut.path.key \in Paths /\ (mut.kind = "rename" => mut.to.key \in Paths)
  BY <1>1, LeafParts, DirParts DEF Sound, MutSound, MutKinds
<1>3. Target \in Spelled /\ Target.key \in Paths
  BY <1>1, <1>2 DEF Target
<1>4. Puts => mut.what \in What /\ (mut.what = "dir" <=> Target.key \in Dirs)
  BY <1>1, LeafParts DEF Puts, Target, Sound, MutSound, What
<1>5. Removed \subseteq Paths
  BY <1>2, GoneParts DEF Removed
<1>6. tree' = IF Puts THEN With(Without(tree, Removed), Target.key, mut.what)
              ELSE Without(tree, Removed)
  BY DEF ChangeTree, Puts, Removed, Target
<1>7. \A q \in Paths : Within(Target.key, q) <=> q = Target.key \/ q = Parent(Target.key)
  BY <1>3, WithinParts
<1>8. \A q \in Paths : Without(tree, Removed)[q] = IF q \in Removed THEN "absent" ELSE tree[q]
  BY DEF Without
<1>9. ASSUME NEW q \in Paths
      PROVE  tree'[q] =
                IF Puts /\ q = Target.key THEN mut.what
                ELSE IF Puts /\ q = Parent(Target.key) /\ (q \in Removed \/ tree[q] = "absent")
                       THEN "dir"
                ELSE IF q \in Removed THEN "absent" ELSE tree[q]
  BY <1>6, <1>7, <1>8 DEF With
<1>10. tree' = [q \in Paths |-> tree'[q]]
  BY <1>6 DEF With, Without
<1>11. ASSUME NEW q \in Paths PROVE tree'[q] \in What \cup {"absent"}
  BY <1>1, <1>4, <1>9 DEF What
<1>12. tree' \in [Paths -> What \cup {"absent"}]
  BY <1>10, <1>11
<1> QED
  BY <1>1, <1>2, <1>3, <1>4, <1>5, <1>9, <1>12

LEMMA ChildOfDirIno ==
    ASSUME TablesSound, TreeSound, NEW p \in Paths, NEW sp \in Spellings,
           DirIno(Parent(p)) # 0, table.path[DirIno(Parent(p))] # NoPath
    PROVE  LET s == Canonical(table.path[DirIno(Parent(p))], Name(p), sp)
           IN  /\ s \in Spelled /\ s.key \in Paths
               /\ s.key = Append(table.path[DirIno(Parent(p))].key, Name(p))
               /\ p \in Leaves => s.key \in Leaves
               /\ Parent(p) = Root => s.key = p
<1> DEFINE i == DirIno(Parent(p))
           d == table.path[i].key
<1>1. Parent(p) \in Dirs \cup {Root} /\ Name(p) \in Names /\ Append(Parent(p), Name(p)) = p
  BY TwoLevels, PathParts
<1>2. /\ i \in Ino /\ table.path[i] \in Spelled /\ d \in Dirs \cup {Root}
      /\ Parent(p) = Root <=> d = Root
  BY <1>1, DirInoParts
<1>3. CASE Parent(p) = Root
  BY <1>1, <1>2, <1>3, CanonicalParts
<1>4. CASE Parent(p) # Root
  <2>1. d \in Dirs /\ Append(d, Name(p)) \in Leaves
    BY <1>2, <1>4, OtherDirectory
  <2> HIDE DEF d
  <2> QED
    BY <1>1, <1>2, <1>4, <2>1, CanonicalParts, LeafParts DEF d
<1> QED
  BY <1>3, <1>4

LEMMA TreeStep ==
    ASSUME Sound, Next
    PROVE  TreeSound'
<1>1. TreeSound /\ TablesSound /\ TableSound(table)
  BY DEF Sound, TablesSound
<1>2. /\ tree' \in [Paths -> What \cup {"absent"}]
      /\ \A p \in Paths : tree'[p] # "absent" =>
            (tree'[p] = "dir" <=> p \in Dirs) /\ IsDir(Parent(p))'
  <2>1. CASE UNCHANGED tree
    BY <1>1, <2>1 DEF TreeSound, IsDir
  <2>2. CASE ChangeTree
    <3>1. /\ tree' \in [Paths -> What \cup {"absent"}] /\ Target.key \in Paths
          /\ mut.path.key \in Paths
          /\ Puts => mut.what \in What /\ (mut.what = "dir" <=> Target.key \in Dirs)
          /\ \A q \in Paths : tree'[q] =
                IF Puts /\ q = Target.key THEN mut.what
                ELSE IF Puts /\ q = Parent(Target.key) /\ (q \in Removed \/ tree[q] = "absent")
                       THEN "dir"
                ELSE IF q \in Removed THEN "absent" ELSE tree[q]
      BY <2>2, ChangeTreeParts
    <3>2. ASSUME NEW p \in Paths, tree'[p] # "absent"
          PROVE  tree'[p] = "dir" <=> p \in Dirs
      <4>1. p = Parent(Target.key) => p \in Dirs
        BY <3>1, TwoLevels, SMTT(60)
      <4>2. tree[p] # "absent" => (tree[p] = "dir" <=> p \in Dirs)
        BY <1>1 DEF TreeSound
      <4> QED
        BY <3>1, <3>2, <4>1, <4>2
    <3>3. ASSUME NEW p \in Paths, tree'[p] # "absent"
          PROVE  IsDir(Parent(p))'
      <4> SUFFICES ASSUME Parent(p) # Root PROVE tree'[Parent(p)] = "dir"
        BY DEF IsDir
      <4>1. /\ Parent(p) \in Paths /\ Parent(p) \in Dirs /\ Parent(Parent(p)) = Root
            /\ p \notin Dirs
        BY TwoLevels, DirParts
      <4>2. tree'[Parent(p)] # "absent"
        <5>1. CASE Puts /\ p = Target.key
          <6>1. tree[Parent(p)] # "absent" => tree[Parent(p)] = "dir"
            BY <1>1, <4>1 DEF TreeSound
          <6> QED
            BY <3>1, <4>1, <5>1, <6>1, TwoLevels
        <5>2. CASE ~(Puts /\ p = Target.key)
          <6>1. p \notin Removed /\ tree[p] # "absent" /\ tree'[p] = tree[p]
            <7>1. p # Parent(Target.key)
              BY <3>1, <4>1, TwoLevels
            <7> QED
              BY <3>1, <3>3, <5>2, <7>1
          <6>2. tree[Parent(p)] # "absent"
            BY <1>1, <6>1, <4>1 DEF TreeSound, IsDir
          <6>3. Parent(p) \notin Removed
            <7>1. SUFFICES ASSUME Parent(p) \in Removed PROVE FALSE
              OBVIOUS
            <7>2. /\ tree[mut.path.key] # "absent"
                  /\ \A q \in Paths : q = mut.path.key \/ Parent(q) = mut.path.key => q \in Removed
                  /\ \/ Parent(p) = mut.path.key \/ Parent(Parent(p)) = mut.path.key
                     \/ Children(Parent(p)) = {mut.path.key}
              BY <3>1, <4>1, <7>1, GoneParts DEF Removed
            <7>3. p \in Children(Parent(p))
              BY <6>1 DEF Children
            <7> QED
              BY <3>1, <4>1, <6>1, <7>2, <7>3, PathsAssumption
          <6> QED
            BY <3>1, <4>1, <6>2, <6>3 DEF What
        <5> QED
          BY <5>1, <5>2
      <4> QED
        BY <3>2, <4>1, <4>2
    <3> QED
      BY <3>1, <3>2, <3>3
  <2> QED
    BY <2>1, <2>2, Writers
<1>3. shown' \in [{p \in Paths : Parent(p) = Root} -> Spellings \cup {"none"}]
  <2>1. CASE UNCHANGED shown
    BY <1>1, <2>1 DEF TreeSound
  <2>2. CASE ChangeTree
    <3>1. shown' = Shown(tree', Target)
      BY <2>2 DEF ChangeTree, Target
    <3>2. Target.sp \in Spellings
      BY <2>2, ChangeTreeParts DEF Spelled
    <3> QED
      BY <1>1, <3>1, <3>2 DEF TreeSound, Shown
  <2> QED
    BY <2>1, <2>2, Writers
<1>4. store' \subseteq Paths
  <2>1. CASE UNCHANGED store
    BY <1>1, <2>1 DEF TreeSound
  <2>2. ASSUME NEW p \in Paths, NEW sp \in Spells, Create(p, sp)
        PROVE  store' \subseteq Paths
    <3> DEFINE i == DirIno(Parent(p))
               q == Append(table.path[i].key, Name(p))
    <3>1. i # 0 /\ table.path[i] # NoPath /\ store' = store \cup {q} \cup Parents(q)
      BY <2>2 DEF Create
    <3>2. q \in Paths
      BY <1>1, <3>1, Spelt, ChildOfDirIno
    <3> HIDE DEF q
    <3> QED
      BY <1>1, <3>1, <3>2 DEF Parents, TreeSound
  <2>3. ASSUME NEW p \in Paths, NEW sp \in Spells, Mkdir(p, sp)
        PROVE  store' \subseteq Paths
    BY <1>1, <2>3 DEF Mkdir, TreeSound
  <2>4. ASSUME NEW p \in Paths, NEW q \in Paths, NEW sp \in Spells, Rename(p, q, sp)
        PROVE  store' \subseteq Paths
    <3>1. /\ p \in Dirs <=> q \in Dirs
          /\ \/ store' = (store \ {p}) \cup {q} \cup Parents(q)
             \/ store' = (store \ Below(p)) \cup {Moved(r, p, q) : r \in Below(p) \cap store}
      BY <2>4 DEF Rename
    <3>2. \A r \in Below(p) : Moved(r, p, q) \in Paths
      BY <3>1, MovedParts DEF Below
    <3> QED
      BY <1>1, <3>1, <3>2 DEF Parents, TreeSound
  <2>5. ASSUME NEW p \in Paths, Unlink(p) \/ Rmdir(p) \/ OpenFile(p)
        PROVE  store' \subseteq Paths
    BY <1>1, <2>5 DEF Unlink, Rmdir, OpenFile, Parents, TreeSound
  <2> QED
    BY <2>1, <2>2, <2>3, <2>4, <2>5, Writers
<1>5. handle' = Idle \/ (handle' \in Spelled /\ handle'.key \in Leaves)
  <2>1. CASE UNCHANGED handle
    BY <1>1, <2>1 DEF TreeSound
  <2>2. ASSUME NEW p \in Paths, OpenFile(p)
        PROVE  handle' \in Spelled /\ handle'.key \in Leaves
    <3>1. p \in Leaves /\ table.ino[p] # 0 /\ handle' = table.path[table.ino[p]] /\ p \in AllPaths
      BY <2>2 DEF OpenFile, AllPaths
    <3>2. table.path[table.ino[p]] # NoPath /\ table.path[table.ino[p]].key = p
          /\ table.ino[p] \in Ino
      BY <1>1, <3>1, TableParts DEF TableAgrees
    <3> QED
      BY <1>1, <3>1, <3>2, TableParts
  <2>3. CASE Release
    BY <2>3 DEF Release
  <2>4. CASE InvalidateListings
    <3>1. handle' = handle \/ (mut.kind = "create" /\ handle' = mut.path)
      BY <2>4 DEF InvalidateListings
    <3> QED
      BY <1>1, <3>1 DEF TreeSound, Sound, MutSound, MutRecord
  <2> QED
    BY <2>1, <2>2, <2>3, <2>4, Writers
<1> QED
  BY <1>2, <1>3, <1>4, <1>5 DEF TreeSound, IsDir

-----------------------------------------------------------------------------
(* The caches.                                                              *)

LEMMA NotPaths == NoPath \notin AllPaths /\ Dangling \notin AllPaths /\ Dangling # NoPath
BY PathsAssumption, NamespaceAssumption

LEMMA ResolvedParts ==
    ASSUME Sound, NEW i \in Ino
    PROVE  /\ i = 1 => Resolved(i) = Root
           /\ i # 1 => /\ Resolved(i) \in Paths \cup {NoPath, Dangling}
                       /\ Resolved(i) \in Paths =>
                            /\ tree[Resolved(i)] # "absent"
                            /\ table.path[i] # NoPath => table.path[i].key = Resolved(i)
<1>1. TableSound(table) /\ NodesSound
  BY DEF Sound, TablesSound
<1>2. i # 1 /\ table.path[i] # NoPath => table.path[i].key \in Paths
  BY <1>1, TableParts DEF TableAgrees, TableSound, Spelled, AllPaths
<1> QED
  BY <1>1, <1>2, NotPaths DEF Resolved, NodesSound, AllPaths

\* A request that resolves an inode keeps the node it finds.
LEMMA CacheNodeParts ==
    ASSUME Sound, req # Idle, req.step \in {"tree", "stat"}, Resolved(req.ino) # Dangling,
           CacheNode(req.ino)
    PROVE  /\ nodes' \in [Ino -> Paths \cup {NoPath, Dangling}] /\ req.ino \in Ino
           /\ \A j \in Ino : \/ nodes'[j] = nodes[j]
                             \/ j = req.ino /\ nodes'[j] = Resolved(j) /\ Resolved(j) \in Paths
           /\ req.ino # 1 /\ Resolved(req.ino) # NoPath => nodes'[req.ino] = Resolved(req.ino)
<1>1. req.ino \in Ino /\ nodes \in [Ino -> Paths \cup {NoPath, Dangling}]
  BY DEF Sound, ReqSound, ReqRecord, NodesSound
<1>2. CASE req.ino = 1 \/ Resolved(req.ino) = NoPath
  BY <1>1, <1>2 DEF CacheNode
<1>3. CASE ~(req.ino = 1 \/ Resolved(req.ino) = NoPath)
  <2>1. Resolved(req.ino) \in Paths
    BY <1>1, <1>3, ResolvedParts
  <2>2. nodes' = [nodes EXCEPT ![req.ino] = Resolved(req.ino)]
    BY <1>3 DEF CacheNode
  <2> QED
    BY <1>1, <1>3, <2>1, <2>2
<1> QED
  BY <1>2, <1>3

LEMMA NodesStep ==
    ASSUME Sound, Next
    PROVE  NodesSound'
<1>1. /\ NodesSound /\ TableSound(table) /\ TableSound(table') /\ table.next \in Nat
      /\ table'.next \in Nat /\ table.next <= table'.next
      /\ nodes \in [Ino -> Paths \cup {NoPath, Dangling}]
  BY TableSoundSteps, TableParts DEF Sound, TablesSound, NodesSound
<1>2. CASE ChangeTree
  <2>1. UNCHANGED table
    BY <1>2, Frames
  <2> DEFINE changed == {mut.path} \cup (IF mut.kind = "rename" THEN {mut.to} ELSE {})
             freed   == Removed \cup (IF Puts /\ mut.what # "dir" THEN {Target.key} ELSE {})
  <2>2. nodes' = Forget(changed, freed)
    BY <1>2 DEF ChangeTree, Removed, Puts, Target
  <2>3. nodes' \in [Ino -> Paths \cup {NoPath, Dangling}]
    BY <1>1, <2>2 DEF Forget
  <2>4. \A i \in Ino : nodes'[i] # NoPath => nodes[i] # NoPath
    <3>1. NoPath \notin freed
      BY <1>2, ChangeTreeParts, NotPaths DEF AllPaths
    <3> QED
      BY <2>2, <3>1 DEF Forget
  <2>5. ASSUME NEW i \in Ino, nodes'[i] \in Paths
        PROVE  nodes'[i] = nodes[i] /\ tree'[nodes'[i]] # "absent"
    <3>1. nodes'[i] # NoPath /\ nodes'[i] # Dangling
      BY <2>5, NotPaths DEF AllPaths
    <3>2. nodes'[i] = nodes[i] /\ nodes[i] \notin freed
      BY <2>2, <3>1 DEF Forget
    <3>3. tree[nodes[i]] # "absent" /\ nodes[i] \notin Removed
      BY <1>1, <2>5, <3>2 DEF NodesSound
    <3> QED
      BY <1>2, <2>5, <3>2, <3>3, ChangeTreeParts DEF What
  <2> QED
    BY <1>1, <2>1, <2>3, <2>4, <2>5 DEF NodesSound
<1>3. CASE TreeSection \/ GetattrTree
  <2>1. UNCHANGED <<table, tree>>
    BY <1>3, Frames
  <2>2. req # Idle /\ req.step \in {"tree", "stat"} /\ Resolved(req.ino) # Dangling
        /\ CacheNode(req.ino)
    BY <1>3 DEF TreeSection, GetattrTree
  <2>3. /\ nodes' \in [Ino -> Paths \cup {NoPath, Dangling}] /\ req.ino \in Ino
        /\ req.ino < table.next
        /\ \A j \in Ino : \/ nodes'[j] = nodes[j]
                          \/ j = req.ino /\ nodes'[j] = Resolved(j) /\ Resolved(j) \in Paths
    BY <2>2, CacheNodeParts DEF Sound, ReqSound
  <2>4. \A j \in Ino : Resolved(j) \in Paths =>
            /\ tree[Resolved(j)] # "absent"
            /\ table.path[j] # NoPath => table.path[j].key = Resolved(j)
    BY <2>3, ResolvedParts, PathsAssumption
  <2> QED
    BY <1>1, <2>1, <2>3, <2>4 DEF NodesSound
<1>4. CASE UNCHANGED <<nodes, tree>>
  <2>1. ASSUME NEW i \in Ino, nodes[i] \in Paths, table'.path[i] # NoPath
        PROVE  table'.path[i].key = nodes[i]
    <3>1. /\ i < table.next /\ tree[nodes[i]] # "absent"
          /\ table.path[i] # NoPath => table.path[i].key = nodes[i]
      BY <1>1, <2>1, NotPaths DEF NodesSound, AllPaths
    <3>2. CASE Grown(table, table')
      BY <2>1, <3>1, <3>2 DEF Grown
    <3>3. CASE ChangeInodes
      <4>1. table.path[i] # NoPath => ~Within(table.path[i].key, mut.path.key)
        <5>1. \A q \in Below(mut.path.key) : tree[q] = "absent"
          BY <3>3 DEF Sound, MutSound, ChangeInodes
        <5> QED
          BY <2>1, <3>1, <5>1 DEF Below
      <4> QED
        BY <2>1, <3>1, <3>3, <4>1, InodesPath
    <3> QED
      BY <3>2, <3>3, TableSteps
  <2>2. \A i \in Ino : nodes[i] # NoPath => i < table'.next
    BY <1>1 DEF NodesSound, Ino
  <2> QED
    BY <1>1, <1>4, <2>1, <2>2 DEF NodesSound
<1> QED
  BY <1>2, <1>3, <1>4, Writers

LEMMA CachesStep ==
    ASSUME Sound, Next
    PROVE  CachesSound'
<1>1. CachesSound
  BY DEF Sound
<1>2. ASSUME NEW c, NEW d, /\ DOMAIN c = SpelledDirs /\ c = [s \in SpelledDirs |-> c[s]]
                           /\ \A s \in SpelledDirs : c[s] = NoListing \/ c[s] \subseteq Names,
             \/ d = c
             \/ DOMAIN d = SpelledDirs /\ d = [s \in SpelledDirs |-> d[s]]
                /\ \A s \in SpelledDirs : d[s] = NoListing \/ d[s] = c[s]
             \/ \E s \in SpelledDirs, names \in SUBSET Names : d = [c EXCEPT ![s] = names]
      PROVE  /\ DOMAIN d = SpelledDirs /\ d = [s \in SpelledDirs |-> d[s]]
             /\ \A s \in SpelledDirs : d[s] = NoListing \/ d[s] \subseteq Names
  <2>1. CASE d = c
    BY <1>2, <2>1
  <2>2. CASE DOMAIN d = SpelledDirs /\ d = [s \in SpelledDirs |-> d[s]]
             /\ \A s \in SpelledDirs : d[s] = NoListing \/ d[s] = c[s]
    BY <1>2, <2>2
  <2>3. ASSUME NEW s \in SpelledDirs, NEW names \in SUBSET Names, d = [c EXCEPT ![s] = names]
        PROVE  /\ DOMAIN d = SpelledDirs /\ d = [t \in SpelledDirs |-> d[t]]
               /\ \A t \in SpelledDirs : d[t] = NoListing \/ d[t] \subseteq Names
    <3>1. DOMAIN d = SpelledDirs /\ d = [t \in SpelledDirs |-> d[t]]
      BY <1>2, <2>3
    <3>2. \A t \in SpelledDirs : d[t] = IF t = s THEN names ELSE c[t]
      BY <1>2, <2>3
    <3> QED
      BY <1>2, <3>1, <3>2
  <2> QED
    BY <1>2, <2>1, <2>2, <2>3
<1>3. /\ DOMAIN entries = SpelledDirs /\ entries = [s \in SpelledDirs |-> entries[s]]
      /\ DOMAIN blobs = SpelledDirs /\ blobs = [s \in SpelledDirs |-> blobs[s]]
      /\ \A s \in SpelledDirs : entries[s] = NoListing \/ entries[s] \subseteq Names
      /\ \A s \in SpelledDirs : blobs[s] = NoListing \/ blobs[s] \subseteq Names
  BY <1>1 DEF CachesSound
<1>4. CASE InvalidateListings
  <2>1. PICK under :
          /\ entries' = [s \in DOMAIN entries |-> IF under[s] THEN NoListing ELSE entries[s]]
          /\ blobs'   = [s \in DOMAIN blobs |-> IF under[s] THEN NoListing ELSE blobs[s]]
    BY <1>4 DEF InvalidateListings, DropListings
  <2>2. /\ DOMAIN entries' = SpelledDirs /\ entries' = [s \in SpelledDirs |-> entries'[s]]
        /\ \A s \in SpelledDirs : entries'[s] = NoListing \/ entries'[s] = entries[s]
        /\ DOMAIN blobs' = SpelledDirs /\ blobs' = [s \in SpelledDirs |-> blobs'[s]]
        /\ \A s \in SpelledDirs : blobs'[s] = NoListing \/ blobs'[s] = blobs[s]
    BY <1>3, <2>1
  <2> QED
    BY <1>3, <2>2 DEF CachesSound
<1>5. CASE KeepEntries
  <2>1. req.path \in SpelledDirs /\ req.names \in SUBSET Names
    BY <1>5 DEF KeepEntries, Sound, ReqSound, ReqRecord, LookupSteps, GetattrSteps
  <2>2. UNCHANGED blobs
    BY <1>5, Frames
  <2>3. entries' = entries \/ entries' = [entries EXCEPT ![req.path] = req.names]
    BY <1>5 DEF KeepEntries
  <2> QED
    BY <1>2, <1>3, <2>1, <2>2, <2>3 DEF CachesSound
<1>6. CASE KeepBlob
  <2>1. req.path \in SpelledDirs /\ req.names \in SUBSET Names
    BY <1>6 DEF KeepBlob, Sound, ReqSound, ReqRecord, LookupSteps, GetattrSteps
  <2>2. UNCHANGED entries
    BY <1>6, Frames
  <2>3. blobs' = blobs \/ blobs' = [blobs EXCEPT ![req.path] = req.names]
    BY <1>6 DEF KeepBlob
  <2> QED
    BY <1>2, <1>3, <2>1, <2>2, <2>3 DEF CachesSound
<1>7. CASE UNCHANGED <<entries, blobs>>
  BY <1>3, <1>7 DEF CachesSound
<1>8. /\ KeepEntries => UNCHANGED blobs
      /\ KeepBlob => UNCHANGED entries
  BY Frames
<1> QED
  BY <1>4, <1>5, <1>6, <1>7, <1>8, Writers

-----------------------------------------------------------------------------
(* The change and the request that are going on.                            *)

LEMMA MutWriters ==
    ASSUME Next
    PROVE  \/ UNCHANGED mut
           \/ /\ mut = NoChange
              /\ \/ \E p \in Paths, sp \in Spellings : Create(p, sp) \/ Mkdir(p, sp)
                 \/ \E p, q \in Paths, sp \in Spellings : Rename(p, q, sp)
                 \/ \E p \in Paths : Unlink(p) \/ Rmdir(p)
                 \/ Flush
           \/ CreatePhantom
           \/ ChangeTree \/ ChangeInodes \/ TombstonePath \/ PublishChange \/ InvalidateListings
<1>1. Change \/ Request \/ ExpireNegative
  BY DEF Next
<1>2. CASE Change
  BY <1>2, Frames, Spelt, Zenon DEF Change
<1>3. CASE Request
  BY <1>3, Frames, Zenon DEF Request
<1> QED
  BY <1>1, <1>2, <1>3, Frames

LEMMA ReqWriters ==
    ASSUME Next
    PROVE  \/ UNCHANGED req
           \/ /\ req = Idle
              /\ \/ \E i \in KnownDirs : StartListing(i) \/ \E n \in Names : StartLookup(i, n)
                 \/ \E i \in Ino : StartGetattr(i)
           \/ OverlaySection \/ BaseSection \/ NegativeSection \/ TreeSection
           \/ RecordMissing \/ CreatePhantom \/ FoundInode
           \/ GetattrNode \/ GetattrTree \/ GetattrPath \/ Heal
           \/ CachedEntries \/ BuildEntries \/ KeepEntries \/ KeepBlob
           \/ EndRequest
<1>1. Change \/ Request \/ ExpireNegative
  BY DEF Next
<1>2. CASE Change
  <2>1. CASE \E p \in Paths, sp \in Spells : Create(p, sp) \/ Mkdir(p, sp)
    BY <2>1, Frames, Zenon
  <2>2. CASE \E p, q \in Paths, sp \in Spells : Rename(p, q, sp)
    BY <2>2, Frames, Zenon
  <2>3. CASE \E p \in Paths : Unlink(p) \/ Rmdir(p) \/ OpenFile(p)
    BY <2>3, Frames, Zenon
  <2>4. CASE \/ Flush \/ Release \/ ChangeTree \/ ChangeInodes \/ TombstonePath \/ PublishChange
             \/ InvalidateListings
    BY <2>4, Frames, Zenon
  <2> QED
    BY <1>2, <2>1, <2>2, <2>3, <2>4, Zenon DEF Change
<1>3. CASE Request
  BY <1>3, Zenon DEF Request
<1>4. CASE ExpireNegative
  BY <1>4, Frames
<1> QED
  BY <1>1, <1>2, <1>3, <1>4

\* The record of a change when it begins.
LEMMA BeginParts ==
    ASSUME Sound, NEW kind \in MutKinds, NEW path \in Spelled, NEW to \in Spelled,
           NEW what \in What \cup {"absent"}, NEW dirs \in SUBSET Ino,
           Begin(kind, path, to, what, dirs), mut = NoChange
    PROVE  /\ mut' = [kind |-> kind, step |-> "tree", path |-> path, to |-> to, what |-> what,
                      ino |-> 0, dirs |-> dirs]
           /\ mut' \in MutRecord /\ mut'.step = "tree" /\ mut'.kind = kind /\ mut'.path = path
           /\ mut'.to = to /\ mut'.what = what /\ mut'.ino = 0 /\ mut'.dirs = dirs
<1>1. mut' = [kind |-> kind, step |-> "tree", path |-> path, to |-> to, what |-> what,
              ino |-> 0, dirs |-> dirs]
  BY DEF Begin
<1> QED
  BY <1>1, PathsAssumption DEF MutRecord, MutSteps

LEMMA RootPathParts == RootPath \in Spelled /\ RootPath.key = Root
BY Spelt DEF RootPath, Spelled, AllPaths

LEMMA KnownInoParts ==
    ASSUME TablesSound, NEW p \in Paths, KnownIno(p) # 0
    PROVE  /\ KnownIno(p) \in Ino /\ KnownIno(p) < table.next
           /\ DirIno(Parent(p)) # 0 /\ DirIno(Parent(p)) \in Ino
           /\ KnownIno(p) = HitOf(DirIno(Parent(p)), Name(p)).ino
<1>1. Parent(p) \in Dirs \cup {Root} /\ Name(p) \in Names
  BY TwoLevels, PathParts
<1>2. DirIno(Parent(p)) # 0 /\ KnownIno(p) = HitOf(DirIno(Parent(p)), Name(p)).ino
  BY DEF KnownIno
<1>3. DirIno(Parent(p)) \in Ino
  BY <1>1, <1>2, DirInoParts
<1>4. HitOf(DirIno(Parent(p)), Name(p)).ino \in 0..MaxIno
      /\ HitOf(DirIno(Parent(p)), Name(p)).ino < table.next
  BY <1>1, <1>3, HitParts
<1> QED
  BY <1>2, <1>3, <1>4, PathsAssumption DEF Ino

\* While the change stays what it is, the tree does too, and the table only grows.
LEMMA SameMut ==
    ASSUME Sound, Next, UNCHANGED mut
    PROVE  UNCHANGED <<tree, shown>> /\ Grown(table, table')
<1>1. mut \in MutRecord
  BY DEF Sound, MutSound
<1>2. ~ChangeTree
  <2> SUFFICES ASSUME ChangeTree PROVE FALSE
    OBVIOUS
  <2>1. mut.step = "tree" /\ mut'.step # "tree"
    BY <1>1 DEF ChangeTree, MutRecord
  <2> QED
    BY <2>1
<1>3. ~ChangeInodes
  BY <1>1 DEF ChangeInodes, MutRecord
<1> QED
  BY <1>2, <1>3, Writers, TableSteps

\* A change that has only begun.
LEMMA BegunSound ==
    ASSUME Sound, Next, mut' \in MutRecord, mut'.step = "tree", mut'.ino = 0,
           mut'.kind # "none",
           mut'.kind # "rename" => mut'.to = RootPath,
           mut'.kind = "create" => mut'.path.key \in Leaves /\ mut'.what = "empty",
           mut'.kind = "flush" => mut'.path.key \in Leaves /\ mut'.what = "written",
           mut'.kind \in {"mkdir", "phantom"} => mut'.path.key \in Dirs /\ mut'.what = "dir",
           mut'.kind = "unlink" => mut'.path.key \in Leaves /\ mut'.what = "absent",
           mut'.kind = "rmdir" => mut'.path.key \in Dirs /\ mut'.what = "absent",
           mut'.kind = "rename" =>
              /\ mut'.path.key \in Paths /\ mut'.to.key \in Paths /\ mut'.path.key # mut'.to.key
              /\ mut'.path.key \in Dirs <=> mut'.to.key \in Dirs
              /\ mut'.what \in What /\ (mut'.what = "dir" <=> mut'.path.key \in Dirs)
    PROVE  MutSound'
<1>1. 0 < table'.next
  BY TableSoundSteps, TableParts DEF TableSound
<1> QED
  BY <1>1 DEF MutSound

LEMMA BeginSteps ==
    ASSUME Sound, Next, mut = NoChange,
           \/ \E p \in Paths, sp \in Spellings : Create(p, sp) \/ Mkdir(p, sp)
           \/ \E p, q \in Paths, sp \in Spellings : Rename(p, q, sp)
           \/ \E p \in Paths : Unlink(p) \/ Rmdir(p)
           \/ Flush
    PROVE  MutSound'
<1>1. TreeSound /\ TablesSound /\ TableSound(table) /\ RootPath \in Spelled
  BY RootPathParts DEF Sound, TablesSound
<1>2. ASSUME NEW p \in Paths, NEW sp \in Spellings, Create(p, sp)
      PROVE  MutSound'
  <2> DEFINE i == DirIno(Parent(p))
             s == Canonical(table.path[i], Name(p), sp)
  <2>1. /\ p \in Leaves /\ i # 0 /\ table.path[i] # NoPath
        /\ Begin("create", s, RootPath, "empty", {i})
    BY <1>2 DEF Create
  <2>2. s \in Spelled /\ s.key \in Leaves
    BY <1>1, <2>1, ChildOfDirIno
  <2>3. {i} \in SUBSET Ino
    BY <1>1, <2>1, TwoLevels, DirInoParts
  <2> HIDE DEF s, i
  <2>4. /\ mut' \in MutRecord /\ mut'.step = "tree" /\ mut'.kind = "create" /\ mut'.path = s
        /\ mut'.to = RootPath /\ mut'.what = "empty" /\ mut'.ino = 0
    BY <1>1, <2>1, <2>2, <2>3, BeginParts DEF MutKinds, What
  <2> QED
    BY <2>2, <2>4, BegunSound, SMTT(60)
<1>3. ASSUME NEW p \in Paths, NEW sp \in Spellings, Mkdir(p, sp)
      PROVE  MutSound'
  <2> DEFINE s == Canonical(RootPath, Name(p), sp)
  <2>1. p \in Dirs /\ Begin("mkdir", s, RootPath, "dir", {1})
    BY <1>3 DEF Mkdir
  <2>2. s \in Spelled /\ s.key = p
    <3>1. Append(Root, Name(p)) = p /\ Name(p) \in Names
      BY <2>1, DirParts, PathParts
    <3> QED
      BY <1>1, <3>1, RootPathParts, CanonicalParts
  <2>3. {1} \in SUBSET Ino
    BY <1>1, TableParts
  <2> HIDE DEF s
  <2>4. /\ mut' \in MutRecord /\ mut'.step = "tree" /\ mut'.kind = "mkdir" /\ mut'.path = s
        /\ mut'.to = RootPath /\ mut'.what = "dir" /\ mut'.ino = 0
    BY <1>1, <2>1, <2>2, <2>3, BeginParts DEF MutKinds, What
  <2> QED
    BY <2>1, <2>2, <2>4, BegunSound
<1>4. ASSUME NEW p \in Paths, NEW q \in Paths, NEW sp \in Spellings, Rename(p, q, sp)
      PROVE  MutSound'
  <2> DEFINE i == DirIno(Parent(p))
             j == DirIno(Parent(q))
             s == Canonical(table.path[i], Name(p), sp)
             t == Canonical(table.path[j], Name(q), sp)
             dirs == {i, j} \cup ({KnownIno(q)} \ {0})
  <2>1. /\ p # q /\ (p \in Dirs <=> q \in Dirs) /\ Known(p) /\ j # 0
        /\ table.path[i] # NoPath /\ table.path[j] # NoPath
        /\ s.key = p /\ t.key = q /\ tree[p] # "absent"
        /\ Begin("rename", s, t, tree[p], dirs)
    BY <1>4 DEF Rename
  <2>2. i # 0 /\ i \in Ino
    BY <1>1, <2>1, KnownInoParts DEF Known
  <2>3. s \in Spelled /\ t \in Spelled
    BY <1>1, <2>1, <2>2, ChildOfDirIno
  <2>4. dirs \in SUBSET Ino
    <3>1. j \in Ino
      BY <1>1, <2>1, TwoLevels, DirInoParts
    <3>2. KnownIno(q) # 0 => KnownIno(q) \in Ino
      BY <1>1, KnownInoParts
    <3> QED
      BY <2>2, <3>1, <3>2
  <2>5. tree[p] \in What /\ (tree[p] = "dir" <=> p \in Dirs)
    BY <1>1, <2>1 DEF TreeSound
  <2> HIDE DEF s, t, i, j, dirs
  <2>6. /\ mut' \in MutRecord /\ mut'.step = "tree" /\ mut'.kind = "rename" /\ mut'.path = s
        /\ mut'.to = t /\ mut'.what = tree[p] /\ mut'.ino = 0
    BY <1>1, <2>1, <2>3, <2>4, <2>5, BeginParts DEF MutKinds
  <2> QED
    BY <2>1, <2>5, <2>6, BegunSound
<1>5. ASSUME NEW p \in Paths, Unlink(p)
      PROVE  MutSound'
  <2> DEFINE i == DirIno(Parent(p))
             s == Canonical(table.path[i], Name(p), AnySpelling)
  <2>1. /\ p \in Leaves /\ Known(p) /\ table.path[i] # NoPath
        /\ Begin("unlink", s, RootPath, "absent", {i})
    BY <1>5 DEF Unlink
  <2>2. i # 0 /\ i \in Ino
    BY <1>1, <2>1, KnownInoParts DEF Known
  <2>3. s \in Spelled /\ s.key \in Leaves
    BY <1>1, <2>1, <2>2, Spelt, ChildOfDirIno
  <2> HIDE DEF s, i
  <2>4. /\ mut' \in MutRecord /\ mut'.step = "tree" /\ mut'.kind = "unlink" /\ mut'.path = s
        /\ mut'.to = RootPath /\ mut'.what = "absent" /\ mut'.ino = 0
    BY <1>1, <2>1, <2>2, <2>3, BeginParts DEF MutKinds
  <2> QED
    BY <2>3, <2>4, BegunSound
<1>6. ASSUME NEW p \in Paths, Rmdir(p)
      PROVE  MutSound'
  <2> DEFINE s == Canonical(RootPath, Name(p), AnySpelling)
             dirs == {1, KnownIno(p)}
  <2>1. p \in Dirs /\ Known(p) /\ Begin("rmdir", s, RootPath, "absent", dirs)
    BY <1>6 DEF Rmdir
  <2>2. s \in Spelled /\ s.key = p
    <3>1. Append(Root, Name(p)) = p /\ Name(p) \in Names
      BY <2>1, DirParts, PathParts
    <3> QED
      BY <1>1, <3>1, RootPathParts, Spelt, CanonicalParts
  <2>3. dirs \in SUBSET Ino
    BY <1>1, <2>1, TableParts, KnownInoParts DEF Known
  <2> HIDE DEF s, dirs
  <2>4. /\ mut' \in MutRecord /\ mut'.step = "tree" /\ mut'.kind = "rmdir" /\ mut'.path = s
        /\ mut'.to = RootPath /\ mut'.what = "absent" /\ mut'.ino = 0
    BY <1>1, <2>1, <2>2, <2>3, BeginParts DEF MutKinds
  <2> QED
    BY <2>1, <2>2, <2>4, BegunSound
<1>7. ASSUME Flush
      PROVE  MutSound'
  <2>1. handle \in Spelled /\ handle.key \in Leaves /\ Begin("flush", handle, RootPath, "written", {})
    BY <1>1, <1>7 DEF Flush, TreeSound
  <2>2. /\ mut' \in MutRecord /\ mut'.step = "tree" /\ mut'.kind = "flush" /\ mut'.path = handle
        /\ mut'.to = RootPath /\ mut'.what = "written" /\ mut'.ino = 0
    BY <1>1, <2>1, BeginParts DEF MutKinds, What
  <2> QED
    BY <2>1, <2>2, BegunSound
<1> QED
  BY <1>2, <1>3, <1>4, <1>5, <1>6, <1>7

LEMMA PhantomStep ==
    ASSUME Sound, Next, CreatePhantom
    PROVE  MutSound'
<1> DEFINE s == Canonical(RootPath, req.name, AnySpelling)
<1>1. /\ TreeSound /\ req \in ReqRecord /\ <<req.name>> \in Dirs
      /\ mut' = [NoChange EXCEPT !.kind = "phantom", !.step = "tree", !.what = "dir",
                                 !.path = s, !.dirs = req.dirs]
  BY DEF Sound, CreatePhantom, ReqSound
<1>2. s \in Spelled /\ s.key = <<req.name>>
  <2>1. Parent(<<req.name>>) = Root /\ <<req.name>> \in Paths /\ <<req.name>>[1] = req.name
        /\ <<req.name>>[1] \in Names
    BY <1>1, DirParts, TwoLevels
  <2>2. Append(Root, req.name) = <<req.name>>
    BY DEF Root
  <2> QED
    BY <1>1, <2>1, <2>2, RootPathParts, Spelt, CanonicalParts, ZenonT(60)
<1> HIDE DEF s
<1>3. /\ mut' \in MutRecord /\ mut'.step = "tree" /\ mut'.kind = "phantom" /\ mut'.path = s
      /\ mut'.to = RootPath /\ mut'.what = "dir" /\ mut'.ino = 0
  <2>1. mut' = [kind |-> "phantom", step |-> "tree", path |-> s, to |-> RootPath,
                what |-> "dir", ino |-> 0, dirs |-> req.dirs]
    BY <1>1 DEF NoChange
  <2>2. req.dirs \in SUBSET Ino
    BY <1>1 DEF ReqRecord
  <2> QED
    BY <1>2, <2>1, <2>2, RootPathParts, PathsAssumption DEF MutRecord, MutKinds, MutSteps, What
<1> QED
  BY <1>1, <1>2, <1>3, BegunSound

LEMMA NoChangeSound == ASSUME Sound, Next, mut' = NoChange PROVE MutSound'
<1>1. 0 < table'.next
  BY TableSoundSteps, TableParts DEF TableSound
<1>2. NoChange \in MutRecord
  BY RootPathParts, PathsAssumption DEF NoChange, MutRecord, MutSteps
<1>3. mut'.kind = "none" /\ mut'.step = "none" /\ mut'.ino = 0 /\ mut'.to = RootPath
  BY DEF NoChange
<1> QED
  BY <1>1, <1>2, <1>3 DEF MutSound

\* The tree has changed: what was removed below the path of a rename is gone.
LEMMA ChangeTreeMut ==
    ASSUME Sound, Next, ChangeTree
    PROVE  MutSound'
<1> DEFINE step == CASE mut.kind \in {"create", "flush"}  -> "publish"
                     [] mut.kind \in {"mkdir", "phantom"} -> "listings"
                     [] mut.kind = "rename"               -> "inodes"
                     [] OTHER                             -> "tombstone"
<1>1. /\ mut.step = "tree" /\ mut.kind \in MutKinds /\ mut.path.key \in Paths /\ UNCHANGED table
      /\ mut \in MutRecord /\ TableSound(table) /\ MutSound
      /\ mut' = [mut EXCEPT !.step = step, !.ino = table.ino[mut.path.key]]
  BY ChangeTreeParts, Frames DEF ChangeTree, Sound, MutSound, TablesSound
<1>2. /\ mut.kind \in {"create", "flush"} => step = "publish"
      /\ mut.kind \in {"mkdir", "phantom"} => step = "listings"
      /\ mut.kind = "rename" => step = "inodes"
      /\ mut.kind \in {"unlink", "rmdir"} => step = "tombstone"
  OBVIOUS
<1>3. step \in MutSteps /\ step # "none"
  BY <1>1, <1>2 DEF MutKinds, MutSteps
<1> HIDE DEF step
<1>4. table.ino[mut.path.key] \in 0..MaxIno /\ table.ino[mut.path.key] < table.next
  BY <1>1, TableParts DEF AllPaths
<1>5. /\ mut' \in MutRecord /\ mut'.step = step /\ mut'.ino = table.ino[mut.path.key]
      /\ mut'.kind = mut.kind /\ mut'.path = mut.path /\ mut'.to = mut.to /\ mut'.what = mut.what
      /\ mut'.dirs = mut.dirs
  BY <1>1, <1>3, <1>4 DEF MutRecord
<1>6. ASSUME mut.kind = "rename", NEW q \in Below(mut.path.key)
      PROVE  tree'[q] = "absent"
  <2>1. /\ mut.to.key \in Paths /\ mut.path.key # mut.to.key
        /\ mut.path.key \in Dirs <=> mut.to.key \in Dirs
        /\ q \in Paths /\ (q = mut.path.key \/ Parent(q) = mut.path.key)
    BY <1>1, <1>6, WithinParts DEF MutSound, Below
  <2>2. q # mut.to.key /\ q # Parent(mut.to.key)
    BY <1>1, <2>1, TwoLevels, ZenonT(60)
  <2>3. q \in Removed \/ tree[q] = "absent"
    <3>1. CASE tree[mut.path.key] = "absent"
      <4>1. tree[q] # "absent" => IsDir(Parent(q))
        BY <2>1 DEF Sound, TreeSound
      <4> QED
        BY <1>1, <2>1, <3>1, <4>1, PathsAssumption DEF IsDir
    <3>2. CASE tree[mut.path.key] # "absent"
      BY <1>1, <1>6, <2>1, <3>2, GoneParts DEF Removed
    <3> QED
      BY <3>1, <3>2
  <2> QED
    BY <1>6, <2>1, <2>2, <2>3, ChangeTreeParts DEF Target
<1> QED
  BY <1>1, <1>2, <1>3, <1>4, <1>5, <1>6 DEF MutSound, MutKinds, Below

LEMMA MutStep ==
    ASSUME Sound, Next
    PROVE  MutSound'
<1>1. MutSound /\ mut \in MutRecord /\ TableSound(table) /\ TableSound(table')
      /\ table.next \in Nat /\ table'.next \in Nat /\ table.next <= table'.next
      /\ mut.ino \in 0..MaxIno /\ mut.ino < table.next
  BY TableSoundSteps, TableParts DEF Sound, MutSound, TablesSound, MutRecord
<1>2. mut.ino < table'.next
  BY <1>1
<1>3. CASE UNCHANGED mut
  <2>1. UNCHANGED tree /\ Grown(table, table')
    BY <1>3, SameMut
  <2>2. /\ mut.step = "inodes" /\ mut.ino # 0 => table'.ino[mut.path.key] = mut.ino
        /\ mut.kind = "rename" /\ mut.step \in {"tombstone", "publish"} /\ mut.ino # 0 =>
              table'.ino[mut.to.key] = mut.ino
    BY <1>1, <2>1 DEF MutSound, MutRecord, Spelled, Grown
  <2> QED
    BY <1>1, <1>2, <1>3, <2>1, <2>2 DEF MutSound, Below
<1>4. CASE ChangeInodes
  <2>1. /\ mut.kind = "rename" /\ UNCHANGED tree
        /\ mut.ino # 0 => table'.ino[mut.to.key] = mut.ino
    BY <1>4, InodesStep, Frames
  <2>2. /\ mut' \in MutRecord /\ mut'.step = "tombstone" /\ mut'.ino = mut.ino
        /\ mut'.kind = mut.kind /\ mut'.path = mut.path /\ mut'.to = mut.to /\ mut'.what = mut.what
    BY <1>1, <1>4 DEF ChangeInodes, MutRecord, MutSteps
  <2> QED
    BY <1>1, <1>2, <2>1, <2>2 DEF MutSound
<1>5. CASE TombstonePath
  <2>1. mut.kind \in {"unlink", "rmdir", "rename"} /\ UNCHANGED <<tree, table>> /\ mut.step = "tombstone"
    BY <1>5, TombstoneParts, Frames DEF TombstonePath
  <2>2. /\ mut' \in MutRecord /\ mut'.ino = mut.ino
        /\ mut'.step = IF mut.kind = "rename" THEN "publish" ELSE "listings"
        /\ mut'.kind = mut.kind /\ mut'.path = mut.path /\ mut'.to = mut.to /\ mut'.what = mut.what
    BY <1>1, <1>5 DEF TombstonePath, MutRecord, MutSteps
  <2> QED
    BY <1>1, <1>2, <2>1, <2>2, SMTT(60) DEF MutSound
<1>6. CASE PublishChange
  <2>1. mut.kind \in {"create", "flush", "mkdir", "phantom", "rename"} /\ mut.step = "publish"
    BY <1>6, PublishChangeParts DEF PublishChange
  <2>2. CASE mut.kind \in {"flush", "mkdir", "phantom"}
    BY <1>6, <2>2, NoChangeSound DEF PublishChange
  <2>3. CASE mut.kind \in {"create", "rename"}
    <3>1. /\ mut' \in MutRecord /\ mut'.ino = mut.ino /\ mut'.step = "listings"
          /\ mut'.kind = mut.kind /\ mut'.path = mut.path /\ mut'.to = mut.to
          /\ mut'.what = mut.what
      BY <1>1, <1>6, <2>3 DEF PublishChange, MutRecord, MutSteps
    <3> QED
      BY <1>1, <1>2, <2>1, <2>3, <3>1 DEF MutSound
  <2> QED
    BY <2>1, <2>2, <2>3
<1>7. CASE InvalidateListings
  <2>1. CASE mut.kind \in {"mkdir", "phantom"}
    <3>1. /\ mut' \in MutRecord /\ mut'.ino = mut.ino /\ mut'.step = "publish"
          /\ mut'.kind = mut.kind /\ mut'.path = mut.path /\ mut'.to = mut.to
          /\ mut'.what = mut.what
      BY <1>1, <1>7, <2>1 DEF InvalidateListings, MutRecord, MutSteps
    <3> QED
      BY <1>1, <1>2, <2>1, <3>1 DEF MutSound
  <2>2. CASE mut.kind \notin {"mkdir", "phantom"}
    BY <1>7, <2>2, NoChangeSound DEF InvalidateListings
  <2> QED
    BY <2>1, <2>2
<1> QED
  BY <1>3, <1>4, <1>5, <1>6, <1>7, MutWriters, BeginSteps, PhantomStep, ChangeTreeMut

-----------------------------------------------------------------------------
(* The request that is going on.                                            *)

\* Where a name is looked for stays a place that can have it.
LEMMA NameStays ==
    ASSUME Sound, Next, NEW i \in Ino, i < table.next, NEW n \in Names,
           table.path[i] # NoPath => Append(table.path[i].key, n) \in Paths,
           nodes[i] \in Paths => Append(nodes[i], n) \in Paths
    PROVE  /\ table'.path[i] # NoPath => Append(table'.path[i].key, n) \in Paths
           /\ nodes'[i] \in Paths => Append(nodes'[i], n) \in Paths
<1>1. ASSUME table'.path[i] # NoPath
      PROVE  Append(table'.path[i].key, n) \in Paths
  <2>1. CASE Grown(table, table')
    BY <1>1, <2>1 DEF Grown
  <2>2. CASE ChangeInodes
    <3>1. /\ mut.path.key \in Paths /\ mut.to.key \in Paths
          /\ (mut.path.key \in Dirs <=> mut.to.key \in Dirs)
      BY <2>2, InodesStep
    <3>2. CASE /\ table.path[i] # NoPath /\ table.path[i].key \in Paths
               /\ Within(table.path[i].key, mut.path.key)
               /\ table'.path[i].key = Moved(table.path[i].key, mut.path.key, mut.to.key)
      <4> DEFINE p == Append(table.path[i].key, n)
      <4>1. p \in Paths /\ table.path[i].key \in Seq(Names)
        BY <3>2, PathParts
      <4>2. Parent(p) = table.path[i].key /\ Name(p) = n
        BY <4>1, ChildParts
      <4>3. Parent(p) # Root /\ Parent(p) \in Dirs
        BY <3>2, <4>1, <4>2, TwoLevels
      <4>4. table.path[i].key = mut.path.key
        BY <3>1, <3>2, <4>2, <4>3, MovedParts DEF Leaves
      <4>5. table'.path[i].key = mut.to.key /\ mut.to.key \in Dirs
        BY <3>1, <3>2, <4>2, <4>3, <4>4, MovedParts
      <4> HIDE DEF p
      <4>6. Append(mut.to.key, Name(p)) \in Leaves
        BY <4>1, <4>3, <4>5, OtherDirectory
      <4> QED
        BY <4>2, <4>5, <4>6 DEF Leaves
    <3> QED
      BY <1>1, <2>2, <3>2, InodesPath
  <2> QED
    BY <2>1, <2>2, TableSteps
<1>2. ASSUME nodes'[i] \in Paths
      PROVE  Append(nodes'[i], n) \in Paths
  <2>1. nodes'[i] # NoPath /\ nodes'[i] # Dangling
    BY <1>2, NotPaths DEF AllPaths
  <2>2. CASE nodes'[i] = nodes[i]
    BY <1>2, <2>2
  <2>3. CASE ChangeTree
    <3>1. nodes'[i] \in {NoPath, Dangling, nodes[i]}
      BY <2>3 DEF ChangeTree, Forget
    <3> QED
      BY <1>2, <2>1, <3>1
  <2>4. CASE TreeSection \/ GetattrTree
    <3>1. req # Idle /\ req.step \in {"tree", "stat"} /\ Resolved(req.ino) # Dangling
          /\ CacheNode(req.ino)
      BY <2>4 DEF TreeSection, GetattrTree
    <3>2. nodes'[i] = nodes[i] \/ nodes'[i] = Resolved(i)
      BY <3>1, CacheNodeParts
    <3>3. i # 1 \/ Root \notin Paths
      BY PathsAssumption
    <3>4. nodes'[i] \in {nodes[i], NoPath, Root, table.path[i].key}
          /\ (nodes'[i] \in {nodes[i], NoPath, Root} \/ table.path[i] # NoPath)
      BY <3>2 DEF Resolved
    <3> QED
      BY <1>2, <2>1, <3>4, PathsAssumption
  <2> QED
    BY <2>2, <2>3, <2>4, Writers
<1> QED
  BY <1>1, <1>2

\* A request that goes on.
LEMMA GoneOnSound ==
    ASSUME Sound, Next, req # Idle, req' \in ReqRecord,
           req'.kind = req.kind, req'.ino = req.ino, req'.name = req.name,
           req.kind = "lookup" => req'.step \in LookupSteps,
           req.kind = "getattr" => req'.step \in GetattrSteps,
           req.kind = "listing" => req'.step \in ListingSteps /\ req'.path = req.path,
           req'.step \in {"inode", "path"} => req'.what \in What,
           req'.step = "heal" =>
              /\ req'.path.key \in Paths /\ req'.answer # 0 /\ req'.answer < table'.next
              /\ req'.what \in What
              /\ req'.path.key \in Dirs =>
                    table'.path[req'.answer] = NoPath \/ table'.path[req'.answer].key \in Dirs
    PROVE  ReqSound'
<1>1. /\ req \in ReqRecord /\ req.ino \in Ino /\ req.ino < table.next
      /\ table.next <= table'.next /\ table.next \in Nat /\ table'.next \in Nat
      /\ req.ino \in Nat
  BY TableSoundSteps, TableParts DEF Sound, ReqSound, ReqRecord, TablesSound, Ino
<1>2. req'.ino < table'.next
  BY <1>1
<1>3. req.kind = "lookup" => req.name \in Names
  BY DEF Sound, ReqSound
<1>4. req.kind = "lookup" =>
         /\ table'.path[req.ino] # NoPath => Append(table'.path[req.ino].key, req.name) \in Paths
         /\ nodes'[req.ino] \in Paths => Append(nodes'[req.ino], req.name) \in Paths
  BY <1>1, <1>3, NameStays DEF Sound, ReqSound
<1>5. req.kind = "getattr" => req.ino # 1
  BY DEF Sound, ReqSound
<1>6. req.kind = "listing" => req.path \in SpelledDirs
  BY DEF Sound, ReqSound
<1>7. SpelledDirs' = SpelledDirs
  BY DEF SpelledDirs
<1> QED
  BY <1>2, <1>3, <1>4, <1>5, <1>6 DEF ReqSound, IsDirIno, SpelledDirs

LEMMA ProgressParts == ASSUME Sound PROVE Progress \in Nat \X MutSteps
BY DEF Sound, SeenSound, MutSound, MutRecord, Progress

LEMMA StartSteps ==
    ASSUME Sound, Next, req = Idle,
           \/ \E i \in KnownDirs : StartListing(i) \/ \E n \in Names : StartLookup(i, n)
           \/ \E i \in Ino : StartGetattr(i)
    PROVE  ReqSound'
<1>1. /\ TableSound(table) /\ TablesSound /\ Progress \in Nat \X MutSteps /\ table.next \in Nat
      /\ 1 \in Ino /\ table.next >= 2 /\ RootPath \in Spelled
  BY ProgressParts, TableParts, RootPathParts DEF Sound, TablesSound, TableSound
<1>2. ASSUME NEW i \in KnownDirs
      PROVE  /\ i \in Ino /\ i < table.next
             /\ table.path[i] # NoPath => /\ table.path[i] \in SpelledDirs
                                          /\ table.path[i] \in Spelled
  <2>1. CASE i = 1
    BY <1>1, <2>1, TableParts DEF SpelledDirs
  <2>2. CASE i # 1
    <3>1. PICK p \in Dirs : i = DirIno(p) /\ DirIno(p) # 0
      BY <2>2 DEF KnownDirs
    <3>2. /\ DirIno(p) \in Ino /\ DirIno(p) < table.next
          /\ \/ table.path[DirIno(p)] = NoPath
             \/ /\ table.path[DirIno(p)] \in Spelled
                /\ table.path[DirIno(p)].key \in Dirs \cup {Root}
      BY <1>1, <3>1, DirInoParts
    <3> QED
      BY <3>1, <3>2 DEF SpelledDirs
  <2> QED
    BY <2>1, <2>2
<1>3. ASSUME NEW i \in KnownDirs, StartListing(i)
      PROVE  ReqSound'
  <2>1. /\ table.path[i] # NoPath
        /\ req' = [kind |-> "listing", step |-> "entries", ino |-> i, name |-> "none",
                   dirs |-> {i}, what |-> "absent", answer |-> 0, names |-> {},
                   path |-> table.path[i], version |-> Progress]
    BY <1>3 DEF StartListing, Start
  <2>2. UNCHANGED <<table, nodes>>
    BY <1>3, Frames
  <2>3. req' \in ReqRecord
    BY <1>1, <1>2, <2>1, PathsAssumption DEF ReqRecord, ListingSteps
  <2>4. /\ req'.kind = "listing" /\ req'.step = "entries" /\ req'.ino = i
        /\ req'.path = table.path[i] /\ req'.ino < table'.next
    BY <1>2, <2>1, <2>2
  <2> QED
    BY <1>2, <2>1, <2>3, <2>4 DEF ReqSound, ListingSteps, SpelledDirs
<1>4. ASSUME NEW i \in KnownDirs, NEW n \in Names, StartLookup(i, n)
      PROVE  ReqSound'
  <2>1. /\ table.path[i] # NoPath /\ Append(table.path[i].key, n) \in Paths
        /\ \E dirs \in SUBSET Ino :
              req' = [kind |-> "lookup", step |-> "overlay", ino |-> i, name |-> n,
                      dirs |-> dirs, what |-> "absent", answer |-> 0, names |-> {},
                      path |-> RootPath, version |-> Progress]
    BY <1>2, <1>4 DEF StartLookup, Start
  <2>2. UNCHANGED <<table, nodes>>
    BY <1>4, Frames
  <2>3. req' \in ReqRecord
    BY <1>1, <1>2, <2>1, PathsAssumption DEF ReqRecord, LookupSteps
  <2>4. /\ req'.kind = "lookup" /\ req'.step = "overlay" /\ req'.ino = i /\ req'.name = n
        /\ req'.ino < table'.next
    BY <1>2, <2>1, <2>2
  <2>5. nodes[i] \in Paths => Append(nodes[i], n) \in Paths
    BY <1>2, <2>1 DEF Sound, NodesSound
  <2> QED
    BY <1>2, <2>1, <2>2, <2>3, <2>4, <2>5 DEF ReqSound, LookupSteps
<1>5. ASSUME NEW i \in Ino, StartGetattr(i)
      PROVE  ReqSound'
  <2>1. /\ i # 1 /\ i < table.next
        /\ req' = [kind |-> "getattr", step |-> "node", ino |-> i, name |-> "none",
                   dirs |-> {}, what |-> "absent", answer |-> 0, names |-> {},
                   path |-> RootPath, version |-> Progress]
    BY <1>5 DEF StartGetattr, Start, Ino
  <2>2. UNCHANGED <<table, nodes>>
    BY <1>5, Frames
  <2>3. req' \in ReqRecord
    BY <1>1, <2>1, PathsAssumption DEF ReqRecord, GetattrSteps
  <2>4. req'.kind = "getattr" /\ req'.step = "node" /\ req'.ino = i /\ req'.ino < table'.next
    BY <2>1, <2>2
  <2> QED
    BY <2>1, <2>3, <2>4 DEF ReqSound, GetattrSteps
<1> QED
  BY <1>3, <1>4, <1>5

\* A request that does nothing but reply or go on to another step.
LEMMA SteppedSound ==
    ASSUME Sound, Next, req # Idle, NEW step, NEW answer \in 0..MaxIno,
           req' = [req EXCEPT !.step = step, !.answer = answer],
           step \notin {"inode", "path", "heal"},
           req.kind = "lookup" => step \in LookupSteps,
           req.kind = "getattr" => step \in GetattrSteps,
           req.kind = "listing" => step \in ListingSteps
    PROVE  ReqSound'
<1>1. req \in ReqRecord /\ req.kind \in {"lookup", "getattr", "listing"}
  BY DEF Sound, ReqSound, ReqRecord
<1>2. req' \in ReqRecord
  BY <1>1 DEF ReqRecord
<1>3. /\ req'.kind = req.kind /\ req'.ino = req.ino /\ req'.name = req.name
      /\ req'.step = step /\ req'.path = req.path
  BY <1>1 DEF ReqRecord
<1> QED
  BY <1>2, <1>3, GoneOnSound

LEMMA RepliedSound ==
    ASSUME Sound, Next, req # Idle, NEW answer \in 0..MaxIno,
           req' = [req EXCEPT !.step = "replied", !.answer = answer]
    PROVE  ReqSound'
<1>1. req \in ReqRecord /\ req.kind \in {"lookup", "getattr", "listing"}
  BY DEF Sound, ReqSound, ReqRecord
<1>2. req' \in ReqRecord
  BY <1>1 DEF ReqRecord, LookupSteps
<1>3. /\ req'.kind = req.kind /\ req'.ino = req.ino /\ req'.name = req.name
      /\ req'.step = "replied" /\ req'.path = req.path
  BY <1>1 DEF ReqRecord
<1> QED
  BY <1>2, <1>3, GoneOnSound DEF LookupSteps, GetattrSteps, ListingSteps

\* The kinds of request at the steps of one kind.
LEMMA KindOfStep ==
    ASSUME Sound, req # Idle
    PROVE  /\ req.step \in {"overlay", "base", "negative", "tree", "unknown", "inode"} =>
                 req.kind = "lookup"
           /\ req.step \in {"node", "stat", "path"} => req.kind = "getattr"
           /\ req.step \in {"entries", "build", "keep", "blob"} => req.kind = "listing"
           /\ req.step = "heal" => req.kind \in {"lookup", "getattr"}
BY DEF Sound, ReqSound, ReqRecord, LookupSteps, GetattrSteps, ListingSteps

LEMMA SectionSteps ==
    ASSUME Sound, Next, OverlaySection \/ BaseSection \/ NegativeSection
    PROVE  ReqSound'
<1>1. req # Idle /\ req.step \in {"overlay", "base", "negative"}
  BY DEF OverlaySection, BaseSection, NegativeSection, Section
<1>2. /\ req.kind = "lookup" /\ req.name \in Names /\ req.ino \in Ino /\ ReqKey \in Key
      /\ req \in ReqRecord /\ req.answer \in 0..MaxIno
  BY <1>1, KindOfStep DEF Sound, ReqSound, ReqRecord, Key, ReqKey
<1>3. /\ index.child[ReqKey] \in 0..MaxIno /\ base.child[ReqKey] \in 0..MaxIno /\ 0 \in 0..MaxIno
  BY <1>2, IndexParts, PathsAssumption DEF Sound, TablesSound, IndexSound, Alike, Base
<1>4. /\ LookupOverlay(index, ReqKey).ino \in 0..MaxIno
      /\ LookupBase(base, index, ReqKey).ino \in 0..MaxIno
      /\ LookupNegative(index, ReqKey).ino \in 0..MaxIno
  BY <1>3, SMTT(60) DEF LookupOverlay, LookupBase, LookupNegative, Found, NotFound
<1>5. \E step \in {"replied", "base", "negative", "tree"}, answer \in 0..MaxIno :
         req' = [req EXCEPT !.step = step, !.answer = answer]
  <2>1. req = [req EXCEPT !.answer = req.answer]
    BY <1>2 DEF ReqRecord
  <2>2. \A step : [req EXCEPT !.step = step] = [req EXCEPT !.step = step, !.answer = req.answer]
    BY <1>2 DEF ReqRecord
  <2>3. (\E ino \in 0..MaxIno : Reply(ino)) \/ \E step \in {"base", "negative", "tree"} : Step(step)
    BY <1>4 DEF OverlaySection, BaseSection, NegativeSection, Section
  <2> QED
    BY <1>2, <2>2, <2>3 DEF Reply, Step
<1> QED
  BY <1>1, <1>2, <1>5, SteppedSound DEF LookupSteps

LEMMA TreeSectionSteps ==
    ASSUME Sound, Next, TreeSection
    PROVE  ReqSound'
<1> DEFINE dir   == Resolved(req.ino)
           found == dir # NoPath /\ IsDir(dir) /\ tree[Append(dir, req.name)] # "absent"
<1>1. req # Idle /\ req.step = "tree" /\ dir # Dangling
      /\ req' = IF found THEN [req EXCEPT !.step = "inode", !.what = tree[Append(dir, req.name)],
                                          !.version = Progress]
                ELSE [req EXCEPT !.step = "unknown"]
  BY DEF TreeSection
<1>2. req.kind = "lookup" /\ req \in ReqRecord /\ req.ino \in Ino /\ Progress \in Nat \X MutSteps
  BY <1>1, KindOfStep, ProgressParts DEF Sound, ReqSound, ReqRecord
<1>3. CASE found
  <2>1. dir \in {Root, nodes[req.ino], table.path[req.ino].key}
        /\ (dir = Root \/ dir = nodes[req.ino] \/ table.path[req.ino] # NoPath)
        /\ (req.ino # 1 => dir \in Paths) /\ (req.ino = 1 => dir = Root)
    <3>1. req.ino # 1 => dir \in Paths
      BY <1>1, <1>2, <1>3, ResolvedParts
    <3> QED
      BY <1>3, <3>1 DEF Resolved
  <2>2. Append(dir, req.name) \in Paths
    <3>1. CASE req.ino = 1
      <4>1. table.path[1] # NoPath /\ table.path[1].key = Root
        BY TableParts DEF Sound, TablesSound
      <4> QED
        BY <1>1, <1>2, <2>1, <3>1, <4>1 DEF Sound, ReqSound
    <3>2. CASE req.ino # 1
      <4>1. dir \in Paths /\ dir # Root
        BY <2>1, <3>2, PathsAssumption
      <4> HIDE DEF dir
      <4> QED
        BY <1>1, <1>2, <2>1, <4>1 DEF Sound, ReqSound
    <3> QED
      BY <3>1, <3>2
  <2>3. tree[Append(dir, req.name)] \in What
    BY <1>3, <2>2 DEF Sound, TreeSound
  <2> HIDE DEF dir, found
  <2>4. /\ req' \in ReqRecord /\ req'.step = "inode" /\ req'.what \in What
        /\ req'.kind = req.kind /\ req'.ino = req.ino /\ req'.name = req.name
    BY <1>1, <1>2, <1>3, <2>3 DEF ReqRecord, LookupSteps
  <2> QED
    BY <1>1, <1>2, <2>4, GoneOnSound, SMTT(60) DEF LookupSteps
<1>4. CASE ~found
  <2>1. req' = [req EXCEPT !.step = "unknown"]
    BY <1>1, <1>4
  <2>2. /\ req' \in ReqRecord /\ req'.step = "unknown"
        /\ req'.kind = req.kind /\ req'.ino = req.ino /\ req'.name = req.name
    BY <2>1, <1>2 DEF ReqRecord, LookupSteps
  <2> QED
    BY <1>1, <1>2, <2>2, GoneOnSound DEF LookupSteps
<1> QED
  BY <1>3, <1>4

LEMMA GetattrSections ==
    ASSUME Sound, Next, GetattrNode \/ GetattrTree \/ GetattrPath
    PROVE  ReqSound'
<1>1. req # Idle /\ req.step \in {"node", "stat", "path"}
  BY DEF GetattrNode, GetattrTree, GetattrPath
<1>2. /\ req.kind = "getattr" /\ req.ino # 1 /\ req.ino \in Ino /\ req \in ReqRecord
      /\ Progress \in Nat \X MutSteps /\ req.ino \in 0..MaxIno /\ 0 \in 0..MaxIno /\ req.ino # 0
      /\ req.ino < table.next
  BY <1>1, KindOfStep, ProgressParts, PathsAssumption DEF Sound, ReqSound, ReqRecord, Ino
<1>3. ASSUME NEW answer \in 0..MaxIno, Reply(answer)
      PROVE  ReqSound'
  BY <1>1, <1>3, RepliedSound DEF Reply
<1>4. CASE GetattrNode
  <2>1. CASE Step("stat")
    <3>1. /\ req' \in ReqRecord /\ req'.step = "stat"
          /\ req'.kind = req.kind /\ req'.ino = req.ino /\ req'.name = req.name
      BY <2>1, <1>2 DEF Step, ReqRecord, GetattrSteps
    <3> QED
      BY <1>1, <1>2, <3>1, GoneOnSound DEF GetattrSteps
  <2> QED
    BY <1>2, <1>3, <1>4, <2>1 DEF GetattrNode
<1>5. CASE GetattrTree
  <2>1. CASE Resolved(req.ino) # NoPath
    <3>1. Resolved(req.ino) # Dangling
          /\ req' = [req EXCEPT !.step = "path", !.what = tree[Resolved(req.ino)],
                                !.version = Progress]
      BY <1>5, <2>1 DEF GetattrTree
    <3>2. Resolved(req.ino) \in Paths /\ tree[Resolved(req.ino)] # "absent"
      BY <1>2, <2>1, <3>1, ResolvedParts
    <3>3. tree[Resolved(req.ino)] \in What
      BY <3>2 DEF Sound, TreeSound
    <3>4. /\ req' \in ReqRecord /\ req'.step = "path" /\ req'.what \in What
          /\ req'.kind = req.kind /\ req'.ino = req.ino /\ req'.name = req.name
      BY <1>2, <3>1, <3>3 DEF ReqRecord, GetattrSteps
    <3> QED
      BY <1>1, <1>2, <3>4, GoneOnSound DEF GetattrSteps
  <2> QED
    BY <1>2, <1>3, <1>5, <2>1 DEF GetattrTree
<1>6. CASE GetattrPath
  <2>1. CASE table.path[req.ino] # NoPath
    <3>1. req.step = "path" /\ UNCHANGED table
          /\ req' = [req EXCEPT !.step = "heal", !.path = table.path[req.ino], !.answer = req.ino]
      BY <1>6, <2>1, Frames DEF GetattrPath
    <3>2. table.path[req.ino] \in Spelled /\ table.path[req.ino].key \in Paths
      BY <1>2, <2>1, TableParts DEF Sound, TablesSound, TableSound, TableAgrees, Spelled, AllPaths
    <3>3. req.what \in What
      BY <1>1, <3>1 DEF Sound, ReqSound
    <3>4. /\ req' \in ReqRecord /\ req'.step = "heal" /\ req'.what = req.what
          /\ req'.kind = req.kind /\ req'.ino = req.ino /\ req'.name = req.name
          /\ req'.path = table.path[req.ino] /\ req'.answer = req.ino
      BY <1>2, <3>1, <3>2 DEF ReqRecord, GetattrSteps
    <3> QED
      BY <1>1, <1>2, <3>1, <3>2, <3>3, <3>4, GoneOnSound DEF GetattrSteps
  <2> QED
    BY <1>2, <1>3, <1>6, <2>1 DEF GetattrPath
<1> QED
  BY <1>4, <1>5, <1>6

LEMMA HealingSteps ==
    ASSUME Sound, Next, RecordMissing \/ FoundInode \/ Heal
    PROVE  ReqSound'
<1>1. 0 \in 0..MaxIno
  BY PathsAssumption
<1>2. CASE RecordMissing
  BY <1>1, <1>2, RecordMissingParts, RepliedSound
<1>3. CASE Heal
  <2>1. req # Idle /\ req' = [req EXCEPT !.step = "replied"] /\ req \in ReqRecord
        /\ req.kind \in {"lookup", "getattr"} /\ req.answer \in 0..MaxIno
    BY <1>3, HealParts DEF Sound, ReqSound, ReqRecord
  <2>2. req' = [req EXCEPT !.step = "replied", !.answer = req.answer]
    BY <2>1 DEF ReqRecord
  <2> QED
    BY <2>1, <2>2, RepliedSound
<1>4. CASE FoundInode
  <2> DEFINE s == Canonical(table.path[req.ino], req.name, AnySpelling)
  <2>1. req # Idle /\ req.step = "inode" /\ req.kind = "lookup" /\ req \in ReqRecord
        /\ req.what \in What
    BY <1>4, FoundInodeParts DEF Sound, ReqSound
  <2>2. CASE req' = [req EXCEPT !.step = "replied", !.answer = 0]
    BY <1>1, <2>1, <2>2, RepliedSound
  <2>3. ASSUME NEW p \in Spelled, p.key \in Paths,
               table'.ino[p.key] \in Ino, table'.ino[p.key] < table'.next,
               table'.path[table'.ino[p.key]] # NoPath,
               table'.path[table'.ino[p.key]].key = p.key,
               req' = [req EXCEPT !.step = "heal", !.path = p, !.answer = table'.ino[p.key]]
        PROVE  ReqSound'
    <3>1. table'.ino[p.key] \in 0..MaxIno /\ table'.ino[p.key] # 0
      BY <2>3, PathsAssumption DEF Ino
    <3>2. /\ req' \in ReqRecord /\ req'.step = "heal" /\ req'.what = req.what
          /\ req'.kind = req.kind /\ req'.ino = req.ino /\ req'.name = req.name
          /\ req'.path = p /\ req'.answer = table'.ino[p.key]
      BY <2>1, <2>3, <3>1 DEF ReqRecord, LookupSteps
    <3> QED
      BY <2>1, <2>3, <3>1, <3>2, GoneOnSound DEF LookupSteps
  <2> QED
    BY <1>4, <2>2, <2>3, FoundInodeParts, Zenon
<1> QED
  BY <1>2, <1>3, <1>4

LEMMA ListingStepsSound ==
    ASSUME Sound, Next, CachedEntries \/ BuildEntries \/ KeepEntries \/ KeepBlob
    PROVE  ReqSound'
<1>1. req # Idle /\ req.step \in {"entries", "build", "keep", "blob"}
  BY DEF CachedEntries, BuildEntries, KeepEntries, KeepBlob
<1>2. /\ req.kind = "listing" /\ req \in ReqRecord /\ req.path \in SpelledDirs
      /\ req.names \subseteq Names
  BY <1>1, KindOfStep DEF Sound, ReqSound, ReqRecord
<1>3. /\ entries[req.path] # NoListing => entries[req.path] \subseteq Names
      /\ blobs[req.path] # NoListing => blobs[req.path] \subseteq Names
  BY <1>2 DEF Sound, CachesSound
<1>4. ASSUME NEW step \in ListingSteps, NEW names \in SUBSET Names,
             req' = [req EXCEPT !.step = step, !.names = names]
      PROVE  ReqSound'
  <2>1. /\ req' \in ReqRecord /\ req'.step = step /\ req'.path = req.path
        /\ req'.kind = req.kind /\ req'.ino = req.ino /\ req'.name = req.name
    BY <1>2, <1>4 DEF ReqRecord
  <2>2. step \notin {"inode", "path", "heal"}
    BY DEF ListingSteps
  <2> QED
    BY <1>1, <1>2, <2>1, <2>2, GoneOnSound
<1>5. \A step : [req EXCEPT !.step = step] = [req EXCEPT !.step = step, !.names = req.names]
  BY <1>2 DEF ReqRecord
<1>6. CASE CachedEntries
  <2>1. \/ /\ req' = [req EXCEPT !.step = "blob", !.names = entries[req.path]]
           /\ entries[req.path] # NoListing
        \/ req' = [req EXCEPT !.step = "build"]
    BY <1>6 DEF CachedEntries
  <2> QED
    BY <1>2, <1>3, <1>4, <1>5, <2>1, ZenonT(60) DEF ListingSteps
<1>7. CASE BuildEntries
  <2>1. CASE req'.step = "replied"
    <3>1. req' = [req EXCEPT !.step = "replied", !.answer = 0] /\ 0 \in 0..MaxIno
      BY <1>7, <2>1, BuildParts, PathsAssumption
    <3> QED
      BY <1>1, <3>1, RepliedSound
  <2>2. CASE req'.step # "replied"
    <3>1. {Name(q) : q \in Children(req.path.key)} \subseteq Names
      BY PathParts DEF Children
    <3>2. req' = [req EXCEPT !.step = "keep", !.names = {Name(q) : q \in Children(req.path.key)}]
      BY <1>7, <2>2, BuildParts, SMTT(60)
    <3> QED
      BY <3>1, <3>2, <1>4 DEF ListingSteps
  <2> QED
    BY <2>1, <2>2
<1>8. CASE KeepEntries
  <2>1. \/ /\ req' = [req EXCEPT !.step = "blob", !.names = entries[req.path]]
           /\ entries[req.path] # NoListing
        \/ req' = [req EXCEPT !.step = "blob"]
    BY <1>8 DEF KeepEntries, Step
  <2> QED
    BY <1>2, <1>3, <1>4, <1>5, <2>1 DEF ListingSteps
<1>9. CASE KeepBlob
  <2>1. blobs'[req.path] \in SUBSET Names
    <3>1. DOMAIN blobs = SpelledDirs /\ blobs = [s \in SpelledDirs |-> blobs[s]]
      BY DEF Sound, CachesSound
    <3>2. blobs' = IF blobs[req.path] # NoListing THEN blobs
                   ELSE [blobs EXCEPT ![req.path] = req.names]
      BY <1>9 DEF KeepBlob
    <3> QED
      BY <1>2, <1>3, <3>1, <3>2
  <2>2. req' = [req EXCEPT !.step = "replied", !.names = blobs'[req.path]]
    BY <1>9 DEF KeepBlob
  <2> QED
    BY <1>4, <2>1, <2>2 DEF ListingSteps
<1> QED
  BY <1>6, <1>7, <1>8, <1>9

LEMMA ReqStep ==
    ASSUME Sound, Next
    PROVE  ReqSound'
<1>1. CASE UNCHANGED req
  <2>1. CASE req = Idle
    BY <1>1, <2>1 DEF ReqSound
  <2>2. CASE req # Idle
    <3>1. req \in ReqRecord /\ table.next \in Nat /\ table'.next \in Nat /\ table.next <= table'.next
      BY <2>2, TableSoundSteps, TableParts DEF Sound, ReqSound, TablesSound
    <3>2. ASSUME req.step = "heal"
          PROVE  /\ req.answer < table'.next
                 /\ req.path.key \in Dirs =>
                       table'.path[req.answer] = NoPath \/ table'.path[req.answer].key \in Dirs
      <4>1. /\ req.answer \in Ino /\ req.answer < table.next /\ req.answer \in Nat
            /\ req.path.key \in Dirs => IsDirIno(req.answer)
        BY <2>2, <3>1, <3>2, PathsAssumption DEF Sound, ReqSound, ReqRecord, Ino
      <4>2. \A i \in Ino : i < table.next /\ IsDirIno(i) =>
               table'.path[i] = NoPath \/ table'.path[i].key \in Dirs
        BY DirInoStays DEF IsDirIno
      <4> QED
        BY <3>1, <4>1, <4>2
    <3>3. /\ req.kind = "lookup" => req.step \in LookupSteps
          /\ req.kind = "getattr" => req.step \in GetattrSteps
          /\ req.kind = "listing" => req.step \in ListingSteps
          /\ req.step \in {"inode", "path"} => req.what \in What
          /\ req.step = "heal" => req.path.key \in Paths /\ req.answer # 0 /\ req.what \in What
      BY <2>2 DEF Sound, ReqSound
    <3> QED
      BY <1>1, <2>2, <3>1, <3>2, <3>3, GoneOnSound
  <2> QED
    BY <2>1, <2>2
<1>2. CASE CreatePhantom \/ EndRequest
  BY <1>2 DEF CreatePhantom, EndRequest, ReqSound
<1> QED
  BY <1>1, <1>2, ReqWriters, StartSteps, SectionSteps, TreeSectionSteps, GetattrSections,
     HealingSteps, ListingStepsSound

-----------------------------------------------------------------------------
(* What the observers hold, and the first state.                            *)

LEMMA ChangesStep == ASSUME Next PROVE changes' = changes \/ changes' = changes + 1
<1>1. Change \/ Request \/ ExpireNegative
  BY DEF Next
<1>2. CASE Change
  <2>1. \A p, sp : Create(p, sp) => changes' = changes + 1
    BY DEF Create, Begin
  <2>2. \A p, sp : Mkdir(p, sp) => changes' = changes + 1
    BY DEF Mkdir, Begin
  <2>3. \A p, q, sp : Rename(p, q, sp) => changes' = changes + 1
    <3>1. ASSUME NEW p, NEW q, NEW sp, Rename(p, q, sp) PROVE changes' = changes + 1
      BY <3>1 DEF Rename, Begin
    <3> QED
      BY <3>1
  <2>4. \A p : Unlink(p) => changes' = changes + 1
    BY DEF Unlink, Begin
  <2>5. \A p : Rmdir(p) => changes' = changes + 1
    BY DEF Rmdir, Begin
  <2>6. Flush => changes' = changes + 1
    BY DEF Flush, Begin
  <2>7. CASE \E p \in Paths, sp \in Spells : Create(p, sp) \/ Mkdir(p, sp)
    BY <2>1, <2>2, <2>7
  <2>8. CASE \E p, q \in Paths, sp \in Spells : Rename(p, q, sp)
    BY <2>3, <2>8
  <2>9. CASE \E p \in Paths : Unlink(p) \/ Rmdir(p)
    BY <2>4, <2>5, <2>9
  <2>10. CASE \E p \in Paths : OpenFile(p)
    BY <2>10, Frames, Zenon
  <2>11. CASE Release \/ ChangeTree \/ ChangeInodes \/ TombstonePath \/ PublishChange
              \/ InvalidateListings
    BY <2>11, Frames, Zenon
  <2> QED
    BY <1>2, <2>6, <2>7, <2>8, <2>9, <2>10, <2>11, Zenon DEF Change
<1>3. CASE Request
  <2>1. CASE CreatePhantom
    BY <2>1 DEF CreatePhantom
  <2> QED
    BY <1>3, <2>1, Frames, Zenon DEF Request
<1>4. CASE ExpireNegative
  BY <1>4, Frames
<1> QED
  BY <1>1, <1>2, <1>3, <1>4

LEMMA SeenStep ==
    ASSUME Sound, Next
    PROVE  SeenSound'
<1>1. /\ late \subseteq Paths /\ revived \subseteq Paths /\ misfiled \subseteq AllPaths
      /\ changes \in Nat
  BY DEF Sound, SeenSound
<1>2. late' \subseteq Paths
  <2>1. req # Idle /\ req.step = "heal" => req.path.key \in Paths
    BY DEF Sound, ReqSound
  <2>2. ASSUME mut.step = "inodes"
        PROVE  \A p \in late \cap Below(mut.path.key) :
                  Moved(p, mut.path.key, mut.to.key) \in Paths
    <3>1. mut.kind = "rename"
      BY <2>2 DEF Sound, MutSound, MutRecord, MutKinds, NoChange
    <3>2. /\ mut.path.key \in Paths /\ mut.to.key \in Paths
          /\ (mut.path.key \in Dirs <=> mut.to.key \in Dirs)
      BY <3>1 DEF Sound, MutSound
    <3> QED
      BY <3>2, MovedParts DEF Below
  <2> QED
    BY <1>1, <2>1, <2>2 DEF Next, Observe
<1>3. revived' \subseteq Paths
  <2>1. mut.kind = "flush" => mut.path.key \in Paths
    BY DEF Sound, MutSound, Leaves
  <2> QED
    BY <1>1, <2>1 DEF Next, Observe, Parents
<1>4. misfiled' \subseteq AllPaths
  <2>1. req # Idle => req.path.key \in AllPaths
    BY DEF Sound, ReqSound, ReqRecord, Spelled
  <2> QED
    BY <1>1, <2>1 DEF Next, Observe
<1>5. changes' \in Nat
  BY <1>1, ChangesStep
<1> QED
  BY <1>2, <1>3, <1>4, <1>5 DEF SeenSound

LEMMA EmptyTableSound ==
    ASSUME NEW sp \in Spellings
    PROVE  TableSound(EmptyTable(sp)) /\ EmptyTable(sp).next = 2
           /\ \A p \in Paths : EmptyTable(sp).ino[p] = 0
<1> DEFINE t == EmptyTable(sp)
<1>1. /\ t.ino = [p \in AllPaths |-> IF p = Root THEN 1 ELSE 0]
      /\ t.path = [i \in Ino |-> IF i = 1 THEN [key |-> Root, sp |-> sp] ELSE NoPath]
      /\ t.next = 2 /\ t = [ino |-> t.ino, path |-> t.path, next |-> t.next]
  BY DEF EmptyTable
<1>2. Root \in AllPaths /\ Root \notin Paths /\ 1 \in Ino /\ MaxIno \in Nat /\ MaxIno >= 1
  BY PathsAssumption DEF Ino, AllPaths
<1>3. [key |-> Root, sp |-> sp] \in Spelled /\ NoPath \notin Spelled
  BY <1>2, PathsAssumption DEF Spelled
<1>4. t.ino \in [AllPaths -> 0..MaxIno] /\ t.path \in [Ino -> Spelled \cup {NoPath}]
  BY <1>1, <1>2, <1>3
<1>5. t \in Table
  BY <1>1, <1>4 DEF Table
<1>6. TableAgrees(t)
  BY <1>1, <1>2, <1>3 DEF TableAgrees
<1>7. \A i \in Ino : i >= t.next => t.path[i] = NoPath
  BY <1>1 DEF Ino
<1>8. t.ino[Root] = 1 /\ t.next <= MaxIno + 1 /\ \A p \in Paths : t.ino[p] = 0
  BY <1>1, <1>2 DEF AllPaths
<1> QED
  BY <1>1, <1>5, <1>6, <1>7, <1>8 DEF TableSound

LEMMA EmptyIndexSound ==
    ASSUME NEW b
    PROVE  IndexSound(b, EmptyIndex)
<1>1. << >> \in Seq(Key) /\ Len(<< >>) = 0 /\ DOMAIN << >> = {}
  OBVIOUS
<1>2. EmptyIndex \in Index
  BY <1>1, PathsAssumption DEF EmptyIndex, Index
<1> QED
  BY <1>1, <1>2, IndexAssumption DEF IndexSound, Alike, EmptyIndex

LEMMA MergedParts ==
    /\ Merged \in Seq(Spelled) /\ Len(Merged) \in Nat /\ DOMAIN Merged = 1..Len(Merged)
    /\ \A n \in DOMAIN Merged : Merged[n] \in Spelled /\ Merged[n].key \in Paths
                                /\ Merged[n].sp \in Spellings
    /\ \A n \in DOMAIN Merged : Parent(Merged[n].key) \in {Root} \cup MergedPaths
    /\ MergedPaths \subseteq Paths
<1> DEFINE S == [key : Paths, sp : Spellings]
<1>1. Merged \in Seq(S)
  BY NamespaceAssumption
<1>2. S \subseteq Spelled /\ \A s \in S : s.key \in Paths /\ s.sp \in Spellings
  BY DEF Spelled, AllPaths
<1> HIDE DEF S
<1>3. /\ Len(Merged) \in Nat /\ DOMAIN Merged = 1..Len(Merged)
      /\ \A n \in DOMAIN Merged : Merged[n] \in S
  BY <1>1
<1>4. Merged \in Seq(Spelled)
  BY <1>1, <1>2, SeqMonotonic
<1>5. ASSUME NEW n \in DOMAIN Merged
      PROVE  Parent(Merged[n].key) \in {Root} \cup MergedPaths
  <2>1. Parent(Merged[n].key) \in {Root} \cup {Merged[i].key : i \in 1..(n - 1)}
    BY NamespaceAssumption
  <2>2. 1..(n - 1) \subseteq DOMAIN Merged
    BY <1>3
  <2> QED
    BY <2>1, <2>2 DEF MergedPaths
<1> QED
  BY <1>2, <1>3, <1>4, <1>5 DEF MergedPaths

\* b is a base in which each name leads to the inode in t of a node of N.
BuiltOf(b, N, t) ==
    /\ b \in Base
    /\ \A k \in Key : b.child[k] < t.next
    /\ \A k \in Key : b.child[k] # 0 =>
         \E n \in N : /\ b.child[k] = t.ino[n.path.key]
                      /\ t.ino[Parent(n.path.key)] = k[1] /\ Name(n.path.key) = k[2]

LEMMA BuildSound ==
    ASSUME NEW N, N \subseteq Node, \A n \in N : n.path.key \in Paths,
           NEW t, TableSound(t)
    PROVE  BuiltOf(Build(N, t), N, t)
<1> DEFINE at(k) == {n \in N : t.ino[Parent(n.path.key)] = k[1] /\ Name(n.path.key) = k[2]}
           of(i) == {n \in N : t.ino[n.path.key] = i}
           b     == Build(N, t)
<1>1. /\ b.child = [k \in Key |-> IF at(k) = {} THEN 0
                                  ELSE t.ino[(CHOOSE n \in at(k) : TRUE).path.key]]
      /\ b.node = [i \in Ino |-> IF of(i) = {} THEN NoNode ELSE CHOOSE n \in of(i) : TRUE]
      /\ b = [child |-> b.child, node |-> b.node]
  BY DEF Build
<1>2. \A n \in N : t.ino[n.path.key] \in 0..MaxIno /\ t.ino[n.path.key] < t.next
  BY TableParts DEF AllPaths
<1>3. 0 \in 0..MaxIno /\ 0 < t.next
  BY PathsAssumption, TableParts DEF TableSound
<1>4. ASSUME NEW k \in Key
      PROVE  \/ b.child[k] = 0 /\ at(k) = {}
             \/ \E n \in at(k) : b.child[k] = t.ino[n.path.key]
  <2>1. CASE at(k) = {}
    BY <1>1, <2>1, ZenonT(60)
  <2>2. CASE at(k) # {}
    <3>1. (CHOOSE n \in at(k) : TRUE) \in at(k)
      BY <2>2, SMTT(60)
    <3>2. b.child[k] = t.ino[(CHOOSE n \in at(k) : TRUE).path.key]
      BY <1>1, <2>2, ZenonT(60)
    <3> QED
      BY <3>1, <3>2
  <2> QED
    BY <2>1, <2>2, SMTT(60)
<1>5. \A i \in Ino : b.node[i] \in Node \cup {NoNode}
  <2> SUFFICES ASSUME NEW i \in Ino PROVE b.node[i] \in Node \cup {NoNode}
    OBVIOUS
  <2>1. of(i) # {} => (CHOOSE n \in of(i) : TRUE) \in of(i)
    OBVIOUS
  <2> QED
    BY <1>1, <2>1
<1> HIDE DEF b
<1>6. \A k \in Key : b.child[k] \in 0..MaxIno /\ b.child[k] < t.next
  BY <1>2, <1>3, <1>4, SMTT(60)
<1>7. b.child \in [Key -> 0..MaxIno]
  BY <1>1, <1>6, ZenonT(60)
<1>8. b.node \in [Ino -> Node \cup {NoNode}]
  BY <1>1, <1>5, ZenonT(60)
<1>9. b \in Base
  BY <1>1, <1>7, <1>8 DEF Base
<1>10. \A k \in Key : b.child[k] # 0 =>
         \E n \in N : /\ b.child[k] = t.ino[n.path.key]
                      /\ t.ino[Parent(n.path.key)] = k[1] /\ Name(n.path.key) = k[2]
  BY <1>4
<1> QED
  BY <1>6, <1>9, <1>10 DEF b, BuiltOf

LEMMA InitTable ==
    ASSUME Init
    PROVE  /\ TableSound(table) /\ table.next = 2 + Len(Merged)
           /\ \A n \in DOMAIN Merged : table.ino[Merged[n].key] = n + 1
                                       /\ table.path[n + 1] = Merged[n]
           /\ \A p \in Paths \ MergedPaths : table.ino[p] = 0
<1> DEFINE t == EmptyTable(AnySpelling)
<1>1. TableSound(t) /\ t.next = 2 /\ \A p \in Paths : t.ino[p] = 0
  BY Spelt, EmptyTableSound
<1>2. /\ Merged \in Seq(Spelled) /\ t.next + Len(Merged) <= MaxIno + 1
      /\ \A n \in DOMAIN Merged : t.ino[Merged[n].key] = 0
      /\ \A m, n \in DOMAIN Merged : Merged[m].key = Merged[n].key => m = n
  BY <1>1, MergedParts, NamespaceAssumption, PathsAssumption
<1>3. table = Numbered(t, Merged)
  BY DEF Init
<1> HIDE DEF t
<1>4. /\ TableSound(table) /\ table.next = t.next + Len(Merged)
      /\ \A n \in DOMAIN Merged : table.ino[Merged[n].key] = t.next - 1 + n
                                  /\ table.path[t.next - 1 + n] = Merged[n]
      /\ \A p \in AllPaths : (\A n \in DOMAIN Merged : Merged[n].key # p) =>
                                 table.ino[p] = t.ino[p]
  BY <1>1, <1>2, <1>3, NumberedSound, ZenonT(60)
<1>5. \A n \in DOMAIN Merged : t.next - 1 + n = n + 1
  BY <1>1, MergedParts
<1>6. \A p \in Paths \ MergedPaths : table.ino[p] = 0
  BY <1>1, <1>4 DEF MergedPaths, AllPaths
<1> QED
  BY <1>1, <1>4, <1>5, <1>6

LEMMA InitTree ==
    ASSUME Init
    PROVE  /\ TreeSound
           /\ \A p \in Paths : tree[p] # "absent" <=> p \in MergedPaths
           /\ \A p \in MergedPaths : tree[p] = IF p \in Dirs THEN "dir" ELSE "provided"
<1>1. tree = [p \in Paths |-> IF p \notin MergedPaths THEN "absent"
                              ELSE IF p \in Dirs THEN "dir" ELSE "provided"]
  BY DEF Init
<1>2. tree \in [Paths -> What \cup {"absent"}]
  BY <1>1 DEF What
<1>3. ASSUME NEW p \in Paths, tree[p] # "absent"
      PROVE  (tree[p] = "dir" <=> p \in Dirs) /\ IsDir(Parent(p))
  <2>1. p \in MergedPaths /\ Parent(p) \in {Root} \cup MergedPaths
    BY <1>1, <1>3, MergedParts DEF MergedPaths
  <2>2. Parent(p) # Root => Parent(p) \in Dirs /\ Parent(p) \in Paths
    BY TwoLevels
  <2> QED
    BY <1>1, <2>1, <2>2 DEF IsDir
<1>4. shown \in [{p \in Paths : Parent(p) = Root} -> Spellings \cup {"none"}]
  <2>1. ASSUME NEW p \in MergedPaths
        PROVE  (CHOOSE s \in Range(Merged) : s.key = p).sp \in Spellings
    <3>1. \E s \in Range(Merged) : s.key = p
      BY DEF MergedPaths, Range
    <3>2. (CHOOSE s \in Range(Merged) : s.key = p) \in Range(Merged)
      BY <3>1
    <3>3. \A s \in Range(Merged) : s.sp \in Spellings
      BY MergedParts DEF Range
    <3> QED
      BY <3>2, <3>3
  <2>2. shown = [p \in {q \in Paths : Parent(q) = Root} |->
                   IF p \in MergedPaths THEN (CHOOSE s \in Range(Merged) : s.key = p).sp
                   ELSE "none"]
    BY DEF Init
  <2> QED
    BY <2>1, <2>2
<1>5. store \subseteq Paths
  BY MergedParts DEF Init
<1>6. handle = Idle
  BY DEF Init
<1> QED
  BY <1>1, <1>2, <1>3, <1>4, <1>5, <1>6, MergedParts DEF TreeSound

LEMMA InitTables ==
    ASSUME Init
    PROVE  TablesSound
<1> DEFINE N == {[path |-> s, what |-> tree[s.key]] : s \in Range(Merged)}
<1>1. base = Build(N, table) /\ index = EmptyIndex
  BY DEF Init
<1>2. TableSound(table)
  BY InitTable
<1>3. N \subseteq Node /\ \A n \in N : n.path.key \in Paths
  <2>1. \A s \in Range(Merged) : s \in Spelled /\ s.key \in Paths /\ s.key \in MergedPaths
    BY MergedParts DEF Range, MergedPaths
  <2>2. \A s \in Range(Merged) : tree[s.key] \in What
    BY <2>1, InitTree DEF What
  <2> QED
    BY <2>1, <2>2 DEF Node
<1> HIDE DEF N
<1>4. /\ base \in Base
      /\ \A k \in Key : base.child[k] < table.next
      /\ \A k \in Key : base.child[k] # 0 =>
           \E n \in N : /\ base.child[k] = table.ino[n.path.key]
                        /\ table.ino[Parent(n.path.key)] = k[1] /\ Name(n.path.key) = k[2]
  <2>1. BuiltOf(Build(N, table), N, table)
    BY <1>2, <1>3, BuildSound
  <2> QED
    BY <1>1, <2>1 DEF BuiltOf
<1>5. IndexSound(base, index) /\ (\A k \in Key : index.child[k] = 0) /\ 0 < table.next
  <2>1. IndexSound(base, EmptyIndex)
    BY EmptyIndexSound
  <2>2. \A k \in Key : EmptyIndex.child[k] = 0
    BY DEF EmptyIndex
  <2>3. 0 < table.next
    BY <1>2, TableParts DEF TableSound
  <2> QED
    BY <1>1, <2>1, <2>2, <2>3
<1>6. ASSUME NEW n \in Names, <<n>> \in Dirs, NEW i, i = base.child[<<1, n>>], i # 0
      PROVE  IsDirIno(i)
  <2>1. <<1, n>> \in Key
    BY <1>2, TableParts DEF Key
  <2>2. PICK m \in N : /\ i = table.ino[m.path.key]
                       /\ table.ino[Parent(m.path.key)] = 1 /\ Name(m.path.key) = n
    BY <1>4, <1>6, <2>1
  <2>3. m.path.key \in Paths /\ m.path.key \in AllPaths /\ Parent(m.path.key) \in AllPaths
    BY <1>3, PathParts DEF AllPaths
  <2>4. Parent(m.path.key) = Root
    BY <1>2, <2>2, <2>3, TableParts, ParentOfRoot DEF TableSound
  <2>5. m.path.key = <<n>>
    BY <2>2, <2>3, <2>4, SameParts, DirParts, <1>6
  <2>6. table.path[i].key = m.path.key
    BY <1>2, <1>6, <2>2, <2>3, TableParts DEF TableAgrees
  <2> QED
    BY <1>6, <2>5, <2>6 DEF IsDirIno
<1>7. \A n \in Names : <<n>> \in Dirs => <<1, n>> \in Key
  BY <1>2, TableParts DEF Key
<1> QED
  BY <1>2, <1>4, <1>5, <1>6, <1>7 DEF TablesSound

LEMMA InitSound ==
    ASSUME Init
    PROVE  Sound
<1>1. TreeSound /\ TablesSound /\ table.next \in Nat /\ table.next >= 2
  BY InitTree, InitTables, TableParts DEF TablesSound, TableSound
<1>2. /\ nodes = [i \in Ino |-> NoPath] /\ entries = [s \in SpelledDirs |-> NoListing]
      /\ blobs = entries /\ mut = NoChange /\ req = Idle
      /\ late = {} /\ revived = {} /\ misfiled = {} /\ changes = 0
  BY DEF Init
<1>3. NodesSound
  BY <1>2, NotPaths DEF NodesSound, AllPaths
<1>4. CachesSound
  BY <1>2 DEF CachesSound
<1>5. MutSound
  <2>1. RootPath \in Spelled /\ 0 \in 0..MaxIno
    BY RootPathParts, PathsAssumption
  <2>2. NoChange \in MutRecord
    BY <2>1 DEF NoChange, MutRecord, MutSteps
  <2> QED
    BY <1>1, <1>2, <2>2 DEF MutSound, NoChange
<1>6. ReqSound /\ SeenSound
  BY <1>2 DEF ReqSound, SeenSound
<1> QED
  BY <1>1, <1>3, <1>4, <1>5, <1>6 DEF Sound

LEMMA SoundStutters == ASSUME Sound, UNCHANGED vars PROVE Sound'
BY DEF Sound, vars, caches, TreeSound, IsDir, TablesSound, IsDirIno, NodesSound, CachesSound,
       MutSound, Below, ReqSound, SeenSound

LEMMA SoundStep == ASSUME Sound, [Next]_vars PROVE Sound'
<1>1. CASE Next
  BY <1>1, TreeStep, TablesStep, NodesStep, CachesStep, MutStep, ReqStep, SeenStep DEF Sound
<1> QED
  BY <1>1, SoundStutters

\* The inductive invariant: what each variable is, and what the steps of a change and
\* of a request rely on.
THEOREM SoundAlways == Spec => []Sound
<1>1. Init => Sound
  BY InitSound
<1>2. Sound /\ [Next]_vars => Sound'
  BY SoundStep
<1> QED
  BY <1>1, <1>2, PTL DEF Spec

LEMMA SoundIsTyped == ASSUME Sound PROVE TypeOK
<1>1. /\ tree \in [Paths -> What \cup {"absent"}]
      /\ \A p \in Paths : tree[p] # "absent" => (tree[p] = "dir" <=> p \in Dirs)
      /\ shown \in [{p \in Paths : Parent(p) = Root} -> Spellings \cup {"none"}]
      /\ store \subseteq Paths /\ handle \in Spelled \cup {Idle}
  BY DEF Sound, TreeSound
<1>2. /\ table \in Table /\ TableAgrees(table) /\ base \in Base
      /\ index.child \in [Key -> 0..MaxIno] /\ index.tombstones \subseteq Key
      /\ index.node \in [Ino -> Node \cup {NoNode}] /\ index.hidden \subseteq Ino
      /\ index.expired <= Len(index.expiry) /\ NegativesAgree(base, index)
  BY SoundAgrees, IndexParts DEF Sound, TablesSound, TableSound, IndexSound, Alike
<1>3. nodes \in [Ino -> AllPaths \cup {NoPath, Dangling}]
  <2>1. nodes \in [Ino -> Paths \cup {NoPath, Dangling}]
    BY DEF Sound, NodesSound
  <2> QED
    BY <2>1 DEF AllPaths
<1>4. \A cache \in {entries, blobs} : DOMAIN cache = SpelledDirs /\
         \A s \in SpelledDirs : cache[s] = NoListing \/ cache[s] \subseteq Names
  BY DEF Sound, CachesSound
<1>5. late \cup revived \subseteq Paths /\ misfiled \subseteq AllPaths /\ changes \in Nat
  BY DEF Sound, SeenSound
<1> QED
  BY <1>1, <1>2, <1>3, <1>4, <1>5 DEF TypeOK

\* Each variable has its type, the two maps of the inode table agree, and so do the
\* two containers of the negative cache: whatever the paths, the numbers of inodes and
\* changes and the size of the cache.
THEOREM TypeInvariant == Spec => []TypeOK
<1>1. Sound => TypeOK
  BY SoundIsTyped
<1> QED
  BY <1>1, SoundAlways, PTL

-----------------------------------------------------------------------------
(* No cached pointer dangles, when no name is spelled in two ways.          *)

OneSpelling == \A s, t \in Spellings : s = t

\* What the change of the tree frees is at, below or above a path that it invalidates.
LEMMA FreedIsTouched ==
    ASSUME OneSpelling, Sound, ChangeTree, NEW q \in Paths, NEW a \in Spelled, a.key = q,
           q \in Removed \/ (q = Target.key /\ Puts)
    PROVE  \E s \in {mut.path} \cup (IF mut.kind = "rename" THEN {mut.to} ELSE {}) : Touches(a, s)
<1>1. /\ mut.path \in Spelled /\ mut.path.key \in Paths /\ Target \in Spelled
      /\ a.sp = mut.path.sp /\ a.sp = Target.sp
  BY ChangeTreeParts DEF OneSpelling, Spelled
<1>2. CASE q \in Removed
  <2>1. q = mut.path.key \/ Parent(q) = mut.path.key \/ q = Parent(mut.path.key)
    BY <1>1, <1>2, GoneParts DEF Removed
  <2>2. Within(q, mut.path.key) \/ Within(mut.path.key, q)
    BY <1>1, <2>1, WithinParts
  <2> QED
    BY <1>1, <2>2 DEF Touches, BelowPath
<1>3. CASE q = Target.key
  <2>1. Within(q, Target.key)
    BY <1>3, WithinParts
  <2>2. Touches(a, Target)
    BY <1>1, <2>1 DEF Touches, BelowPath
  <2> QED
    BY <2>2 DEF Target
<1> QED
  BY <1>2, <1>3

LEMMA DanglingStep ==
    ASSUME OneSpelling, Sound, NoDanglingNode, Next
    PROVE  NoDanglingNode'
<1>1. nodes \in [Ino -> Paths \cup {NoPath, Dangling}]
  BY DEF Sound, NodesSound
<1>2. CASE ChangeTree
  <2> DEFINE changed == {mut.path} \cup (IF mut.kind = "rename" THEN {mut.to} ELSE {})
             freed   == Removed \cup (IF Puts /\ mut.what # "dir" THEN {Target.key} ELSE {})
  <2>1. nodes' = Forget(changed, freed)
    BY <1>2 DEF ChangeTree, Removed, Puts, Target
  <2>2. SUFFICES ASSUME NEW i \in Ino, nodes[i] \in freed,
                        \A s \in changed : ~Touches(table.path[i], s)
                 PROVE  FALSE
    BY <1>1, <2>1, NotPaths DEF NoDanglingNode, Forget
  <2>3. freed \subseteq Paths
    BY <1>2, ChangeTreeParts
  <2>4. table.path[i] # NoPath
    BY <2>2 DEF Touches
  <2>5. table.path[i] \in Spelled /\ table.path[i].key = nodes[i] /\ nodes[i] \in Paths
    BY <2>2, <2>3, <2>4, TableParts DEF Sound, TablesSound, NodesSound
  <2>6. nodes[i] \in Removed \/ (nodes[i] = Target.key /\ Puts)
    BY <2>2
  <2> HIDE DEF changed, freed
  <2>7. \E s \in changed : Touches(table.path[i], s)
    BY <1>2, <2>5, <2>6, FreedIsTouched DEF changed
  <2> QED
    BY <2>2, <2>7
<1>3. CASE TreeSection \/ GetattrTree
  <2>1. req # Idle /\ req.step \in {"tree", "stat"} /\ Resolved(req.ino) # Dangling
        /\ CacheNode(req.ino)
    BY <1>3 DEF TreeSection, GetattrTree
  <2>2. \A j \in Ino : nodes'[j] = nodes[j] \/ nodes'[j] \in Paths
    BY <2>1, CacheNodeParts
  <2> QED
    BY <2>2, NotPaths DEF NoDanglingNode, AllPaths
<1>4. CASE UNCHANGED nodes
  BY <1>4 DEF NoDanglingNode
<1> QED
  BY <1>2, <1>3, <1>4, Writers

\* The nodes a change frees are dropped from the cache of nodes by inode in the same
\* critical section: a cached node has the path of its inode, and what is freed lies at,
\* below or above a path that is invalidated.  With two spellings of one name it does
\* not hold, for the comparison is of spelled paths.
THEOREM NoNodeDangles ==
    ASSUME OneSpelling
    PROVE  Spec => []NoDanglingNode
<1>1. Init => Sound /\ NoDanglingNode
  <2>1. Init => NoDanglingNode
    BY NotPaths DEF Init, NoDanglingNode
  <2> QED
    BY <2>1, InitSound
<1>2. (Sound /\ NoDanglingNode) /\ [Next]_vars => (Sound /\ NoDanglingNode)'
  <2>1. UNCHANGED vars /\ NoDanglingNode => NoDanglingNode'
    BY DEF vars, caches, NoDanglingNode
  <2> QED
    BY <2>1, SoundStep, DanglingStep
<1> QED
  BY <1>1, <1>2, PTL DEF Spec

-----------------------------------------------------------------------------
(* The index tells what the tree has.  What a change has done to one and not *)
(* to the other is in flight; what a request has published late is excused.  *)

NoFullRename == "rename full directory" \notin Habits

\* The key of a path in the index, and the node of an inode.
KeyOf(p)  == <<table.ino[Parent(p)], Name(p)>>
NodeAt(i) == NodeOf(base, index, i)

\* In the tree already and not in the index yet; in the index still and not in the tree.
Arrives(p) ==
    \/ p = mut.path.key /\ mut.step = "publish" /\ mut.kind \in {"create", "flush", "mkdir", "phantom"}
    \/ p = mut.path.key /\ mut.step = "listings" /\ mut.kind \in {"mkdir", "phantom"}
    \/ p = mut.to.key /\ mut.step \in {"inodes", "tombstone", "publish"} /\ mut.kind = "rename"
Departs(p) == p = mut.path.key /\ mut.step \in {"inodes", "tombstone"}
InFlight(p) == Arrives(p) \/ Departs(p)

Emptied(d) == \A q \in Paths : Parent(q) = d => tree[q] = "absent"

\* What the steps of a change rely on, from the guards of the handler that began it.
MutGoes ==
    /\ mut.step = "tree" /\ mut.kind \in {"rmdir", "rename"} =>
          /\ tree[mut.path.key] # "absent"
          /\ mut.path.key \in Dirs => Emptied(mut.path.key)
          /\ mut.path.key \in Dirs /\ mut.kind = "rename" => Emptied(mut.to.key)
    /\ mut.step = "tree" /\ mut.kind = "create" => table.ino[Parent(mut.path.key)] # 0
    /\ mut.step = "tree" /\ mut.kind = "rename" => table.ino[Parent(mut.to.key)] # 0
    /\ mut.step = "inodes" /\ mut.path.key \in Dirs => Emptied(mut.to.key)
    /\ mut.step = "tombstone" => tree[mut.path.key] = "absent"
    /\ mut.step = "publish" /\ mut.kind \in {"create", "flush"} => tree[mut.path.key] = mut.what
    /\ mut.step \in {"inodes", "tombstone", "publish"} /\ mut.kind = "rename" =>
          tree[mut.to.key] = mut.what /\ mut.ino # 0
    /\ mut.step = "tombstone" /\ mut.kind \in {"unlink", "rmdir"} /\ mut.ino # 0 =>
          table.ino[mut.path.key] = mut.ino

\* What is in the tree has an inode, and so has the directory of a leaf; that of a file
\* which a flush has brought back gets one with it.
LeavesNumbered ==
    \A p \in Leaves : tree[p] # "absent" /\ ~Arrives(p) =>
        table.ino[p] # 0 /\ table.ino[Parent(p)] # 0
DirsNumbered ==
    \A d \in Dirs : tree[d] # "absent" /\ ~Arrives(d) =>
        \/ table.ino[d] # 0
        \/ mut.kind = "flush" /\ mut.step = "publish" /\ d = Parent(mut.path.key)

\* An inode that has not been given out is nowhere in the index.
KeyUnused(k) == index.child[k] = 0 /\ base.child[k] = 0 /\ k \notin index.tombstones
Unused ==
    /\ \A k \in Key : k[1] >= table.next => KeyUnused(k)
    /\ \A i \in Ino : i >= table.next => index.node[i] = NoNode /\ base.node[i] = NoNode

\* The index tells of a leaf what the tree has.
TellsAbsent(k) == k \in index.tombstones \/ (index.child[k] = 0 /\ base.child[k] = 0)
TellsPresent(k, i, what) ==
    /\ i # 0 /\ k \notin index.tombstones
    /\ NodeAt(i) # NoNode /\ NodeAt(i).what = what
    /\ \/ index.child[k] = i /\ index.node[i] # NoNode
       \/ index.child[k] = 0 /\ base.child[k] = i
TellsLeaf(p) ==
    /\ tree[p] = "absent" => TellsAbsent(KeyOf(p))
    /\ tree[p] # "absent" => TellsPresent(KeyOf(p), table.ino[p], tree[p])

LeavesTold ==
    \A p \in Leaves \ late : ~InFlight(p) /\ table.ino[Parent(p)] # 0 => TellsLeaf(p)

\* The steps the change has done.
StepsDone ==
    CASE mut.step = "none"      -> MutSteps \ {"none"}
      [] mut.step = "tree"      -> {}
      [] mut.step = "inodes"    -> {"tree"}
      [] mut.step = "tombstone" -> {"tree", "inodes"}
      [] mut.step = "publish"   -> IF mut.kind \in {"mkdir", "phantom"} THEN {"tree", "listings"}
                                   ELSE {"tree", "inodes", "tombstone"}
      [] mut.step = "listings"  -> IF mut.kind \in {"mkdir", "phantom"} THEN {"tree"}
                                   ELSE {"tree", "inodes", "tombstone", "publish"}

\* What a request has read from the tree is so as long as no change has got further.
ReadSound ==
    req # Idle =>
    /\ req.version[1] <= changes
    /\ req.version[1] = changes => req.version[2] \in StepsDone \cup {mut.step}
    /\ req.version = Progress =>
        /\ req.kind = "lookup" /\ req.step = "inode" /\ table.path[req.ino] # NoPath =>
              tree[Append(table.path[req.ino].key, req.name)] = req.what
        /\ req.kind = "getattr" /\ req.step = "path" /\ table.path[req.ino] # NoPath =>
              tree[table.path[req.ino].key] = req.what
        /\ req.step = "heal" =>
              tree[req.path.key] = req.what /\ table.ino[req.path.key] = req.answer

LeavesSound == Sound /\ MutGoes /\ LeavesNumbered /\ DirsNumbered /\ Unused /\ LeavesTold /\ ReadSound

\* What the record of a change is after each of its steps.
MutKept == mut'.kind = mut.kind /\ mut'.path = mut.path /\ mut'.to = mut.to /\ mut'.what = mut.what

LEMMA MutFields ==
    ASSUME Sound, Next
    PROVE  /\ ChangeTree => /\ MutKept /\ mut.step = "tree" /\ mut.kind \in MutKinds
                            /\ mut'.ino = table.ino[mut.path.key]
                            /\ mut.kind \in {"create", "flush"} => mut'.step = "publish"
                            /\ mut.kind \in {"mkdir", "phantom"} => mut'.step = "listings"
                            /\ mut.kind = "rename" => mut'.step = "inodes"
                            /\ mut.kind \in {"unlink", "rmdir"} => mut'.step = "tombstone"
           /\ ChangeInodes => /\ MutKept /\ mut.step = "inodes" /\ mut.kind = "rename"
                              /\ mut'.ino = mut.ino /\ mut'.step = "tombstone"
           /\ TombstonePath => /\ MutKept /\ mut.step = "tombstone" /\ mut'.ino = mut.ino
                               /\ mut.kind \in {"unlink", "rmdir", "rename"}
                               /\ mut.kind = "rename" => mut'.step = "publish"
                               /\ mut.kind # "rename" => mut'.step = "listings"
           /\ PublishChange => /\ mut.step = "publish"
                               /\ mut.kind \in {"flush", "mkdir", "phantom"} => mut' = NoChange
                               /\ mut.kind \in {"create", "rename"} =>
                                     MutKept /\ mut'.step = "listings"
                               /\ mut.kind \in {"create", "flush", "mkdir", "phantom", "rename"}
           /\ InvalidateListings => /\ mut.step = "listings"
                                    /\ mut.kind \in {"mkdir", "phantom"} =>
                                          MutKept /\ mut'.step = "publish"
                                    /\ mut.kind \notin {"mkdir", "phantom"} => mut' = NoChange
<1>1. mut \in MutRecord
  BY DEF Sound, MutSound
<1>2. ASSUME ChangeTree
      PROVE  /\ MutKept /\ mut.step = "tree" /\ mut.kind \in MutKinds
             /\ mut'.ino = table.ino[mut.path.key]
             /\ mut.kind \in {"create", "flush"} => mut'.step = "publish"
             /\ mut.kind \in {"mkdir", "phantom"} => mut'.step = "listings"
             /\ mut.kind = "rename" => mut'.step = "inodes"
             /\ mut.kind \in {"unlink", "rmdir"} => mut'.step = "tombstone"
  <2> DEFINE step == CASE mut.kind \in {"create", "flush"}  -> "publish"
                       [] mut.kind \in {"mkdir", "phantom"} -> "listings"
                       [] mut.kind = "rename"               -> "inodes"
                       [] OTHER                             -> "tombstone"
  <2>1. mut' = [mut EXCEPT !.step = step, !.ino = table.ino[mut.path.key]]
    BY <1>2 DEF ChangeTree
  <2>2. /\ mut.kind \in {"create", "flush"} => step = "publish"
        /\ mut.kind \in {"mkdir", "phantom"} => step = "listings"
        /\ mut.kind = "rename" => step = "inodes"
        /\ mut.kind \in {"unlink", "rmdir"} => step = "tombstone"
    OBVIOUS
  <2> HIDE DEF step
  <2> QED
    BY <1>1, <1>2, <2>1, <2>2, ChangeTreeParts DEF MutRecord, MutKept
<1>3. ASSUME ChangeInodes
      PROVE  /\ MutKept /\ mut.step = "inodes" /\ mut.kind = "rename"
             /\ mut'.ino = mut.ino /\ mut'.step = "tombstone"
  BY <1>1, <1>3, InodesStep DEF ChangeInodes, MutRecord, MutKept
<1>4. ASSUME TombstonePath
      PROVE  /\ MutKept /\ mut.step = "tombstone" /\ mut'.ino = mut.ino
             /\ mut.kind \in {"unlink", "rmdir", "rename"}
             /\ mut.kind = "rename" => mut'.step = "publish"
             /\ mut.kind # "rename" => mut'.step = "listings"
  <2>1. mut.kind \in {"unlink", "rmdir", "rename"}
    BY <1>4, TombstoneParts
  <2> QED
    BY <1>1, <1>4, <2>1 DEF TombstonePath, MutRecord, MutKept
<1>5. ASSUME PublishChange
      PROVE  /\ mut.step = "publish"
             /\ mut.kind \in {"flush", "mkdir", "phantom"} => mut' = NoChange
             /\ mut.kind \in {"create", "rename"} => MutKept /\ mut'.step = "listings"
             /\ mut.kind \in {"create", "flush", "mkdir", "phantom", "rename"}
  <2>1. mut.kind \in {"create", "flush", "mkdir", "phantom", "rename"}
    BY <1>5, PublishChangeParts
  <2> QED
    BY <1>1, <1>5, <2>1 DEF PublishChange, MutRecord, MutKept
<1>6. ASSUME InvalidateListings
      PROVE  /\ mut.step = "listings"
             /\ mut.kind \in {"mkdir", "phantom"} => MutKept /\ mut'.step = "publish"
             /\ mut.kind \notin {"mkdir", "phantom"} => mut' = NoChange
  BY <1>1, <1>6 DEF InvalidateListings, MutRecord, MutKept
<1> QED
  BY <1>2, <1>3, <1>4, <1>5, <1>6

\* The number of the directory a name is looked for in is that of its path.
LEMMA DirInoOfPath ==
    ASSUME TablesSound, NEW p \in Paths, DirIno(Parent(p)) # 0,
           table.path[DirIno(Parent(p))] # NoPath
    PROVE  table.ino[table.path[DirIno(Parent(p))].key] = DirIno(Parent(p))
<1>1. DirIno(Parent(p)) \in Ino
  BY TwoLevels, DirInoParts
<1> QED
  BY <1>1, TableParts DEF TablesSound, TableAgrees

\* A directory has an inode, to which its name leads unless it is the root.
FoundDir(d) == /\ d \in AllPaths /\ table.ino[d] # 0
               /\ d # Root => \E n \in Names : HitOf(1, n).ino = table.ino[d]

\* What the guards of a handler say of the change it begins.
LEMMA MutBegins ==
    ASSUME NoFullRename, Sound, Next, mut' # mut, ~ChangeTree, ~ChangeInodes, ~TombstonePath,
           ~PublishChange, ~InvalidateListings
    PROVE  /\ mut = NoChange /\ mut'.step = "tree" /\ UNCHANGED <<tree, table, base, index>>
           /\ mut'.kind \in {"rmdir", "rename"} =>
                 /\ tree[mut'.path.key] # "absent"
                 /\ mut'.path.key \in Dirs => Emptied(mut'.path.key)
                 /\ mut'.path.key \in Dirs /\ mut'.kind = "rename" => Emptied(mut'.to.key)
           /\ mut'.kind = "create" => FoundDir(Parent(mut'.path.key))
           /\ mut'.kind = "rename" => FoundDir(Parent(mut'.to.key))
<1>1. TreeSound /\ TablesSound
  BY DEF Sound
<1>2. \A d \in Paths : Children(d) = {} => Emptied(d)
  BY DEF Children, Emptied
<1>3. ASSUME NEW p \in Paths, DirIno(Parent(p)) # 0, table.path[DirIno(Parent(p))] # NoPath,
             NEW sp \in Spellings
      PROVE  FoundDir(Parent(Canonical(table.path[DirIno(Parent(p))], Name(p), sp).key))
  <2>1. Canonical(table.path[DirIno(Parent(p))], Name(p), sp).key =
           Append(table.path[DirIno(Parent(p))].key, Name(p))
    BY <1>1, <1>3, ChildOfDirIno
  <2>2. Parent(p) \in Dirs \cup {Root} /\ Name(p) \in Names
    BY TwoLevels, PathParts
  <2>3. table.path[DirIno(Parent(p))].key \in Dirs \cup {Root}
    BY <1>1, <1>3, <2>2, DirInoParts
  <2>4. Parent(Append(table.path[DirIno(Parent(p))].key, Name(p))) =
           table.path[DirIno(Parent(p))].key
    BY <2>2, <2>3, AppendParts
  <2>5. table.ino[table.path[DirIno(Parent(p))].key] = DirIno(Parent(p))
    BY <1>1, <1>3, DirInoOfPath
  <2>6. table.path[DirIno(Parent(p))].key # Root =>
           \E n \in Names : HitOf(1, n).ino = DirIno(Parent(p))
    <3>1. Parent(p) # Root => Parent(p)[1] \in Names
      BY <2>2, NamespaceAssumption, TwoLevels
    <3>2. Parent(p) = Root => table.path[DirIno(Parent(p))].key = Root
      BY <1>1, <1>3, <2>2, DirInoParts
    <3> QED
      BY <3>1, <3>2 DEF DirIno
  <2>7. table.path[DirIno(Parent(p))].key \in AllPaths
    BY <2>3, NamespaceAssumption DEF AllPaths
  <2> QED
    BY <1>3, <2>1, <2>4, <2>5, <2>6, <2>7 DEF FoundDir
<1>4. ASSUME NEW p \in Paths, NEW sp \in Spellings, Create(p, sp)
      PROVE  /\ mut'.step = "tree" /\ mut'.kind = "create"
             /\ FoundDir(Parent(mut'.path.key))
  <2> DEFINE s == Canonical(table.path[DirIno(Parent(p))], Name(p), sp)
  <2>1. /\ DirIno(Parent(p)) # 0 /\ table.path[DirIno(Parent(p))] # NoPath
        /\ Begin("create", s, RootPath, "empty", {DirIno(Parent(p))})
    BY <1>4 DEF Create
  <2>2. FoundDir(Parent(s.key))
    BY <1>3, <2>1
  <2> HIDE DEF s
  <2> QED
    BY <2>1, <2>2 DEF Begin
<1>5. ASSUME NEW p \in Paths, NEW sp \in Spellings, Mkdir(p, sp)
      PROVE  mut'.step = "tree" /\ mut'.kind = "mkdir"
  <2> DEFINE s == Canonical(RootPath, Name(p), sp)
  <2>1. Begin("mkdir", s, RootPath, "dir", {1})
    BY <1>5 DEF Mkdir
  <2> HIDE DEF s
  <2> QED
    BY <2>1 DEF Begin
<1>6. ASSUME NEW p \in Paths, Unlink(p)
      PROVE  mut'.step = "tree" /\ mut'.kind = "unlink"
  <2> DEFINE s == Canonical(table.path[DirIno(Parent(p))], Name(p), AnySpelling)
  <2>1. Begin("unlink", s, RootPath, "absent", {DirIno(Parent(p))})
    BY <1>6 DEF Unlink
  <2> HIDE DEF s
  <2> QED
    BY <2>1 DEF Begin
<1>7. ASSUME NEW p \in Paths, Rmdir(p)
      PROVE  /\ mut'.step = "tree" /\ mut'.kind = "rmdir"
             /\ tree[mut'.path.key] # "absent" /\ Emptied(mut'.path.key)
  <2> DEFINE s == Canonical(RootPath, Name(p), AnySpelling)
  <2>1. /\ p \in Dirs /\ tree[p] = "dir" /\ Children(p) = {}
        /\ Begin("rmdir", s, RootPath, "absent", {1, KnownIno(p)})
    BY <1>7 DEF Rmdir
  <2>2. s.key = p
    <3>1. Append(Root, Name(p)) = p /\ Name(p) \in Names
      BY <2>1, DirParts, PathParts
    <3> QED
      BY <1>1, <3>1, RootPathParts, Spelt, CanonicalParts
  <2> HIDE DEF s
  <2>3. mut'.step = "tree" /\ mut'.kind = "rmdir" /\ mut'.path.key = p
    BY <2>1, <2>2 DEF Begin
  <2> QED
    BY <1>2, <2>1, <2>3
<1>8. ASSUME NEW p \in Paths, NEW q \in Paths, NEW sp \in Spellings, Rename(p, q, sp)
      PROVE  /\ mut'.step = "tree" /\ mut'.kind = "rename"
             /\ tree[mut'.path.key] # "absent" /\ FoundDir(Parent(mut'.to.key))
             /\ mut'.path.key \in Dirs => Emptied(mut'.path.key) /\ Emptied(mut'.to.key)
  <2> DEFINE s == Canonical(table.path[DirIno(Parent(p))], Name(p), sp)
             t == Canonical(table.path[DirIno(Parent(q))], Name(q), sp)
             dirs == {DirIno(Parent(p)), DirIno(Parent(q))} \cup ({KnownIno(q)} \ {0})
  <2>1. /\ DirIno(Parent(q)) # 0 /\ table.path[DirIno(Parent(q))] # NoPath
        /\ s.key = p /\ t.key = q /\ tree[p] # "absent"
        /\ Begin("rename", s, t, tree[p], dirs)
    BY <1>8 DEF Rename
  <2>2. p \in Dirs => Children(p) = {} /\ Children(q) = {}
    BY <1>8 DEF Rename, NoFullRename
  <2>3. FoundDir(Parent(t.key))
    BY <1>3, <2>1
  <2> HIDE DEF s, t, dirs
  <2>4. mut'.step = "tree" /\ mut'.kind = "rename" /\ mut'.path.key = p /\ mut'.to.key = q
    BY <2>1 DEF Begin
  <2> QED
    BY <1>2, <2>1, <2>2, <2>3, <2>4
<1>9. ASSUME Flush
      PROVE  mut'.step = "tree" /\ mut'.kind = "flush"
  BY <1>9 DEF Flush, Begin
<1>10. ASSUME CreatePhantom
       PROVE  mut'.step = "tree" /\ mut'.kind = "phantom" /\ mut = NoChange
  <2> DEFINE s == Canonical(RootPath, req.name, AnySpelling)
  <2>1. /\ mut = NoChange
        /\ mut' = [NoChange EXCEPT !.kind = "phantom", !.step = "tree", !.what = "dir",
                                   !.path = s, !.dirs = req.dirs]
    BY <1>10 DEF CreatePhantom
  <2> HIDE DEF s
  <2> QED
    BY <2>1 DEF NoChange
<1>11. \/ /\ mut = NoChange
          /\ \/ \E p \in Paths, sp \in Spellings : Create(p, sp) \/ Mkdir(p, sp)
             \/ \E p, q \in Paths, sp \in Spellings : Rename(p, q, sp)
             \/ \E p \in Paths : Unlink(p) \/ Rmdir(p)
             \/ Flush
       \/ CreatePhantom
  BY MutWriters, Zenon
<1>12. UNCHANGED <<tree, table, base, index>>
  BY <1>11, Frames
<1>13. CASE \E p \in Paths, sp \in Spellings : Create(p, sp) \/ Mkdir(p, sp)
  BY <1>4, <1>5, <1>11, <1>12, <1>13, <1>10
<1>14. CASE \E p, q \in Paths, sp \in Spellings : Rename(p, q, sp)
  BY <1>8, <1>11, <1>12, <1>14, <1>10
<1>15. CASE \E p \in Paths : Unlink(p) \/ Rmdir(p)
  BY <1>6, <1>7, <1>11, <1>12, <1>15, <1>10
<1>16. CASE Flush \/ CreatePhantom
  BY <1>9, <1>10, <1>11, <1>12, <1>16
<1> QED
  BY <1>11, <1>13, <1>14, <1>15, <1>16

\* A change of the tree, if nothing with files in it is renamed or removed, has no
\* effect on other leaves than those it is about.
LEMMA LeafChanges ==
    ASSUME Sound, MutGoes, Next, ChangeTree, NEW q \in Leaves, tree'[q] # tree[q]
    PROVE  InFlight(q)' /\ q \in {mut.path.key, mut.to.key}
<1>1. /\ MutKept /\ mut.step = "tree" /\ mut.kind \in MutKinds
      /\ mut.kind \in {"create", "flush"} => mut'.step = "publish"
      /\ mut.kind = "rename" => mut'.step = "inodes"
      /\ mut.kind \in {"unlink", "rmdir"} => mut'.step = "tombstone"
  BY MutFields
<1>2. /\ q \in Paths /\ q \notin Dirs /\ mut.path.key \in Paths /\ Target.key \in Paths
      /\ Removed \subseteq Paths
      /\ tree'[q] = IF Puts /\ q = Target.key THEN mut.what
                    ELSE IF Puts /\ q = Parent(Target.key) /\ (q \in Removed \/ tree[q] = "absent")
                           THEN "dir"
                    ELSE IF q \in Removed THEN "absent" ELSE tree[q]
  BY ChangeTreeParts, LeafParts
<1>3. q # Parent(Target.key) /\ q # Parent(mut.path.key)
  BY <1>2, LeafParts
<1>4. CASE Puts /\ q = Target.key
  <2>1. mut.kind \notin {"mkdir", "phantom"}
    BY <1>2, <1>4 DEF Sound, MutSound, Target
  <2>2. CASE mut.kind \in {"create", "flush"}
    BY <1>1, <1>4, <2>2 DEF InFlight, Arrives, Target, MutKept
  <2>3. CASE mut.kind = "rename"
    BY <1>1, <1>4, <2>3 DEF InFlight, Arrives, Target, MutKept
  <2> QED
    BY <1>4, <2>1, <2>2, <2>3 DEF Puts
<1>5. CASE ~(Puts /\ q = Target.key)
  <2>1. q \in Removed /\ tree[q] # "absent"
    BY <1>2, <1>3, <1>5
  <2>2. mut.kind \in {"unlink", "rmdir", "rename"} /\ (q = mut.path.key \/ Parent(q) = mut.path.key)
    BY <1>2, <1>3, <2>1, GoneParts DEF Removed
  <2>3. q = mut.path.key
    <3>1. ASSUME Parent(q) = mut.path.key PROVE FALSE
      <4>1. mut.path.key \in Dirs
        BY <1>2, <3>1, LeafParts DEF Leaves
      <4>2. mut.kind \in {"rmdir", "rename"}
        BY <2>2, <4>1 DEF Sound, MutSound, Leaves
      <4>3. Emptied(mut.path.key)
        BY <1>1, <4>1, <4>2 DEF MutGoes
      <4> QED
        BY <1>2, <2>1, <3>1, <4>3 DEF Emptied
    <3> QED
      BY <2>2, <3>1
  <2>4. mut'.step \in {"inodes", "tombstone"}
    BY <1>1, <2>2
  <2> QED
    BY <1>1, <2>3, <2>4 DEF InFlight, Departs, MutKept
<1> QED
  BY <1>4, <1>5

LEMMA MutGoesStep ==
    ASSUME NoFullRename, Sound, MutGoes, LeavesNumbered, DirsNumbered, Next
    PROVE  MutGoes'
<1>1. mut \in MutRecord /\ TableSound(table)
  BY DEF Sound, MutSound, TablesSound
<1>2. CASE UNCHANGED mut
  <2>1. UNCHANGED tree /\ Grown(table, table')
    BY <1>2, SameMut
  <2>2. \A p \in AllPaths : table.ino[p] # 0 => table'.ino[p] = table.ino[p]
    BY <2>1 DEF Grown
  <2>3. mut.path.key \in AllPaths /\ mut.to.key \in AllPaths
    BY <1>1 DEF MutRecord, Spelled
  <2>4. /\ mut.kind = "create" => Parent(mut.path.key) \in AllPaths
        /\ mut.kind = "rename" => Parent(mut.to.key) \in AllPaths
    BY PathsAssumption DEF Sound, MutSound, Leaves
  <2> QED
    BY <1>2, <2>1, <2>2, <2>3, <2>4 DEF MutGoes, Emptied
<1>3. CASE ChangeTree
  <2>1. /\ MutKept /\ mut.step = "tree" /\ mut.kind \in MutKinds
        /\ mut'.ino = table.ino[mut.path.key]
        /\ mut.kind \in {"create", "flush"} => mut'.step = "publish"
        /\ mut.kind \in {"mkdir", "phantom"} => mut'.step = "listings"
        /\ mut.kind = "rename" => mut'.step = "inodes"
        /\ mut.kind \in {"unlink", "rmdir"} => mut'.step = "tombstone"
        /\ UNCHANGED table
    BY <1>3, MutFields, Frames
  <2>2. /\ mut.path.key \in Paths /\ Target.key \in Paths /\ Removed \subseteq Paths
        /\ \A q \in Paths : tree'[q] =
                IF Puts /\ q = Target.key THEN mut.what
                ELSE IF Puts /\ q = Parent(Target.key) /\ (q \in Removed \/ tree[q] = "absent")
                       THEN "dir"
                ELSE IF q \in Removed THEN "absent" ELSE tree[q]
    BY <1>3, ChangeTreeParts
  <2>3. Puts => tree'[Target.key] = mut.what
    BY <2>2
  <2>4. mut.kind \in {"unlink", "rmdir"} => tree'[mut.path.key] = "absent"
    <3>1. mut.kind \in {"unlink", "rmdir"} => ~Puts /\ (mut.path.key \in Removed \/ tree[mut.path.key] = "absent")
      BY <2>2, GoneParts DEF Puts, Removed
    <3> QED
      BY <2>2, <3>1
  <2>5. mut.kind = "rename" => table.ino[mut.path.key] # 0
    <3>1. mut.kind = "rename" => tree[mut.path.key] # "absent" /\ ~Arrives(mut.path.key)
      BY <2>1 DEF MutGoes, Arrives
    <3> QED
      BY <2>1, <2>2, <3>1 DEF LeavesNumbered, DirsNumbered, Leaves
  <2>6. mut.kind = "rename" /\ mut.path.key \in Dirs => Emptied(mut.to.key)'
    <3> SUFFICES ASSUME mut.kind = "rename", mut.path.key \in Dirs, NEW q \in Paths,
                        Parent(q) = mut.to.key, tree'[q] # "absent"
                 PROVE  FALSE
      BY <2>1 DEF Emptied, MutKept
    <3>1. mut.to.key \in Dirs /\ Emptied(mut.to.key)
      BY <2>1 DEF Sound, MutSound, MutGoes
    <3>2. q \in Leaves
      BY <3>1, DirParts DEF Leaves
    <3>3. tree'[q] # tree[q]
      BY <3>1 DEF Emptied
    <3>4. q \in {mut.path.key, mut.to.key}
      BY <1>3, <3>2, <3>3, LeafChanges
    <3> QED
      BY <3>1, <3>2, <3>4 DEF Leaves
  <2> QED
    BY <2>1, <2>3, <2>4, <2>5, <2>6 DEF MutGoes, MutKept, MutKinds, Puts, Target
<1>4. CASE ChangeInodes
  <2>1. /\ MutKept /\ mut.step = "inodes" /\ mut.kind = "rename"
        /\ mut'.ino = mut.ino /\ mut'.step = "tombstone" /\ UNCHANGED tree
    BY <1>4, MutFields, Frames
  <2>2. tree[mut.path.key] = "absent"
    <3>1. mut.path.key \in Below(mut.path.key)
      BY <1>4, InodesStep, WithinParts DEF Below
    <3> QED
      BY <2>1, <3>1 DEF Sound, MutSound
  <2> QED
    BY <2>1, <2>2 DEF MutGoes, MutKept
<1>5. CASE TombstonePath
  <2>1. /\ MutKept /\ mut.step = "tombstone" /\ mut'.ino = mut.ino
        /\ mut.kind \in {"unlink", "rmdir", "rename"}
        /\ mut.kind = "rename" => mut'.step = "publish"
        /\ mut.kind # "rename" => mut'.step = "listings"
        /\ UNCHANGED <<tree, table>>
    BY <1>5, MutFields, Frames
  <2> QED
    BY <2>1 DEF MutGoes, MutKept
<1>6. CASE PublishChange \/ InvalidateListings
  <2>1. \/ mut' = NoChange
        \/ mut'.step = "listings"
        \/ mut'.step = "publish" /\ mut'.kind \in {"mkdir", "phantom"}
    BY <1>6, MutFields DEF MutKept
  <2> QED
    BY <2>1 DEF MutGoes, NoChange
<1>7. CASE /\ mut' # mut /\ ~ChangeTree /\ ~ChangeInodes /\ ~TombstonePath
           /\ ~PublishChange /\ ~InvalidateListings
  <2>1. /\ mut'.step = "tree" /\ UNCHANGED <<tree, table>>
        /\ mut'.kind \in {"rmdir", "rename"} =>
                 /\ tree[mut'.path.key] # "absent"
                 /\ mut'.path.key \in Dirs => Emptied(mut'.path.key)
                 /\ mut'.path.key \in Dirs /\ mut'.kind = "rename" => Emptied(mut'.to.key)
        /\ mut'.kind = "create" => table.ino[Parent(mut'.path.key)] # 0
        /\ mut'.kind = "rename" => table.ino[Parent(mut'.to.key)] # 0
    BY <1>7, MutBegins DEF FoundDir
  <2> QED
    BY <2>1 DEF MutGoes, Emptied
<1> QED
  BY <1>2, <1>3, <1>4, <1>5, <1>6, <1>7

\* A path that has just got an inode has one that was not given out before.
LEMMA GrownNew ==
    ASSUME NEW t, NEW u, TableSound(t), Grown(t, u), NEW p \in AllPaths,
           t.ino[p] = 0, u.ino[p] # 0
    PROVE  u.ino[p] \in Ino /\ u.ino[p] >= t.next
<1>1. u.ino[p] \in Ino /\ u.path[u.ino[p]] # NoPath /\ u.path[u.ino[p]].key = p
  BY TableParts DEF Grown, TableAgrees
<1>2. ASSUME u.ino[p] < t.next PROVE FALSE
  <2>1. t.path[u.ino[p]] = u.path[u.ino[p]]
    BY <1>1, <1>2 DEF Grown
  <2>2. t.ino[p] = u.ino[p]
    BY <1>1, <2>1 DEF TableSound, TableAgrees
  <2> QED
    BY <1>1, <2>2 DEF Ino
<1>3. t.next \in Nat
  BY TableParts
<1> QED
  BY <1>1, <1>2, <1>3 DEF Ino

\* What the rename of inodes does to the paths that neither are renamed nor replaced.
LEMMA InodesElsewhere ==
    ASSUME Sound, MutGoes, ChangeInodes
    PROVE  /\ \A p \in Leaves : p # mut.path.key /\ p # mut.to.key
                                /\ Parent(p) # mut.path.key /\ Parent(p) # mut.to.key =>
                 table'.ino[p] = table.ino[p]
           /\ \A d \in Dirs \cup {Root} : d # mut.path.key /\ d # mut.to.key =>
                 table'.ino[d] = table.ino[d]
           /\ mut.path.key \in Dirs => table'.ino[mut.path.key] = 0
           /\ mut.path.key \in Dirs => table'.ino[mut.to.key] =
                 IF table.ino[mut.path.key] = 0 THEN table.ino[mut.to.key]
                 ELSE table.ino[mut.path.key]
<1> DEFINE below == {p \in Paths : Within(p, mut.path.key) /\ table.ino[p] # 0}
           to(p) == Moved(p, mut.path.key, mut.to.key)
<1>1. /\ mut.path.key \in Paths /\ mut.to.key \in Paths /\ mut.path.key # mut.to.key
      /\ mut.path.key \in Dirs <=> mut.to.key \in Dirs
      /\ \A p \in below : table'.ino[to(p)] = table.ino[p]
      /\ \A p \in below : (\A q \in below : to(q) # p) => table'.ino[p] = 0
      /\ \A q \in AllPaths : q \notin below /\ (\A p \in below : to(p) # q) =>
            table'.ino[q] = table.ino[q]
  BY InodesStep
<1>2. \A p \in below : p \in Paths /\ (p = mut.path.key \/ Parent(p) = mut.path.key)
  BY <1>1, WithinParts
<1>3. ASSUME NEW r \in below
      PROVE  /\ r = mut.path.key => to(r) = mut.to.key
             /\ r # mut.path.key => to(r) \in Leaves /\ Parent(to(r)) = mut.to.key
             /\ to(r) \in Paths
  BY <1>1, MovedParts
<1>4. Root \notin below /\ Root \in AllPaths /\ Root \notin Paths
  BY ParentOfRoot, PathsAssumption
<1>5. \A d \in Dirs : d \in AllPaths /\ d \notin Leaves /\ Parent(d) = Root
  BY DirParts DEF Leaves
<1>6. mut.path.key # Root
  BY <1>1, <1>4
<1> HIDE DEF below, to
<1>7. ASSUME NEW p \in Leaves, p # mut.path.key, p # mut.to.key,
             Parent(p) # mut.path.key, Parent(p) # mut.to.key
      PROVE  table'.ino[p] = table.ino[p]
  <2>1. p \notin below /\ \A r \in below : to(r) # p
    BY <1>2, <1>3, <1>7
  <2>2. p \in AllPaths
    BY LeafParts DEF AllPaths
  <2> QED
    BY <1>1, <2>1, <2>2
<1>8. ASSUME NEW d \in Dirs \cup {Root}, d # mut.path.key, d # mut.to.key
      PROVE  table'.ino[d] = table.ino[d]
  <2>1. d \notin below /\ \A r \in below : to(r) # d
    BY <1>2, <1>3, <1>4, <1>5, <1>6, <1>8
  <2> QED
    BY <1>1, <1>4, <1>5, <2>1
<1>9. mut.path.key \in Dirs => table'.ino[mut.path.key] = 0
  <2> SUFFICES ASSUME mut.path.key \in Dirs PROVE table'.ino[mut.path.key] = 0
    OBVIOUS
  <2>1. \A r \in below : to(r) # mut.path.key
    BY <1>1, <1>3, <1>5
  <2>2. mut.path.key \notin below => table.ino[mut.path.key] = 0
    BY <1>1, WithinParts DEF below
  <2> QED
    BY <1>1, <1>5, <2>1, <2>2
<1>10. ASSUME mut.path.key \in Dirs
       PROVE  table'.ino[mut.to.key] =
                 IF table.ino[mut.path.key] = 0 THEN table.ino[mut.to.key]
                 ELSE table.ino[mut.path.key]
  <2>1. CASE table.ino[mut.path.key] = 0
    <3>1. mut.path.key \notin below /\ mut.to.key \notin below
      BY <1>1, <1>2, <1>5, <1>6, <1>10, <2>1 DEF below
    <3>2. \A r \in below : to(r) # mut.to.key
      BY <1>1, <1>3, <1>5, <1>10, <3>1
    <3> QED
      BY <1>1, <1>5, <1>10, <2>1, <3>1, <3>2
  <2>2. CASE table.ino[mut.path.key] # 0
    <3>1. mut.path.key \in below
      BY <1>1, <2>2, WithinParts DEF below
    <3> QED
      BY <1>1, <1>3, <2>2, <3>1
  <2> QED
    BY <2>1, <2>2
<1> QED
  BY <1>7, <1>8, <1>9, <1>10

\* What arrives or departs after a step of a change, as against before.
LEMMA FlightSteps ==
    ASSUME NoFullRename, Sound, Next, NEW p \in Paths
    PROVE  /\ UNCHANGED mut => (Arrives(p)' <=> Arrives(p)) /\ (Departs(p)' <=> Departs(p))
           /\ ChangeTree => ~Arrives(p) /\ ~Departs(p)
           /\ ChangeInodes => (Arrives(p)' <=> Arrives(p)) /\ (Departs(p)' <=> Departs(p))
           /\ TombstonePath => (Arrives(p)' <=> Arrives(p)) /\ ~Departs(p)'
           /\ PublishChange => ~Arrives(p)' /\ ~Departs(p)' /\ ~Departs(p)
           /\ InvalidateListings => /\ Arrives(p)' <=> Arrives(p)
                                    /\ ~Departs(p)' /\ ~Departs(p)
                                    /\ Arrives(p) => p \in Dirs
           /\ mut' # mut /\ ~ChangeTree /\ ~ChangeInodes /\ ~TombstonePath /\ ~PublishChange
              /\ ~InvalidateListings => ~Arrives(p)' /\ ~Departs(p)' /\ ~Arrives(p) /\ ~Departs(p)
<1>1. UNCHANGED mut => (Arrives(p)' <=> Arrives(p)) /\ (Departs(p)' <=> Departs(p))
  BY DEF Arrives, Departs
<1>2. ChangeTree => ~Arrives(p) /\ ~Departs(p)
  BY MutFields DEF Arrives, Departs
<1>3. ChangeInodes => (Arrives(p)' <=> Arrives(p)) /\ (Departs(p)' <=> Departs(p))
  BY MutFields DEF Arrives, Departs, MutKept
<1>4. TombstonePath => (Arrives(p)' <=> Arrives(p)) /\ ~Departs(p)'
  BY MutFields DEF Arrives, Departs, MutKept
<1>5. PublishChange => ~Arrives(p)' /\ ~Departs(p)' /\ ~Departs(p)
  BY MutFields DEF Arrives, Departs, MutKept, NoChange
<1>6. InvalidateListings => /\ Arrives(p)' <=> Arrives(p)
                            /\ ~Departs(p)' /\ ~Departs(p)
                            /\ Arrives(p) => p \in Dirs
  BY MutFields DEF Arrives, Departs, MutKept, NoChange, Sound, MutSound
<1>7. mut' # mut /\ ~ChangeTree /\ ~ChangeInodes /\ ~TombstonePath /\ ~PublishChange
      /\ ~InvalidateListings => ~Arrives(p)' /\ ~Departs(p)' /\ ~Arrives(p) /\ ~Departs(p)
  BY MutBegins DEF Arrives, Departs, NoChange
<1> QED
  BY <1>1, <1>2, <1>3, <1>4, <1>5, <1>6, <1>7

\* What is in the tree after its change, and does not arrive, was there.
LEMMA StaysInTree ==
    ASSUME NoFullRename, Sound, MutGoes, LeavesNumbered, DirsNumbered, Next, ChangeTree
    PROVE  /\ \A p \in Leaves : tree'[p] # "absent" /\ ~Arrives(p)' => tree[p] # "absent"
           /\ \A d \in Dirs : tree'[d] # "absent" /\ ~Arrives(d)' =>
                 \/ tree[d] # "absent"
                 \/ d = Parent(Target.key) /\ mut.kind \in {"create", "flush", "rename"}
<1>1. /\ MutKept /\ mut.step = "tree" /\ mut.kind \in MutKinds
      /\ mut.kind \in {"create", "flush"} => mut'.step = "publish"
      /\ mut.kind \in {"mkdir", "phantom"} => mut'.step = "listings"
      /\ mut.kind = "rename" => mut'.step = "inodes"
      /\ mut.kind \in {"unlink", "rmdir"} => mut'.step = "tombstone"
  BY MutFields
<1>2. ASSUME NEW p \in Leaves, tree'[p] # "absent", ~Arrives(p)', tree[p] = "absent" PROVE FALSE
  <2>1. InFlight(p)'
    BY <1>2, LeafChanges
  <2>2. p = mut'.path.key /\ mut'.step \in {"inodes", "tombstone"}
    BY <1>2, <2>1 DEF InFlight, Departs
  <2>3. MutGoes' /\ MutSound'
    BY MutGoesStep, MutStep
  <2>4. p \in Below(mut'.path.key)
    BY <2>2, LeafParts, WithinParts DEF Below
  <2> QED
    BY <1>2, <2>2, <2>3, <2>4 DEF MutGoes, MutSound
<1>3. ASSUME NEW d \in Dirs, tree'[d] # "absent", ~Arrives(d)', tree[d] = "absent"
      PROVE  d = Parent(Target.key) /\ mut.kind \in {"create", "flush", "rename"}
  <2>1. d \in Paths /\ d # Root /\ d \notin Leaves
    BY DirParts DEF Leaves
  <2>2. Puts /\ (d = Target.key \/ d = Parent(Target.key))
    BY <1>3, <2>1, ChangeTreeParts
  <2>3. d # Target.key
    <3> SUFFICES ASSUME d = Target.key PROVE FALSE
      OBVIOUS
    <3>1. mut.kind \in {"mkdir", "phantom", "rename"}
      BY <2>1, <2>2 DEF Sound, MutSound, Target, Puts
    <3> QED
      BY <1>1, <1>3, <3>1 DEF Arrives, MutKept, Target
  <2>4. mut.kind \notin {"mkdir", "phantom"}
    <3> SUFFICES ASSUME mut.kind \in {"mkdir", "phantom"} PROVE FALSE
      OBVIOUS
    <3>1. Target.key \in Dirs
      BY DEF Sound, MutSound, Target
    <3> QED
      BY <2>1, <2>2, <2>3, <3>1, DirParts
  <2> QED
    BY <2>2, <2>3, <2>4 DEF Puts
<1> QED
  BY <1>2, <1>3

LEMMA NumberedStep ==
    ASSUME NoFullRename, Sound, MutGoes, LeavesNumbered, DirsNumbered, Next
    PROVE  LeavesNumbered' /\ DirsNumbered'
<1>1. TableSound(table) /\ mut \in MutRecord
  BY DEF Sound, TablesSound, MutSound
<1>2. /\ \A p \in Leaves : p \in Paths /\ p \in AllPaths /\ Parent(p) \in Dirs \cup {Root}
                           /\ Parent(p) \in AllPaths
      /\ \A d \in Dirs : d \in Paths /\ d \in AllPaths /\ d # Root
  BY LeafParts, TwoLevels, DirParts, ParentOfRoot
<1>3. ASSUME UNCHANGED tree, Grown(table, table'),
             \A p \in Paths : Arrives(p)' <=> Arrives(p),
             \/ UNCHANGED <<mut>>
             \/ ~(mut.kind = "flush" /\ mut.step = "publish")
      PROVE  LeavesNumbered' /\ DirsNumbered'
  <2>1. \A p \in AllPaths : table.ino[p] # 0 => table'.ino[p] = table.ino[p]
    BY <1>3 DEF Grown
  <2>2. LeavesNumbered'
    BY <1>2, <1>3, <2>1 DEF LeavesNumbered
  <2>3. DirsNumbered'
    BY <1>2, <1>3, <2>1 DEF DirsNumbered
  <2> QED
    BY <2>2, <2>3
<1>4. CASE UNCHANGED mut
  BY <1>3, <1>4, SameMut, FlightSteps
<1>5. CASE ChangeTree
  <2>1. /\ MutKept /\ mut.step = "tree" /\ UNCHANGED table
        /\ mut.kind = "flush" => mut'.step = "publish"
    BY <1>5, MutFields, Frames
  <2>2. \A p \in Paths : ~Arrives(p)
    BY <1>5, FlightSteps
  <2>3. LeavesNumbered'
    BY <1>2, <1>5, <2>1, <2>2, StaysInTree DEF LeavesNumbered
  <2>4. ASSUME NEW d \in Dirs, tree'[d] # "absent", ~Arrives(d)'
        PROVE  \/ table.ino[d] # 0
               \/ mut.kind = "flush" /\ mut'.step = "publish" /\ d = Parent(mut.path.key)
    <3>1. CASE tree[d] # "absent"
      BY <1>2, <2>1, <2>2, <3>1 DEF DirsNumbered
    <3>2. CASE d = Parent(Target.key) /\ mut.kind \in {"create", "flush", "rename"}
      BY <2>1, <3>2 DEF MutGoes, Target
    <3> QED
      BY <1>5, <2>4, <3>1, <3>2, StaysInTree
  <2> QED
    BY <2>1, <2>3, <2>4 DEF DirsNumbered, MutKept
<1>6. CASE ChangeInodes
  <2>1. /\ mut.step = "inodes" /\ mut.kind = "rename" /\ UNCHANGED tree
        /\ \A q \in Below(mut.path.key) : tree[q] = "absent"
        /\ mut.path.key \in Paths /\ mut.to.key \in Paths
        /\ mut.path.key \in Dirs <=> mut.to.key \in Dirs
    BY <1>6, MutFields, Frames DEF Sound, MutSound
  <2>2. \A p \in Paths : Arrives(p)' <=> Arrives(p)
    BY <1>6, FlightSteps
  <2>3. \A p \in Paths : ~Arrives(p) => p # mut.to.key
    BY <2>1 DEF Arrives
  <2>4. \A p \in Paths : tree[p] # "absent" => p # mut.path.key /\ Parent(p) # mut.path.key
    BY <2>1, WithinParts DEF Below
  <2>5. \A p \in Leaves : tree[p] # "absent" => Parent(p) # mut.to.key
    <3>1. mut.to.key \in Dirs => Emptied(mut.to.key)
      BY <2>1 DEF MutGoes
    <3> QED
      BY <1>2, <2>1, <3>1, PathsAssumption DEF Emptied
  <2>6. LeavesNumbered'
    <3> SUFFICES ASSUME NEW p \in Leaves, tree[p] # "absent", ~Arrives(p)
                 PROVE  table'.ino[p] # 0 /\ table'.ino[Parent(p)] # 0
      BY <1>2, <2>1, <2>2 DEF LeavesNumbered
    <3>1. /\ p # mut.path.key /\ p # mut.to.key
          /\ Parent(p) # mut.path.key /\ Parent(p) # mut.to.key
      BY <1>2, <2>3, <2>4, <2>5
    <3>2. table.ino[p] # 0 /\ table.ino[Parent(p)] # 0
      BY DEF LeavesNumbered
    <3> QED
      BY <1>2, <1>6, <3>1, <3>2, InodesElsewhere
  <2>7. DirsNumbered'
    <3> SUFFICES ASSUME NEW d \in Dirs, tree[d] # "absent", ~Arrives(d)
                 PROVE  table'.ino[d] # 0
      BY <1>2, <2>1, <2>2 DEF DirsNumbered
    <3>1. d # mut.path.key /\ d # mut.to.key
      BY <1>2, <2>3, <2>4
    <3>2. table.ino[d] # 0
      BY <2>1 DEF DirsNumbered
    <3> QED
      BY <1>6, <3>1, <3>2, InodesElsewhere
  <2> QED
    BY <2>6, <2>7
<1>7. CASE TombstonePath \/ InvalidateListings
  <2>1. /\ mut.step # "publish" /\ UNCHANGED <<tree, table>>
        /\ \A p \in Paths : Arrives(p)' <=> Arrives(p)
    BY <1>7, MutFields, Frames, FlightSteps
  <2> QED
    BY <1>1, <1>3, <2>1, GrownSame
<1>8. CASE PublishChange
  <2>1. /\ mut.step = "publish" /\ UNCHANGED tree /\ Grown(table, table')
        /\ mut.kind # "none"
    BY <1>8, MutFields, Frames, PublishChangeParts
  <2>2. \A p \in AllPaths : table.ino[p] # 0 => table'.ino[p] = table.ino[p]
    BY <2>1 DEF Grown
  <2> DEFINE s == Target.key
  <2>3. table'.ino[s] # 0 /\ table'.ino[Parent(s)] # 0
    <3>1. CASE mut.kind = "rename"
      <4>1. mut.ino # 0
        BY <2>1, <3>1 DEF MutGoes
      <4> QED
        BY <1>8, <3>1, <4>1, PublishChangeParts DEF Published, Target
    <3>2. CASE mut.kind # "rename"
      BY <1>8, <3>2, PublishChangeParts DEF Published, Target, Ino
    <3> QED
      BY <3>1, <3>2
  <2>4. \A p \in Paths : Arrives(p) => p = s
    BY <2>1 DEF Arrives, Target
  <2>5. mut.kind = "flush" => s = mut.path.key
    BY DEF Target
  <2> HIDE DEF s
  <2>6. LeavesNumbered'
    BY <1>2, <2>1, <2>2, <2>3, <2>4 DEF LeavesNumbered
  <2>7. DirsNumbered'
    BY <1>2, <2>1, <2>2, <2>3, <2>4, <2>5 DEF DirsNumbered
  <2> QED
    BY <2>6, <2>7
<1>9. CASE /\ mut' # mut /\ ~ChangeTree /\ ~ChangeInodes /\ ~TombstonePath
           /\ ~PublishChange /\ ~InvalidateListings
  <2>1. mut = NoChange /\ UNCHANGED <<tree, table>>
    BY <1>9, MutBegins
  <2>2. \A p \in Paths : Arrives(p)' <=> Arrives(p)
    BY <1>9, FlightSteps
  <2> QED
    BY <1>1, <1>3, <2>1, <2>2, GrownSame DEF NoChange
<1> QED
  BY <1>4, <1>5, <1>6, <1>7, <1>8, <1>9

\* The base stays, and the index keeps its names or one is published or hidden.
LEMMA IndexWriters ==
    ASSUME Sound, Next
    PROVE  /\ UNCHANGED base
           /\ \/ SameNames(index, index')
              \/ TombstonePath \/ PublishChange \/ Heal
<1>1. SameNames(index, index)
  BY DEF SameNames
<1> QED
  BY <1>1, Writers, RecordMissingParts, ExpireParts DEF SameNames

LEMMA UnusedStep ==
    ASSUME Sound, Unused, Next
    PROVE  Unused'
<1>1. /\ table.next <= table'.next /\ table.next \in Nat /\ table'.next \in Nat
      /\ \A p \in AllPaths : table.ino[p] < table.next
      /\ \A i \in Ino : i \in Nat
      /\ \A k \in Key : k[1] \in Ino
      /\ UNCHANGED base /\ TableSound(table)
      /\ index \in Index
  BY TableSoundSteps, TableParts, IndexWriters, PathsAssumption
     DEF Sound, TablesSound, Ino, Key, IndexSound, Alike
<1>2. CASE SameNames(index, index')
  <2>1. \A k \in Key : KeyUnused(k) => KeyUnused(k)'
    BY <1>1, <1>2 DEF KeyUnused, SameNames
  <2> QED
    BY <1>1, <1>2, <2>1 DEF Unused, SameNames
<1>3. ASSUME NEW s, NEW ino, NEW what, Published(s, ino, what), ino < table'.next
      PROVE  Unused'
  <2> DEFINE k == <<table'.ino[Parent(s.key)], Name(s.key)>>
  <2>1. /\ k \in Key /\ k[1] < table'.next /\ ino \in Ino
        /\ index'.child = [index.child EXCEPT ![k] = ino]
        /\ index'.tombstones = index.tombstones \ {k}
        /\ index'.node = [index.node EXCEPT ![ino] = [path |-> s, what |-> what]]
    BY <1>3 DEF Published
  <2> HIDE DEF k
  <2>2. index.child \in [Key -> 0..MaxIno] /\ index.node \in [Ino -> Node \cup {NoNode}]
    BY <1>1, IndexParts
  <2>3. ASSUME NEW j \in Key, j[1] >= table'.next PROVE KeyUnused(j)'
    <3>1. j # k /\ KeyUnused(j)
      BY <1>1, <2>1, <2>3 DEF Unused
    <3> QED
      BY <1>1, <2>1, <2>2, <3>1 DEF KeyUnused
  <2>4. ASSUME NEW i \in Ino, i >= table'.next
        PROVE  index'.node[i] = NoNode /\ base.node[i] = NoNode
    <3>1. i # ino /\ i >= table.next
      BY <1>1, <1>3, <2>4
    <3> QED
      BY <2>1, <2>2, <3>1 DEF Unused
  <2> QED
    BY <1>1, <2>3, <2>4 DEF Unused
<1>4. CASE TombstonePath
  <2> DEFINE parent == table.ino[Parent(mut.path.key)]
             k == <<parent, Name(mut.path.key)>>
  <2>1. /\ parent = 0 => UNCHANGED index
        /\ parent # 0 =>
              /\ k \in Key
              /\ index'.child = [index.child EXCEPT ![k] = 0]
              /\ index'.tombstones = index.tombstones \cup {k}
              /\ mut.ino = 0 => index'.node = index.node
              /\ mut.ino # 0 => index'.node = [index.node EXCEPT ![mut.ino] = NoNode]
        /\ mut.path.key \in Paths
    BY <1>4, TombstoneParts
  <2>2. parent < table.next /\ UNCHANGED table
    BY <1>1, <1>4, <2>1, PathsAssumption, Frames
  <2>3. k[1] = parent
    OBVIOUS
  <2> HIDE DEF k, parent
  <2>4. index.child \in [Key -> 0..MaxIno] /\ index.node \in [Ino -> Node \cup {NoNode}]
    BY <1>1, IndexParts
  <2>5. ASSUME NEW j \in Key, j[1] >= table.next PROVE KeyUnused(j)'
    <3>1. j # k /\ KeyUnused(j)
      BY <1>1, <2>2, <2>3, <2>5 DEF Unused
    <3> QED
      BY <1>1, <2>1, <2>4, <3>1 DEF KeyUnused
  <2>6. \A i \in Ino : i >= table.next => index'.node[i] = NoNode /\ base.node[i] = NoNode
    BY <2>1, <2>4 DEF Unused
  <2> QED
    BY <1>1, <2>2, <2>5, <2>6 DEF Unused
<1>5. CASE PublishChange
  <2>1. CASE mut.kind = "rename" /\ mut.ino = 0
    BY <1>2, <1>5, <2>1, PublishChangeParts DEF SameNames
  <2>2. CASE mut.kind = "rename" /\ mut.ino # 0
    <3>1. Published(mut.to, mut.ino, mut.what) /\ mut.ino < table.next /\ mut.ino \in Ino
      BY <1>5, <2>2, PublishChangeParts DEF Sound, MutSound, Published
    <3> QED
      BY <1>1, <1>3, <3>1
  <2>3. CASE mut.kind # "rename"
    <3>1. Published(mut.path, table'.ino[mut.path.key], mut.what)
      BY <1>5, <2>3, PublishChangeParts
    <3>2. mut.path.key \in AllPaths /\ TableSound(table')
      BY <3>1, TableSoundSteps DEF Published, AllPaths
    <3>3. table'.ino[mut.path.key] < table'.next
      BY <3>2, TableParts
    <3> QED
      BY <1>3, <3>1, <3>3
  <2> QED
    BY <2>1, <2>2, <2>3
<1>6. CASE Heal
  <2>1. /\ Published(req.path, req.answer, req.what) /\ req.answer < table.next
        /\ req.answer \in Ino
    BY <1>6, HealParts DEF Sound, ReqSound, Published
  <2> QED
    BY <1>1, <1>3, <2>1
<1> QED
  BY <1>2, <1>4, <1>5, <1>6, IndexWriters

\* Two paths with one name in one numbered directory are the same.
LEMMA NamesApart ==
    ASSUME NEW t, TableSound(t), NEW p \in Paths, NEW q \in Paths, t.ino[Parent(p)] # 0,
           <<t.ino[Parent(p)], Name(p)>> = <<t.ino[Parent(q)], Name(q)>>
    PROVE  p = q
<1>1. Parent(p) \in AllPaths /\ Parent(q) \in AllPaths
  BY PathsAssumption
<1>2. t.ino[Parent(p)] = t.ino[Parent(q)] /\ Name(p) = Name(q)
  OBVIOUS
<1>3. Parent(p) = Parent(q)
  BY <1>1, <1>2, TableParts
<1> QED
  BY <1>2, <1>3, SameParts

\* The key of a path in a directory that has an inode.
LEMMA KeyParts ==
    ASSUME NEW t, TableSound(t), NEW p \in Paths, t.ino[Parent(p)] # 0
    PROVE  <<t.ino[Parent(p)], Name(p)>> \in Key
<1>1. Parent(p) \in AllPaths /\ Name(p) \in Names
  BY PathsAssumption, PathParts
<1> QED
  BY <1>1, TableParts DEF Key

\* The index goes on telling of a leaf when nothing is published.
LEMMA TellsSame ==
    ASSUME Sound, LeavesNumbered, Unused, Grown(table, table'), SameNames(index, index'),
           UNCHANGED base, NEW p \in Leaves, tree'[p] = tree[p], ~Arrives(p),
           table'.ino[Parent(p)] # 0, table.ino[Parent(p)] # 0 => TellsLeaf(p)
    PROVE  TellsLeaf(p)'
<1>1. /\ p \in Paths /\ p \in AllPaths /\ Parent(p) \in AllPaths
      /\ TableSound(table) /\ TableSound(table')
  BY LeafParts, PathsAssumption DEF AllPaths, Sound, TablesSound, Grown
<1>2. /\ index'.child = index.child /\ index'.tombstones = index.tombstones
      /\ index'.node = index.node /\ index'.hidden = index.hidden
  BY DEF SameNames
<1>3. CASE table.ino[Parent(p)] = 0
  <2>1. tree[p] = "absent"
    BY <1>3 DEF LeavesNumbered
  <2>2. KeyOf(p)' \in Key /\ KeyOf(p)'[1] >= table.next
    BY <1>1, <1>3, GrownNew, KeyParts DEF KeyOf
  <2>3. KeyUnused(KeyOf(p)')
    BY <2>2 DEF Unused
  <2> QED
    BY <1>2, <2>1, <2>3 DEF TellsLeaf, TellsAbsent, KeyUnused
<1>4. CASE table.ino[Parent(p)] # 0
  <2>1. table'.ino[Parent(p)] = table.ino[Parent(p)]
    BY <1>1, <1>4 DEF Grown
  <2>2. KeyOf(p)' = KeyOf(p)
    BY <2>1 DEF KeyOf
  <2>3. CASE tree[p] = "absent"
    BY <1>2, <1>4, <2>2, <2>3 DEF TellsLeaf, TellsAbsent
  <2>4. CASE tree[p] # "absent"
    <3>1. TellsPresent(KeyOf(p), table.ino[p], tree[p])
      BY <1>4, <2>4 DEF TellsLeaf
    <3>2. table'.ino[p] = table.ino[p]
      BY <1>1, <3>1 DEF Grown, TellsPresent
    <3>3. \A i : NodeAt(i)' = NodeAt(i)
      BY <1>2 DEF NodeAt, NodeOf
    <3>4. TellsPresent(KeyOf(p), table.ino[p], tree[p])'
      BY <1>2, <2>2, <3>1, <3>2, <3>3 DEF TellsPresent
    <3> QED
      BY <2>4, <3>4 DEF TellsLeaf
  <2> QED
    BY <2>3, <2>4
<1> QED
  BY <1>3, <1>4

\* And when something is published under its own number or what is elsewhere.
LEMMA TellsPublished ==
    ASSUME Sound, LeavesNumbered, Unused, Grown(table, table'), UNCHANGED base,
           NEW s, NEW ino, NEW what, Published(s, ino, what),
           NEW p \in Leaves, tree'[p] = tree[p],
           p = s.key => tree[p] = what /\ table'.ino[p] = ino,
           p # s.key => /\ ~Arrives(p) /\ table'.ino[p] # ino
                        /\ table.ino[Parent(p)] # 0 => TellsLeaf(p),
           table'.ino[Parent(p)] # 0
    PROVE  TellsLeaf(p)'
<1> DEFINE k == <<table'.ino[Parent(s.key)], Name(s.key)>>
           node == [path |-> s, what |-> what]
<1>1. /\ p \in Paths /\ p \in AllPaths /\ Parent(p) \in AllPaths
      /\ TableSound(table) /\ TableSound(table') /\ index \in Index
      /\ s.key \in Paths /\ ino \in Ino /\ what \in What /\ k \in Key /\ node \in Node
      /\ index'.child = [index.child EXCEPT ![k] = ino]
      /\ index'.tombstones = index.tombstones \ {k}
      /\ index'.node = [index.node EXCEPT ![ino] = node]
      /\ index'.hidden = index.hidden \ {ino}
      /\ table'.ino[Parent(s.key)] # 0
  BY LeafParts, PathsAssumption
     DEF AllPaths, Sound, TablesSound, Grown, Published, IndexSound, Alike
<1>2. index.child \in [Key -> 0..MaxIno] /\ index.node \in [Ino -> Node \cup {NoNode}]
  BY <1>1, IndexParts
<1>3. CASE p = s.key
  <2>1. KeyOf(p)' = k /\ tree'[p] = what /\ table'.ino[p] = ino
    BY <1>3 DEF KeyOf
  <2>2. node # NoNode /\ node.what = what
    BY <1>1, NodeAssumption
  <2> HIDE DEF k, node
  <2>3. index'.child[k] = ino /\ index'.node[ino] = node /\ ino \notin index'.hidden
        /\ k \notin index'.tombstones /\ ino # 0
    <3>1. index'.child[k] = ino /\ index'.node[ino] = node
      BY <1>1, <1>2
    <3> QED
      BY <1>1, <3>1 DEF Ino
  <2>4. NodeAt(ino)' = node
    BY <2>2, <2>3 DEF NodeAt, NodeOf
  <2>5. TellsPresent(KeyOf(p), table.ino[p], tree[p])'
    BY <2>1, <2>2, <2>3, <2>4 DEF TellsPresent
  <2>6. tree'[p] # "absent"
    BY <1>1, <2>1 DEF What
  <2> QED
    BY <2>5, <2>6 DEF TellsLeaf
<1>4. CASE p # s.key
  <2>1. KeyOf(p)' \in Key
    BY <1>1, KeyParts DEF KeyOf
  <2>2. KeyOf(p)' # k
    <3>1. <<table'.ino[Parent(p)], Name(p)>> # k
      BY <1>1, <1>4, NamesApart
    <3> QED
      BY <3>1 DEF KeyOf
  <2> HIDE DEF k, node
  <2>3. CASE table.ino[Parent(p)] = 0
    <3>1. tree[p] = "absent"
      BY <1>4, <2>3 DEF LeavesNumbered
    <3>2. KeyOf(p)'[1] >= table.next
      BY <1>1, <2>3, GrownNew DEF KeyOf
    <3>3. KeyUnused(KeyOf(p)')
      BY <2>1, <3>2 DEF Unused
    <3> QED
      BY <1>1, <1>2, <2>1, <2>2, <3>1, <3>3 DEF TellsLeaf, TellsAbsent, KeyUnused
  <2>4. CASE table.ino[Parent(p)] # 0
    <3>1. KeyOf(p)' = KeyOf(p)
      BY <1>1, <2>4 DEF KeyOf, Grown
    <3>2. CASE tree[p] = "absent"
      <4>1. TellsAbsent(KeyOf(p))
        BY <1>4, <2>4, <3>2 DEF TellsLeaf
      <4>2. TellsAbsent(KeyOf(p))'
        BY <1>1, <1>2, <2>1, <2>2, <3>1, <4>1 DEF TellsAbsent
      <4> QED
        BY <3>2, <4>2 DEF TellsLeaf
    <3>3. CASE tree[p] # "absent"
      <4>1. TellsPresent(KeyOf(p), table.ino[p], tree[p])
        BY <1>4, <2>4, <3>3 DEF TellsLeaf
      <4>2. table'.ino[p] = table.ino[p] /\ table.ino[p] # ino /\ table.ino[p] \in Ino
        BY <1>1, <1>4, <4>1, TableParts DEF Grown, TellsPresent
      <4>3. /\ index'.node[table.ino[p]] = index.node[table.ino[p]]
            /\ table.ino[p] \in index'.hidden <=> table.ino[p] \in index.hidden
        BY <1>1, <1>2, <4>2
      <4> DEFINE i == table.ino[p]
      <4>5. table'.ino[p] = i /\ i \in Ino /\ i # ino
        BY <4>2
      <4>6. TellsPresent(KeyOf(p), i, tree[p])
        BY <4>1
      <4>7. NodeOf(base', index', i) = NodeOf(base, index, i)
        BY <4>3 DEF NodeOf
      <4> HIDE DEF i
      <4>8. /\ KeyOf(p) \notin index'.tombstones
            /\ index'.child[KeyOf(p)] = index.child[KeyOf(p)]
            /\ index'.node[i] = index.node[i]
        BY <1>1, <1>2, <2>1, <2>2, <3>1, <4>5, <4>6 DEF TellsPresent
      <4>9. TellsPresent(KeyOf(p), table.ino[p], tree[p])'
        BY <3>1, <4>5, <4>6, <4>7, <4>8 DEF TellsPresent, NodeAt
      <4> QED
        BY <3>3, <4>9 DEF TellsLeaf
    <3> QED
      BY <3>2, <3>3
  <2> QED
    BY <2>3, <2>4
<1> QED
  BY <1>3, <1>4

\* No path is taken from those that are excused.
LEMMA LateGrows ==
    ASSUME Sound, Next
    PROVE  /\ late \subseteq late' /\ revived \subseteq revived' /\ misfiled \subseteq misfiled'
           /\ Heal /\ req.version # Progress =>
                 req.path.key \in late' /\ \A p \in Paths : table.ino[p] = req.answer => p \in late'
           /\ ChangeInodes =>
                 \A p \in late : p \in Paths /\ p \in Below(mut.path.key) /\ p # mut.path.key =>
                     Moved(p, mut.path.key, mut.to.key) \in late'
<1>1. Observe
  BY DEF Next
<1>2. late \subseteq late' /\ revived \subseteq revived' /\ misfiled \subseteq misfiled'
  BY <1>1 DEF Observe
<1>3. ASSUME Heal, req.version # Progress
      PROVE  req.path.key \in late' /\ \A p \in Paths : table.ino[p] = req.answer => p \in late'
  <2>1. req # Idle /\ req.step = "heal" /\ req' = [req EXCEPT !.step = "replied"] /\ req \in ReqRecord
    BY <1>3, HealParts DEF Sound, ReqSound
  <2>2. req'.step = "replied"
    BY <2>1 DEF ReqRecord
  <2> QED
    BY <1>1, <1>3, <2>1, <2>2 DEF Observe
<1>4. ASSUME ChangeInodes,
             NEW p \in late, p \in Paths, p \in Below(mut.path.key), p # mut.path.key
      PROVE  Moved(p, mut.path.key, mut.to.key) \in late'
  <2>1. UNCHANGED req /\ mut.step = "inodes" /\ mut'.step = "tombstone"
    BY <1>4 DEF ChangeInodes
  <2> QED
    BY <1>1, <1>4, <2>1 DEF Observe
<1> QED
  BY <1>2, <1>3, <1>4

\* A directory that is renamed has nothing in it, nor has the one it replaces: the index
\* tells under the new name what it told under the old one.
LEMMA InodesTold ==
    ASSUME NoFullRename, Sound, MutGoes, LeavesNumbered, DirsNumbered, Unused, LeavesTold,
           Next, ChangeInodes
    PROVE  LeavesTold'
<1>1. /\ mut.step = "inodes" /\ mut.kind = "rename" /\ UNCHANGED <<tree, base, index>>
      /\ mut'.path = mut.path /\ mut'.to = mut.to
      /\ \A q \in Below(mut.path.key) : tree[q] = "absent"
      /\ mut.path.key \in Paths /\ mut.to.key \in Paths /\ mut.path.key # mut.to.key
      /\ mut.path.key \in Dirs <=> mut.to.key \in Dirs
      /\ mut.path.key \in Dirs => Emptied(mut.to.key)
      /\ TableSound(table)
  BY MutFields, Frames DEF Sound, TablesSound, MutSound, MutKept, MutGoes
<1>2. SUFFICES ASSUME NEW p \in Leaves, p \notin late', ~InFlight(p)', table'.ino[Parent(p)] # 0
               PROVE  TellsLeaf(p)'
  BY DEF LeavesTold
<1>3. /\ p \in Paths /\ p \notin Dirs /\ Parent(p) \in Dirs \cup {Root} /\ Parent(p) \in AllPaths
  BY LeafParts, TwoLevels, PathsAssumption
<1>4. p \notin late /\ ~InFlight(p) /\ p # mut.path.key /\ p # mut.to.key
  BY <1>1, <1>2, <1>3, LateGrows, FlightSteps DEF InFlight, Arrives, Departs
<1>5. CASE Parent(p) # mut.path.key /\ Parent(p) # mut.to.key
  <2>1. table'.ino[p] = table.ino[p] /\ table'.ino[Parent(p)] = table.ino[Parent(p)]
    BY <1>3, <1>4, <1>5, InodesElsewhere
  <2>2. KeyOf(p)' = KeyOf(p)
    BY <2>1 DEF KeyOf
  <2>3. TellsLeaf(p)
    BY <1>2, <1>4, <2>1 DEF LeavesTold
  <2> QED
    BY <1>1, <2>1, <2>2, <2>3 DEF TellsLeaf, TellsAbsent, TellsPresent, NodeAt
<1>6. CASE Parent(p) = mut.path.key
  <2>1. mut.path.key \in Dirs
    BY <1>1, <1>3, <1>6, PathsAssumption
  <2> QED
    BY <1>2, <1>6, <2>1, InodesElsewhere
<1>7. CASE Parent(p) = mut.to.key
  <2>1. mut.to.key \in Dirs /\ mut.path.key \in Dirs /\ Parent(p) # Root
    BY <1>1, <1>3, <1>7, PathsAssumption
  <2>2. tree[p] = "absent"
    BY <1>1, <1>3, <1>7, <2>1 DEF Emptied
  <2>3. table'.ino[mut.to.key] = IF table.ino[mut.path.key] = 0 THEN table.ino[mut.to.key]
                                 ELSE table.ino[mut.path.key]
    BY <2>1, InodesElsewhere
  <2>4. CASE table.ino[mut.path.key] = 0
    <3>1. KeyOf(p)' = KeyOf(p) /\ table.ino[Parent(p)] # 0
      BY <1>2, <1>7, <2>3, <2>4 DEF KeyOf
    <3>2. TellsLeaf(p)
      BY <1>4, <3>1 DEF LeavesTold
    <3> QED
      BY <1>1, <2>2, <3>1, <3>2 DEF TellsLeaf, TellsAbsent
  <2>5. CASE table.ino[mut.path.key] # 0
    <3> DEFINE r == Append(mut.path.key, Name(p))
    <3>1. r \in Leaves /\ r \in Paths
      BY <1>3, <2>1, OtherDirectory DEF Leaves
    <3>2. Name(p) \in Names
      BY <1>3, PathParts
    <3>3. Parent(r) = mut.path.key /\ Name(r) = Name(p)
      BY <2>1, <3>2, AppendParts
    <3>4. r \in Below(mut.path.key) /\ r # mut.path.key /\ r # mut.to.key
      <4>1. r \in Below(mut.path.key)
        BY <1>1, <3>1, <3>3, WithinParts DEF Below
      <4> QED
        BY <2>1, <3>1, <4>1 DEF Leaves
    <3> HIDE DEF r
    <3>5. Moved(r, mut.path.key, mut.to.key) = p
      <4>1. Moved(r, mut.path.key, mut.to.key) = Append(mut.to.key, Name(r))
        BY <1>1, <3>1, <3>4, MovedParts DEF Below
      <4>2. p = Append(Parent(p), Name(p))
        BY <1>3, PathParts
      <4> QED
        BY <1>7, <3>3, <4>1, <4>2
    <3>6. r \notin late
      BY <1>2, <3>1, <3>4, <3>5, LateGrows
    <3>7. ~InFlight(r)
      BY <1>1, <3>4 DEF InFlight, Arrives, Departs
    <3>8. TellsLeaf(r) /\ tree[r] = "absent"
      BY <1>1, <2>5, <3>1, <3>3, <3>4, <3>6, <3>7 DEF LeavesTold
    <3>9. KeyOf(p)' = KeyOf(r)
      BY <1>7, <2>3, <2>5, <3>3 DEF KeyOf
    <3> QED
      BY <1>1, <2>2, <3>8, <3>9 DEF TellsLeaf, TellsAbsent
  <2> QED
    BY <2>4, <2>5
<1> QED
  BY <1>5, <1>6, <1>7

\* A path that is hidden has left the tree, and its node is no other leaf's.
LEMMA TombstoneTold ==
    ASSUME NoFullRename, Sound, MutGoes, LeavesTold, Next, TombstonePath
    PROVE  LeavesTold'
<1>1. /\ mut.step = "tombstone" /\ UNCHANGED <<tree, table, base>>
      /\ mut'.path = mut.path /\ mut'.to = mut.to /\ mut'.kind = mut.kind
      /\ mut.kind = "rename" => mut'.step = "publish"
      /\ tree[mut.path.key] = "absent" /\ TableSound(table) /\ index \in Index
      /\ mut.path.key \in Paths
      /\ mut.kind \in {"unlink", "rmdir", "rename"}
      /\ mut.kind \in {"unlink", "rmdir"} /\ mut.ino # 0 => table.ino[mut.path.key] = mut.ino
      /\ mut.kind = "rename" /\ mut.ino # 0 => table.ino[mut.to.key] = mut.ino
  BY MutFields, Frames, TombstoneParts
     DEF Sound, TablesSound, MutSound, MutKept, MutGoes, IndexSound, Alike
<1>2. SUFFICES ASSUME NEW p \in Leaves, p \notin late', ~InFlight(p)', table.ino[Parent(p)] # 0
               PROVE  TellsLeaf(p)'
  BY <1>1 DEF LeavesTold
<1>3. p \in Paths /\ p \in AllPaths /\ p \notin late /\ ~Arrives(p) /\ KeyOf(p)' = KeyOf(p)
  BY <1>1, <1>2, LeafParts, LateGrows, FlightSteps DEF AllPaths, InFlight, KeyOf
<1> DEFINE parent == table.ino[Parent(mut.path.key)]
           k == <<parent, Name(mut.path.key)>>
<1>4. /\ parent = 0 => UNCHANGED index
      /\ parent # 0 =>
            /\ k \in Key
            /\ index'.child = [index.child EXCEPT ![k] = 0]
            /\ index'.tombstones = index.tombstones \cup {k}
            /\ mut.ino = 0 => index'.node = index.node /\ index'.hidden = index.hidden
            /\ mut.ino # 0 => /\ index'.node = [index.node EXCEPT ![mut.ino] = NoNode]
                              /\ index'.hidden = index.hidden \cup {mut.ino}
  BY TombstoneParts
<1>5. index.child \in [Key -> 0..MaxIno] /\ index.node \in [Ino -> Node \cup {NoNode}]
  BY <1>1, IndexParts
<1>6. CASE p = mut.path.key
  <2>1. KeyOf(p) = k /\ parent # 0
    BY <1>2, <1>6 DEF KeyOf
  <2>2. TellsAbsent(KeyOf(p))'
    BY <1>3, <1>4, <2>1 DEF TellsAbsent
  <2> QED
    BY <1>1, <1>6, <2>2 DEF TellsLeaf
<1>7. CASE p # mut.path.key
  <2>1. ~InFlight(p)
    BY <1>1, <1>3, <1>7 DEF InFlight, Departs
  <2>2. TellsLeaf(p)
    BY <1>2, <1>3, <2>1 DEF LeavesTold
  <2>3. KeyOf(p) \in Key
    BY <1>1, <1>2, <1>3, KeyParts DEF KeyOf
  <2>4. KeyOf(p) # k
    BY <1>1, <1>2, <1>3, <1>7, NamesApart DEF KeyOf
  <2> HIDE DEF k, parent
  <2>5. CASE tree[p] = "absent"
    <3>1. TellsAbsent(KeyOf(p))
      BY <2>2, <2>5 DEF TellsLeaf
    <3>2. TellsAbsent(KeyOf(p))'
      BY <1>1, <1>3, <1>4, <1>5, <2>3, <3>1 DEF TellsAbsent
    <3> QED
      BY <1>1, <2>5, <3>2 DEF TellsLeaf
  <2>6. CASE tree[p] # "absent"
    <3> DEFINE i == table.ino[p]
    <3>1. TellsPresent(KeyOf(p), i, tree[p]) /\ i # 0 /\ i \in Ino
      BY <1>1, <1>3, <2>2, <2>6, TableParts DEF TellsLeaf, TellsPresent
    <3>2. mut.ino # 0 => i # mut.ino
      <4>1. mut.kind = "rename" => p # mut.to.key
        BY <1>1, <1>3 DEF Arrives
      <4>2. mut.kind = "rename" => mut.to.key \in AllPaths
        BY DEF Sound, MutSound, AllPaths
      <4>3. mut.path.key \in AllPaths
        BY <1>1 DEF AllPaths
      <4> QED
        BY <1>1, <1>3, <1>7, <3>1, <4>1, <4>2, <4>3, TableParts
    <3> HIDE DEF i
    <3>3. /\ index'.node[i] = index.node[i]
          /\ i \in index'.hidden <=> i \in index.hidden
      BY <1>4, <1>5, <3>1, <3>2
    <3>4. /\ index'.child[KeyOf(p)] = index.child[KeyOf(p)]
          /\ KeyOf(p) \in index'.tombstones <=> KeyOf(p) \in index.tombstones
      BY <1>4, <1>5, <2>3, <2>4
    <3>5. NodeOf(base', index', i) = NodeOf(base, index, i)
      BY <1>1, <3>3 DEF NodeOf
    <3>6. TellsPresent(KeyOf(p), i, tree[p])'
      BY <1>1, <1>3, <3>1, <3>3, <3>4, <3>5 DEF TellsPresent, NodeAt, i
    <3> QED
      BY <1>1, <2>6, <3>6 DEF TellsLeaf, i
  <2> QED
    BY <2>5, <2>6
<1> QED
  BY <1>6, <1>7

LEMMA PublishTold ==
    ASSUME NoFullRename, Sound, MutGoes, LeavesNumbered, Unused, LeavesTold, Next, PublishChange
    PROVE  LeavesTold'
<1>1. /\ mut.step = "publish" /\ mut.kind # "none" /\ UNCHANGED <<tree, base>>
      /\ Grown(table, table') /\ TableSound(table')
  BY MutFields, Frames, PublishChangeParts DEF Grown
<1> DEFINE s == Target
           ino == IF mut.kind = "rename" THEN mut.ino ELSE table'.ino[mut.path.key]
<1>2. Published(s, ino, mut.what) /\ table'.ino[s.key] = ino
  <2>1. CASE mut.kind = "rename"
    <3>1. mut.ino # 0
      BY <1>1, <2>1 DEF MutGoes
    <3> QED
      BY <2>1, <3>1, PublishChangeParts DEF Target
  <2>2. CASE mut.kind # "rename"
    BY <2>2, PublishChangeParts DEF Target
  <2> QED
    BY <2>1, <2>2
<1>3. \A p \in Paths : Arrives(p) => p = s.key
  BY <1>1 DEF Arrives, Target
<1>4. s.key \in Leaves => tree[s.key] = mut.what
  <2>1. s.key \in Leaves => mut.kind \in {"create", "flush", "rename"}
    <3>1. mut.kind \in {"create", "flush", "mkdir", "phantom", "rename"}
      BY MutFields
    <3> QED
      BY <3>1 DEF Sound, MutSound, Target, Leaves
  <2> QED
    BY <1>1, <2>1 DEF MutGoes, Target
<1>5. ino # 0 /\ s.key \in Paths /\ s.key \in AllPaths
  BY <1>2 DEF Published, Ino, AllPaths
<1> HIDE DEF s, ino
<1>6. SUFFICES ASSUME NEW p \in Leaves, p \notin late', table'.ino[Parent(p)] # 0
               PROVE  TellsLeaf(p)'
  BY DEF LeavesTold
<1>7. p \in Paths /\ p \in AllPaths /\ p \notin late /\ tree'[p] = tree[p]
  BY <1>1, <1>6, LeafParts, LateGrows DEF AllPaths
<1>8. p # s.key => ~InFlight(p) /\ ~Arrives(p) /\ table'.ino[p] # ino
  BY <1>1, <1>2, <1>3, <1>5, <1>7, TableParts, FlightSteps DEF InFlight
<1>9. p # s.key /\ table.ino[Parent(p)] # 0 => TellsLeaf(p)
  BY <1>7, <1>8 DEF LeavesTold
<1> QED
  BY <1>1, <1>2, <1>4, <1>6, <1>7, <1>8, <1>9, TellsPublished

\* A request publishes what it read from the tree, or the paths it publishes and the
\* path its inode has by now are late.
LEMMA HealTold ==
    ASSUME NoFullRename, Sound, LeavesNumbered, Unused, LeavesTold, ReadSound, Next, Heal
    PROVE  LeavesTold'
<1>1. /\ UNCHANGED <<tree, base, mut>> /\ Grown(table, table') /\ TableSound(table')
      /\ req # Idle /\ req.step = "heal"
      /\ Published(req.path, req.answer, req.what)
      /\ \A p \in AllPaths : p # Parent(req.path.key) => table'.ino[p] = table.ino[p]
      /\ req.answer # 0 /\ req.answer < table.next /\ TableSound(table) /\ req.answer \in Ino
      /\ req.path.key \in Paths
  BY Frames, HealParts DEF Grown, Sound, ReqSound, TablesSound, Published
<1>2. SUFFICES ASSUME NEW p \in Leaves, p \notin late', ~InFlight(p)', table'.ino[Parent(p)] # 0
               PROVE  TellsLeaf(p)'
  BY DEF LeavesTold
<1>3. /\ p \in Paths /\ p \in AllPaths /\ p \notin late /\ tree'[p] = tree[p]
      /\ ~InFlight(p) /\ ~Arrives(p)
  BY <1>1, <1>2, LeafParts, LateGrows, FlightSteps DEF AllPaths, InFlight
<1>4. table.ino[Parent(p)] # 0 => TellsLeaf(p)
  BY <1>3 DEF LeavesTold
<1>5. p # req.path.key => table.ino[p] # req.answer
  <2>1. CASE req.version = Progress
    <3>1. table.ino[req.path.key] = req.answer /\ req.path.key \in AllPaths
      BY <1>1, <2>1 DEF ReadSound, AllPaths
    <3> QED
      BY <1>1, <1>3, <3>1, TableParts
  <2>2. CASE req.version # Progress
    BY <1>2, <1>3, <2>2, LateGrows
  <2> QED
    BY <2>1, <2>2
<1>6. p # req.path.key => table'.ino[p] # req.answer
  <2>1. CASE table.ino[p] = 0
    <3>1. table'.ino[p] = 0 \/ table'.ino[p] >= table.next
      BY <1>1, <1>3, <2>1, GrownNew
    <3>2. table.next \in Nat /\ req.answer \in Nat
      BY <1>1, TableParts DEF Ino
    <3> QED
      BY <1>1, <3>1, <3>2
  <2>2. CASE table.ino[p] # 0
    BY <1>1, <1>3, <1>5, <2>2 DEF Grown
  <2> QED
    BY <2>1, <2>2
<1>7. p = req.path.key => tree[p] = req.what /\ table'.ino[p] = req.answer
  <2> SUFFICES ASSUME p = req.path.key PROVE tree[p] = req.what /\ table'.ino[p] = req.answer
    OBVIOUS
  <2>1. req.version = Progress
    BY <1>2, LateGrows
  <2>2. tree[p] = req.what /\ table.ino[p] = req.answer
    BY <1>1, <2>1 DEF ReadSound
  <2> QED
    BY <1>1, <1>3, <2>2 DEF Grown
<1> QED
  BY <1>1, <1>2, <1>3, <1>4, <1>6, <1>7, TellsPublished

LEMMA LeavesToldStep ==
    ASSUME NoFullRename, LeavesSound, Next
    PROVE  LeavesTold'
<1>1. /\ Sound /\ MutGoes /\ LeavesNumbered /\ DirsNumbered /\ Unused /\ LeavesTold /\ ReadSound
      /\ TableSound(table) /\ UNCHANGED base
  BY IndexWriters DEF LeavesSound, Sound, TablesSound
<1>2. ASSUME SameNames(index, index'), Grown(table, table'),
             \A p \in Leaves : ~InFlight(p)' => ~InFlight(p) /\ tree'[p] = tree[p]
      PROVE  LeavesTold'
  <2> SUFFICES ASSUME NEW p \in Leaves, p \notin late', ~InFlight(p)', table'.ino[Parent(p)] # 0
               PROVE  TellsLeaf(p)'
    BY DEF LeavesTold
  <2>1. ~InFlight(p) /\ ~Arrives(p) /\ tree'[p] = tree[p] /\ p \notin late
    BY <1>1, <1>2, LateGrows DEF InFlight
  <2>2. table.ino[Parent(p)] # 0 => TellsLeaf(p)
    BY <1>1, <2>1 DEF LeavesTold
  <2> QED
    BY <1>1, <1>2, <2>1, <2>2, TellsSame
<1>3. \A p \in Leaves : p \in Paths /\ p \notin Dirs
  BY LeafParts
<1>4. SameNames(index, index)
  BY DEF SameNames
<1>5. CASE UNCHANGED mut
  <2>1. UNCHANGED tree /\ Grown(table, table')
    BY <1>1, <1>5, SameMut
  <2>2. \A p \in Leaves : ~InFlight(p)' => ~InFlight(p)
    BY <1>1, <1>3, <1>5, FlightSteps DEF InFlight
  <2>3. CASE SameNames(index, index')
    BY <1>2, <2>1, <2>2, <2>3
  <2>4. CASE Heal
    BY <1>1, <2>4, HealTold
  <2>5. ~TombstonePath /\ ~PublishChange
    BY <1>1, <1>5, MutFields DEF NoChange, MutKept
  <2> QED
    BY <1>1, <2>3, <2>4, <2>5, IndexWriters
<1>6. CASE ChangeTree
  <2>1. UNCHANGED <<table, index>>
    BY <1>6, Frames
  <2>2. \A p \in Leaves : ~InFlight(p)' => ~InFlight(p) /\ tree'[p] = tree[p]
    BY <1>1, <1>3, <1>6, FlightSteps, LeafChanges DEF InFlight
  <2> QED
    BY <1>1, <1>2, <1>4, <2>1, <2>2, GrownSame
<1>7. CASE ChangeInodes
  BY <1>1, <1>7, InodesTold
<1>8. CASE TombstonePath
  BY <1>1, <1>8, TombstoneTold
<1>9. CASE PublishChange
  BY <1>1, <1>9, PublishTold
<1>10. CASE InvalidateListings
  <2>1. UNCHANGED <<tree, table, index>>
    BY <1>10, Frames
  <2>2. \A p \in Leaves : ~InFlight(p)
    BY <1>1, <1>3, <1>10, FlightSteps DEF InFlight
  <2> QED
    BY <1>1, <1>2, <1>4, <2>1, <2>2, GrownSame
<1>11. CASE /\ mut' # mut /\ ~ChangeTree /\ ~ChangeInodes /\ ~TombstonePath
            /\ ~PublishChange /\ ~InvalidateListings
  <2>1. UNCHANGED <<tree, table, index>>
    BY <1>1, <1>11, MutBegins
  <2>2. \A p \in Leaves : ~InFlight(p)
    BY <1>1, <1>3, <1>11, FlightSteps DEF InFlight
  <2> QED
    BY <1>1, <1>2, <1>4, <2>1, <2>2, GrownSame
<1> QED
  BY <1>5, <1>6, <1>7, <1>8, <1>9, <1>10, <1>11

\* How far the changes have come is never the same twice.
LEMMA ProgressGoesOn ==
    ASSUME NoFullRename, Sound, Next
    PROVE  \/ UNCHANGED <<mut, changes>>
           \/ changes' = changes + 1 /\ changes \in Nat
           \/ /\ UNCHANGED changes
              /\ mut'.step \notin StepsDone \cup {mut.step}
              /\ StepsDone \cup {mut.step} \subseteq StepsDone'
<1>1. changes \in Nat /\ mut \in MutRecord
  BY DEF Sound, SeenSound, MutSound
<1>2. ASSUME ChangeTree \/ ChangeInodes \/ TombstonePath \/ PublishChange \/ InvalidateListings
      PROVE  /\ UNCHANGED changes
             /\ mut'.step \notin StepsDone \cup {mut.step}
             /\ StepsDone \cup {mut.step} \subseteq StepsDone'
  <2>1. UNCHANGED changes
    BY <1>2, Frames
  <2>2. CASE ChangeTree
    <3>1. /\ mut'.kind = mut.kind /\ mut.step = "tree" /\ mut.kind \in MutKinds
          /\ mut.kind \in {"create", "flush"} => mut'.step = "publish"
          /\ mut.kind \in {"mkdir", "phantom"} => mut'.step = "listings"
          /\ mut.kind = "rename" => mut'.step = "inodes"
          /\ mut.kind \in {"unlink", "rmdir"} => mut'.step = "tombstone"
      BY <2>2, MutFields DEF MutKept
    <3> QED
      BY <2>1, <3>1 DEF StepsDone, MutKinds
  <2>3. CASE ChangeInodes
    <3>1. mut.step = "inodes" /\ mut'.step = "tombstone"
      BY <2>3, MutFields
    <3> QED
      BY <2>1, <3>1 DEF StepsDone
  <2>4. CASE TombstonePath
    <3>1. /\ mut'.kind = mut.kind /\ mut.step = "tombstone"
          /\ mut.kind \in {"unlink", "rmdir", "rename"}
          /\ mut.kind = "rename" => mut'.step = "publish"
          /\ mut.kind # "rename" => mut'.step = "listings"
      BY <2>4, MutFields DEF MutKept
    <3> QED
      BY <2>1, <3>1 DEF StepsDone
  <2>5. CASE PublishChange
    <3>1. /\ mut.step = "publish"
          /\ mut.kind \in {"flush", "mkdir", "phantom"} => mut'.step = "none"
          /\ mut.kind \in {"create", "rename"} => mut'.kind = mut.kind /\ mut'.step = "listings"
          /\ mut.kind \in {"create", "flush", "mkdir", "phantom", "rename"}
      BY <2>5, MutFields DEF MutKept, NoChange
    <3> QED
      BY <2>1, <3>1 DEF StepsDone, MutSteps
  <2>6. CASE InvalidateListings
    <3>1. /\ mut.step = "listings"
          /\ mut.kind \in {"mkdir", "phantom"} => mut'.kind = mut.kind /\ mut'.step = "publish"
          /\ mut.kind \notin {"mkdir", "phantom"} => mut'.step = "none"
      BY <2>6, MutFields DEF MutKept, NoChange
    <3> QED
      BY <2>1, <3>1 DEF StepsDone, MutSteps
  <2> QED
    BY <1>2, <2>2, <2>3, <2>4, <2>5, <2>6
<1>3. ASSUME ~ChangeTree, ~ChangeInodes, ~TombstonePath, ~PublishChange, ~InvalidateListings
      PROVE  UNCHANGED <<mut, changes>> \/ changes' = changes + 1
  <2>1. CASE UNCHANGED changes
    <3> SUFFICES ASSUME mut' # mut PROVE FALSE
      BY <2>1
    <3>1. \/ \E p \in Paths, sp \in Spellings : Create(p, sp) \/ Mkdir(p, sp)
          \/ \E p, q \in Paths, sp \in Spellings : Rename(p, q, sp)
          \/ \E p \in Paths : Unlink(p) \/ Rmdir(p)
          \/ Flush
          \/ CreatePhantom
      BY <1>3, MutWriters, Zenon
    <3>2. changes' = changes + 1
      <4>1. \A kind, path, to, what, dirs :
               Begin(kind, path, to, what, dirs) => changes' = changes + 1
        BY DEF Begin
      <4>2. \A p, sp : Create(p, sp) => changes' = changes + 1
        BY <4>1, Zenon DEF Create
      <4>3. \A p, sp : Mkdir(p, sp) => changes' = changes + 1
        BY <4>1, Zenon DEF Mkdir
      <4>4. ASSUME NEW p, NEW q, NEW sp, Rename(p, q, sp) PROVE changes' = changes + 1
        <5>1. \E s, t, dirs : Begin("rename", s, t, tree[p], dirs)
          BY <4>4 DEF Rename
        <5> QED
          BY <4>1, <5>1, Zenon
      <4>5. \A p : Unlink(p) \/ Rmdir(p) => changes' = changes + 1
        BY <4>1, Zenon DEF Unlink, Rmdir
      <4>6. Flush \/ CreatePhantom => changes' = changes + 1
        BY <4>1 DEF Flush, CreatePhantom
      <4> QED
        BY <3>1, <4>2, <4>3, <4>4, <4>5, <4>6, Zenon
    <3> QED
      BY <1>1, <2>1, <3>2
  <2> QED
    BY <2>1, ChangesStep
<1> QED
  BY <1>1, <1>2, <1>3

\* A request that goes on while no change does.
LEMMA RequestAlone ==
    ASSUME NoFullRename, Sound, Next, req' # req, req' # Idle
    PROVE  UNCHANGED <<mut, changes, tree, shown, base>> /\ Grown(table, table')
<1>1. UNCHANGED <<mut, changes>>
  <2>1. ~CreatePhantom
    BY DEF CreatePhantom
  <2>2. CASE /\ req = Idle
             /\ \/ \E i \in KnownDirs : StartListing(i) \/ \E n \in Names : StartLookup(i, n)
                \/ \E i \in Ino : StartGetattr(i)
    BY <2>2 DEF StartListing, StartLookup, StartGetattr, Start
  <2>3. CASE OverlaySection \/ BaseSection \/ NegativeSection
    BY <2>3, Frames
  <2>4. CASE TreeSection \/ RecordMissing \/ FoundInode \/ GetattrNode \/ GetattrTree
             \/ GetattrPath \/ Heal
    BY <2>4, Frames
  <2>5. CASE CachedEntries \/ BuildEntries \/ KeepEntries \/ KeepBlob \/ EndRequest
    BY <2>5, Frames
  <2> QED
    BY <2>1, <2>2, <2>3, <2>4, <2>5, ReqWriters, Zenon
<1> QED
  BY <1>1, SameMut, IndexWriters

\* A request that begins.
LEMMA StartParts ==
    ASSUME \/ \E i \in KnownDirs : StartListing(i) \/ \E n \in Names : StartLookup(i, n)
           \/ \E i \in Ino : StartGetattr(i)
    PROVE  req'.version = Progress /\ req'.step \in {"overlay", "node", "entries"}
BY DEF StartListing, StartLookup, StartGetattr, Start

\* What each step of a request leaves of what it has read.
LEMMA RequestReads ==
    ASSUME Sound, Next, req # Idle, req' # req, req' # Idle
    PROVE  /\ req'.kind = req.kind /\ req'.ino = req.ino /\ req'.name = req.name
           /\ \/ req'.version = req.version /\ req'.step \notin {"inode", "path", "heal"}
              \/ TreeSection /\ req'.step = "inode" /\ Resolved(req.ino) # NoPath
                 /\ req'.what = tree[Append(Resolved(req.ino), req.name)]
                 /\ req'.version = Progress
              \/ GetattrTree /\ req'.step = "path" /\ Resolved(req.ino) # NoPath
                 /\ req'.what = tree[Resolved(req.ino)] /\ req'.version = Progress
              \/ FoundInode /\ req'.step = "heal" /\ req'.version = req.version
              \/ GetattrPath /\ req'.step = "heal" /\ req'.version = req.version
                 /\ table.path[req.ino] # NoPath /\ req'.path = table.path[req.ino]
                 /\ req'.answer = req.ino /\ req'.what = req.what
<1>1. req \in ReqRecord
  BY DEF Sound, ReqSound
<1>2. CASE OverlaySection \/ BaseSection \/ NegativeSection
  BY <1>1, <1>2 DEF OverlaySection, BaseSection, NegativeSection, Section, Reply, Step, ReqRecord
<1>3. CASE TreeSection
  BY <1>1, <1>3 DEF TreeSection, ReqRecord
<1>4. CASE RecordMissing
  BY <1>1, <1>4 DEF RecordMissing, Reply, ReqRecord
<1>5. CASE FoundInode
  <2> DEFINE s == Canonical(table.path[req.ino], req.name, AnySpelling)
  <2>1. \/ req' = [req EXCEPT !.step = "replied", !.answer = 0]
        \/ req' = [req EXCEPT !.step = "heal", !.path = s, !.answer = table'.ino[s.key]]
    BY <1>5 DEF FoundInode, Reply
  <2> HIDE DEF s
  <2> QED
    BY <1>1, <1>5, <2>1 DEF ReqRecord
<1>6. CASE GetattrNode \/ GetattrPath
  BY <1>1, <1>6 DEF GetattrNode, GetattrPath, Reply, Step, ReqRecord
<1>7. CASE GetattrTree
  BY <1>1, <1>7 DEF GetattrTree, Reply, ReqRecord
<1>8. CASE Heal
  BY <1>1, <1>8, HealParts DEF ReqRecord
<1>9. CASE CachedEntries \/ KeepEntries \/ KeepBlob
  BY <1>1, <1>9 DEF CachedEntries, KeepEntries, KeepBlob, Step, ReqRecord
<1>10. CASE BuildEntries
  BY <1>1, <1>10, BuildParts DEF ReqRecord
<1>11. ~CreatePhantom /\ ~EndRequest
  BY DEF CreatePhantom, EndRequest
<1> QED
  BY <1>2, <1>3, <1>4, <1>5, <1>6, <1>7, <1>8, <1>9, <1>10, <1>11, ReqWriters, Zenon

LEMMA ReadSoundStep ==
    ASSUME NoFullRename, Sound, ReadSound, Next
    PROVE  ReadSound'
<1> SUFFICES ASSUME req' # Idle PROVE ReadSound'
  BY DEF ReadSound
<1>1. /\ changes \in Nat /\ TableSound(table) /\ TreeSound /\ mut \in MutRecord
      /\ req # Idle => req \in ReqRecord /\ req.ino < table.next
      /\ req' # Idle => req' \in ReqRecord
  BY ReqStep DEF Sound, SeenSound, TablesSound, ReqSound, MutSound
<1>2. CASE req' = req
  <2>1. /\ req # Idle /\ req.version[1] <= changes /\ req.version[1] \in Nat
        /\ req.version[1] = changes => req.version[2] \in StepsDone \cup {mut.step}
        /\ req.version \in Nat \X MutSteps
    BY <1>1, <1>2 DEF ReadSound, ReqRecord
  <2>2. CASE UNCHANGED <<mut, changes>>
    <3>1. UNCHANGED tree /\ Grown(table, table')
      BY <2>2, SameMut
    <3>2. table'.path[req.ino] = table.path[req.ino]
      BY <1>1, <2>1, <3>1 DEF Grown, ReqRecord
    <3>3. req.step = "heal" /\ table.ino[req.path.key] = req.answer =>
             table'.ino[req.path.key] = req.answer
      <4>1. req.step = "heal" => req.answer # 0 /\ req.path.key \in AllPaths
        BY <2>1 DEF Sound, ReqSound, AllPaths
      <4> QED
        BY <3>1, <4>1 DEF Grown
    <3> QED
      BY <1>2, <2>2, <3>1, <3>2, <3>3 DEF ReadSound, Progress, StepsDone
  <2>3. CASE changes' = changes + 1
    <3>1. req.version[1] <= changes' /\ req.version[1] # changes'
      BY <1>1, <2>1, <2>3
    <3>2. req'.version # Progress'
      BY <1>2, <3>1 DEF Progress
    <3> QED
      BY <1>2, <3>1, <3>2 DEF ReadSound
  <2>4. CASE /\ UNCHANGED changes
             /\ mut'.step \notin StepsDone \cup {mut.step}
             /\ StepsDone \cup {mut.step} \subseteq StepsDone'
    <3>1. req'.version # Progress'
      BY <1>2, <2>1, <2>4 DEF Progress
    <3>2. req.version[1] = changes => req.version[2] \in StepsDone'
      BY <2>1, <2>4
    <3> QED
      BY <1>2, <2>1, <2>4, <3>1, <3>2 DEF ReadSound
  <2> QED
    BY <2>2, <2>3, <2>4, ProgressGoesOn
<1>3. CASE req' # req
  <2>1. UNCHANGED <<mut, changes, tree, shown>> /\ Grown(table, table')
    BY <1>3, RequestAlone
  <2>2. Progress' = Progress /\ StepsDone' = StepsDone
    BY <2>1 DEF Progress, StepsDone
  <2>3. Progress[1] = changes /\ Progress[2] = mut.step
    BY DEF Progress
  <2>4. CASE req = Idle
    <3>1. /\ req'.version = Progress
          /\ req'.step \in {"overlay", "node", "entries"}
      <4>1. \/ \E i \in KnownDirs : StartListing(i) \/ \E n \in Names : StartLookup(i, n)
            \/ \E i \in Ino : StartGetattr(i)
        <5>1. ~OverlaySection /\ ~BaseSection /\ ~NegativeSection /\ ~TreeSection
              /\ ~RecordMissing /\ ~CreatePhantom /\ ~FoundInode /\ ~GetattrNode
              /\ ~GetattrTree /\ ~GetattrPath /\ ~Heal /\ ~CachedEntries /\ ~BuildEntries
              /\ ~KeepEntries /\ ~KeepBlob /\ ~EndRequest
          BY <2>4 DEF OverlaySection, BaseSection, NegativeSection, TreeSection, RecordMissing,
             CreatePhantom, FoundInode, GetattrNode, GetattrTree, GetattrPath, Heal,
             CachedEntries, BuildEntries, KeepEntries, KeepBlob, EndRequest
        <5> QED
          BY <1>3, <5>1, ReqWriters, Zenon
      <4> QED
        BY <4>1, StartParts
    <3> QED
      BY <1>1, <2>1, <2>2, <2>3, <3>1 DEF ReadSound
  <2>5. CASE req # Idle
    <3>1. /\ req.version[1] <= changes
          /\ req.version[1] = changes => req.version[2] \in StepsDone \cup {mut.step}
      BY <2>5 DEF ReadSound
    <3>2. /\ req'.version[1] <= changes
          /\ req'.version[1] = changes => req'.version[2] \in StepsDone \cup {mut.step}
      BY <1>1, <1>3, <2>3, <2>5, <3>1, RequestReads
    <3>3. CASE req'.step \notin {"inode", "path", "heal"}
      BY <2>1, <2>2, <3>2, <3>3 DEF ReadSound
    <3>4. CASE TreeSection \/ GetattrTree
      <4>1. UNCHANGED table /\ req'.step # "heal"
        <5>1. ~FoundInode /\ ~GetattrPath
          BY <3>4 DEF FoundInode, GetattrPath, TreeSection, GetattrTree
        <5> QED
          BY <1>3, <2>5, <3>4, <5>1, RequestReads, Frames
      <4>2. req.ino \in Ino /\ req'.ino = req.ino /\ req'.name = req.name /\ req'.kind = req.kind
        BY <1>1, <1>3, <2>5, RequestReads DEF ReqRecord
      <4>3. table.path[req.ino] # NoPath /\ Resolved(req.ino) # NoPath =>
               Resolved(req.ino) = table.path[req.ino].key
        <5>1. Resolved(req.ino) # Dangling
          BY <3>4 DEF TreeSection, GetattrTree
        <5> QED
          BY <1>1, <4>2, <5>1, ResolvedParts, TableParts
      <4>4. CASE TreeSection /\ req'.step = "inode"
        <5>1. req.kind = "lookup" /\ Resolved(req.ino) # NoPath
              /\ req'.what = tree[Append(Resolved(req.ino), req.name)]
          BY <1>3, <2>5, <4>4, RequestReads, KindOfStep DEF TreeSection, GetattrTree
        <5> QED
          BY <2>1, <2>2, <3>2, <4>1, <4>2, <4>3, <4>4, <5>1 DEF ReadSound
      <4>5. CASE GetattrTree /\ req'.step = "path"
        <5>1. Resolved(req.ino) # NoPath /\ req'.what = tree[Resolved(req.ino)]
          BY <1>3, <2>5, <4>5, RequestReads
        <5> QED
          BY <2>1, <2>2, <3>2, <4>1, <4>2, <4>3, <4>5, <5>1 DEF ReadSound
      <4> QED
        BY <1>3, <2>1, <2>2, <2>5, <3>2, <3>3, <3>4, <4>1, <4>4, <4>5, RequestReads
           DEF TreeSection, GetattrTree
    <3>5. CASE FoundInode /\ req'.step = "heal"
      <4> DEFINE s == Canonical(table.path[req.ino], req.name, AnySpelling)
      <4>1. /\ req.step = "inode" /\ req.kind = "lookup" /\ table.path[req.ino] # NoPath
            /\ s.key = Append(table.path[req.ino].key, req.name)
            /\ req' = [req EXCEPT !.step = "heal", !.path = s, !.answer = table'.ino[s.key]]
        <5>1. req' # [req EXCEPT !.step = "replied", !.answer = 0]
          BY <1>1, <2>5, <3>5 DEF ReqRecord
        <5> QED
          BY <3>5, <5>1, FoundInodeParts
      <4> HIDE DEF s
      <4>2. /\ req'.path = s /\ req'.answer = table'.ino[s.key] /\ req'.what = req.what
            /\ req'.version = req.version
        BY <1>1, <2>5, <4>1 DEF ReqRecord
      <4>3. req.version = Progress => tree[s.key] = req.what
        BY <2>5, <4>1 DEF ReadSound
      <4> QED
        BY <2>1, <2>2, <3>2, <3>5, <4>2, <4>3 DEF ReadSound
    <3>6. CASE GetattrPath /\ req'.step = "heal"
      <4>1. /\ req.step = "path" /\ UNCHANGED table /\ req.kind = "getattr"
            /\ table.path[req.ino] # NoPath /\ req'.path = table.path[req.ino]
            /\ req'.answer = req.ino /\ req'.what = req.what /\ req'.version = req.version
            /\ req.ino \in Ino
        BY <1>1, <1>3, <2>5, <3>6, RequestReads, Frames, KindOfStep
           DEF GetattrPath, FoundInode, TreeSection, GetattrTree, ReqRecord
      <4>2. table.ino[table.path[req.ino].key] = req.ino
        BY <1>1, <4>1 DEF TableSound, TableAgrees
      <4>3. req.version = Progress => tree[table.path[req.ino].key] = req.what
        BY <2>5, <4>1 DEF ReadSound
      <4> QED
        BY <2>1, <2>2, <3>2, <3>6, <4>1, <4>2, <4>3 DEF ReadSound
    <3> QED
      BY <1>3, <2>5, <3>3, <3>4, <3>5, <3>6, RequestReads
  <2> QED
    BY <2>4, <2>5
<1> QED
  BY <1>2, <1>3

\* In b the name of each node of N leads to its inode in t, and that to the node.
LeadsTo(b, N, t) ==
    /\ \A n \in N :
         /\ b.child[<<t.ino[Parent(n.path.key)], Name(n.path.key)>>] = t.ino[n.path.key]
         /\ b.node[t.ino[n.path.key]] = n
    /\ \A i \in Ino : b.node[i] # NoNode => \E n \in N : i = t.ino[n.path.key]

LEMMA BuildTells ==
    ASSUME NEW N, N \subseteq Node, \A n \in N : n.path.key \in Paths, NEW t, TableSound(t),
           \A n \in N : t.ino[n.path.key] # 0 /\ t.ino[Parent(n.path.key)] # 0,
           \A m, n \in N : m.path.key = n.path.key => m = n
    PROVE  LeadsTo(Build(N, t), N, t)
<1> DEFINE at(k) == {n \in N : t.ino[Parent(n.path.key)] = k[1] /\ Name(n.path.key) = k[2]}
           of(i) == {n \in N : t.ino[n.path.key] = i}
           b     == Build(N, t)
<1>1. /\ b.child = [k \in Key |-> IF at(k) = {} THEN 0
                                  ELSE t.ino[(CHOOSE n \in at(k) : TRUE).path.key]]
      /\ b.node = [i \in Ino |-> IF of(i) = {} THEN NoNode ELSE CHOOSE n \in of(i) : TRUE]
  BY DEF Build
<1> HIDE DEF b
<1>2. ASSUME NEW n \in N
      PROVE  b.child[<<t.ino[Parent(n.path.key)], Name(n.path.key)>>] = t.ino[n.path.key]
  <2> DEFINE k == <<t.ino[Parent(n.path.key)], Name(n.path.key)>>
  <2>1. k \in Key
    BY KeyParts
  <2>2. n \in at(k)
    OBVIOUS
  <2>3. ASSUME NEW m \in at(k) PROVE m = n
    <3>1. <<t.ino[Parent(n.path.key)], Name(n.path.key)>> =
             <<t.ino[Parent(m.path.key)], Name(m.path.key)>>
      OBVIOUS
    <3>2. n.path.key = m.path.key
      BY <2>3, <3>1, NamesApart
    <3> QED
      BY <2>3, <3>2
  <2> HIDE DEF at, k
  <2>4. (CHOOSE m \in at(k) : TRUE) = n
    <3>1. (CHOOSE m \in at(k) : TRUE) \in at(k)
      BY <2>2
    <3> QED
      BY <2>3, <3>1
  <2>5. b.child[k] = t.ino[(CHOOSE m \in at(k) : TRUE).path.key]
    BY <1>1, <2>1, <2>2, ZenonT(60)
  <2> QED
    BY <2>4, <2>5 DEF k
<1>3. ASSUME NEW n \in N
      PROVE  b.node[t.ino[n.path.key]] = n
  <2> DEFINE i == t.ino[n.path.key]
  <2>1. i \in Ino
    BY TableParts DEF AllPaths
  <2>2. n \in of(i)
    OBVIOUS
  <2>3. ASSUME NEW m \in of(i) PROVE m = n
    <3>1. m.path.key \in AllPaths /\ n.path.key \in AllPaths
      BY DEF AllPaths
    <3>2. m.path.key = n.path.key
      BY <3>1, TableParts
    <3> QED
      BY <2>3, <3>2
  <2> HIDE DEF of, i
  <2>4. (CHOOSE m \in of(i) : TRUE) = n
    <3>1. (CHOOSE m \in of(i) : TRUE) \in of(i)
      BY <2>2
    <3> QED
      BY <2>3, <3>1
  <2>5. b.node[i] = CHOOSE m \in of(i) : TRUE
    BY <1>1, <2>1, <2>2, ZenonT(60)
  <2> QED
    BY <2>4, <2>5 DEF i
<1>4. ASSUME NEW i \in Ino, b.node[i] # NoNode
      PROVE  \E n \in N : i = t.ino[n.path.key]
  <2>1. of(i) # {}
    BY <1>1, <1>4, ZenonT(60)
  <2> QED
    BY <2>1
<1> QED
  BY <1>2, <1>3, <1>4 DEF b, LeadsTo

\* The base when the file system is mounted.
LEMMA InitBase ==
    ASSUME Init
    PROVE  /\ \A p \in MergedPaths :
                /\ p \in Paths /\ table.ino[p] # 0 /\ table.ino[Parent(p)] # 0
                /\ base.child[KeyOf(p)] = table.ino[p]
                /\ base.node[table.ino[p]] # NoNode
                /\ base.node[table.ino[p]].what = tree[p]
           /\ \A k \in Key : base.child[k] # 0 =>
                \E p \in MergedPaths : base.child[k] = table.ino[p] /\ k = KeyOf(p)
           /\ \A i \in Ino : base.node[i] # NoNode => i < table.next
           /\ \A i \in Ino : base.node[i] # NoNode => \E p \in MergedPaths : i = table.ino[p]
           /\ index = EmptyIndex /\ TableSound(table)
<1> DEFINE node(s) == [path |-> s, what |-> tree[s.key]]
           N == {node(s) : s \in Range(Merged)}
<1>1. base = Build(N, table) /\ index = EmptyIndex
  BY DEF Init
<1>2. TableSound(table)
  BY InitTable
<1>3. /\ Range(Merged) \subseteq Spelled
      /\ \A s \in Range(Merged) : s.key \in MergedPaths
      /\ \A p \in MergedPaths : \E s \in Range(Merged) : s.key = p
  BY MergedParts DEF MergedPaths, Range
<1>4. \A p \in MergedPaths : p \in Paths /\ p \in AllPaths /\ table.ino[p] # 0
  BY InitTable, MergedParts DEF MergedPaths, AllPaths
<1>5. \A p \in MergedPaths : table.ino[Parent(p)] # 0
  <2>1. table.ino[Root] = 1
    BY <1>2 DEF TableSound
  <2> QED
    BY <1>4, <2>1, MergedParts DEF MergedPaths
<1>6. \A s, u \in Range(Merged) : s.key = u.key => s = u
  BY NamespaceAssumption DEF Range
<1>7. \A s \in Range(Merged) : tree[s.key] \in What
  BY <1>3, InitTree DEF What
<1>8. /\ N \subseteq Node /\ \A n \in N : n.path.key \in Paths
      /\ \A n \in N : table.ino[n.path.key] # 0 /\ table.ino[Parent(n.path.key)] # 0
      /\ \A n \in N : n.path.key \in MergedPaths
      /\ \A m, n \in N : m.path.key = n.path.key => m = n
      /\ \A p \in MergedPaths : \E n \in N : n.path.key = p /\ n.what = tree[p]
  <2>1. \A s \in Range(Merged) : /\ node(s) \in Node /\ node(s).path = s
                                   /\ node(s).what = tree[s.key]
    BY <1>3, <1>7 DEF Node
  <2>2. \A n \in N : \E s \in Range(Merged) : n = node(s)
    OBVIOUS
  <2>3. \A s \in Range(Merged) : node(s) \in N
    OBVIOUS
  <2> HIDE DEF N, node
  <2>4. N \subseteq Node
    BY <2>1, <2>2
  <2>5. \A n \in N : n.path.key \in MergedPaths
    BY <1>3, <2>1, <2>2
  <2>6. \A m, n \in N : m.path.key = n.path.key => m = n
    BY <1>6, <2>1, <2>2
  <2>7. \A p \in MergedPaths : \E n \in N : n.path.key = p /\ n.what = tree[p]
    BY <1>3, <2>1, <2>3
  <2> QED
    BY <1>4, <1>5, <2>4, <2>5, <2>6, <2>7
<1> HIDE DEF N
<1>9. /\ \A n \in N :
           /\ base.child[<<table.ino[Parent(n.path.key)], Name(n.path.key)>>] =
                 table.ino[n.path.key]
           /\ base.node[table.ino[n.path.key]] = n
      /\ \A i \in Ino : base.node[i] # NoNode => \E n \in N : i = table.ino[n.path.key]
  <2>1. LeadsTo(Build(N, table), N, table)
    BY <1>2, <1>8, BuildTells
  <2> QED
    BY <1>1, <2>1 DEF LeadsTo
<1>10. \A k \in Key : base.child[k] # 0 =>
         \E n \in N : /\ base.child[k] = table.ino[n.path.key]
                      /\ table.ino[Parent(n.path.key)] = k[1] /\ Name(n.path.key) = k[2]
  <2>1. BuiltOf(Build(N, table), N, table)
    BY <1>2, <1>8, BuildSound
  <2> QED
    BY <1>1, <2>1 DEF BuiltOf
<1>11. \A p \in MergedPaths :
          /\ base.child[KeyOf(p)] = table.ino[p]
          /\ base.node[table.ino[p]] # NoNode
          /\ base.node[table.ino[p]].what = tree[p]
  <2> SUFFICES ASSUME NEW p \in MergedPaths
               PROVE  /\ base.child[KeyOf(p)] = table.ino[p]
                      /\ base.node[table.ino[p]] # NoNode
                      /\ base.node[table.ino[p]].what = tree[p]
    OBVIOUS
  <2>1. PICK n \in N : n.path.key = p /\ n.what = tree[p]
    BY <1>8
  <2>2. n # NoNode
    BY <1>8, NodeAssumption
  <2> QED
    BY <1>9, <2>1, <2>2 DEF KeyOf
<1>12. ASSUME NEW k \in Key, base.child[k] # 0
       PROVE  \E p \in MergedPaths : base.child[k] = table.ino[p] /\ k = KeyOf(p)
  <2>1. PICK n \in N : /\ base.child[k] = table.ino[n.path.key]
                       /\ table.ino[Parent(n.path.key)] = k[1] /\ Name(n.path.key) = k[2]
    BY <1>10, <1>12
  <2>2. k = <<k[1], k[2]>>
    BY DEF Key
  <2> QED
    BY <1>8, <2>1, <2>2 DEF KeyOf
<1>13. \A i \in Ino : base.node[i] # NoNode => i < table.next
  BY <1>2, <1>4, <1>8, <1>9, TableParts
<1>14. \A i \in Ino : base.node[i] # NoNode => \E p \in MergedPaths : i = table.ino[p]
  BY <1>8, <1>9
<1> QED
  BY <1>1, <1>2, <1>4, <1>5, <1>11, <1>12, <1>13, <1>14

LEMMA InitLeaves ==
    ASSUME Init
    PROVE  LeavesSound
<1>1. /\ \A p \in MergedPaths :
           /\ p \in Paths /\ table.ino[p] # 0 /\ table.ino[Parent(p)] # 0
           /\ base.child[KeyOf(p)] = table.ino[p]
           /\ base.node[table.ino[p]] # NoNode
           /\ base.node[table.ino[p]].what = tree[p]
      /\ \A k \in Key : base.child[k] # 0 =>
           \E p \in MergedPaths : base.child[k] = table.ino[p] /\ k = KeyOf(p)
      /\ \A i \in Ino : base.node[i] # NoNode => i < table.next
      /\ index = EmptyIndex /\ TableSound(table)
  BY InitBase
<1>2. \A p \in Paths : tree[p] # "absent" <=> p \in MergedPaths
  BY InitTree
<1>3. mut = NoChange /\ req = Idle /\ Sound
  BY InitSound DEF Init
<1>4. /\ \A k \in Key : index.child[k] = 0 /\ k \notin index.tombstones
      /\ \A i \in Ino : index.node[i] = NoNode /\ i \notin index.hidden
  BY <1>1 DEF EmptyIndex
<1>5. MutGoes
  BY <1>3 DEF MutGoes, NoChange
<1>6. LeavesNumbered /\ DirsNumbered
  BY <1>1, <1>2, LeafParts, DirParts DEF LeavesNumbered, DirsNumbered
<1>7. Unused
  <2>1. ASSUME NEW k \in Key, k[1] >= table.next PROVE base.child[k] = 0
    <3> SUFFICES ASSUME base.child[k] # 0 PROVE FALSE
      OBVIOUS
    <3>1. PICK p \in MergedPaths : k = KeyOf(p)
      BY <1>1
    <3>2. Parent(p) \in AllPaths /\ k[1] = table.ino[Parent(p)]
      BY <1>1, <3>1, PathsAssumption DEF KeyOf
    <3>3. k[1] < table.next /\ k[1] \in Nat /\ table.next \in Nat
      BY <1>1, <3>2, TableParts, PathsAssumption
    <3> QED
      BY <2>1, <3>3
  <2>2. \A i \in Ino : i >= table.next => base.node[i] = NoNode
    BY <1>1, TableParts DEF Ino
  <2> QED
    BY <1>4, <2>1, <2>2 DEF Unused, KeyUnused
<1>8. LeavesTold
  <2> SUFFICES ASSUME NEW p \in Leaves, table.ino[Parent(p)] # 0 PROVE TellsLeaf(p)
    BY DEF LeavesTold
  <2>1. p \in Paths /\ p \in AllPaths
    BY LeafParts DEF AllPaths
  <2>2. KeyOf(p) \in Key
    BY <1>1, <2>1, KeyParts DEF KeyOf
  <2>3. ASSUME tree[p] = "absent" PROVE base.child[KeyOf(p)] = 0
    <3> SUFFICES ASSUME base.child[KeyOf(p)] # 0 PROVE FALSE
      OBVIOUS
    <3>1. PICK q \in MergedPaths : KeyOf(p) = KeyOf(q)
      BY <1>1, <2>2
    <3>2. p = q
      BY <1>1, <2>1, <3>1, NamesApart DEF KeyOf
    <3> QED
      BY <1>2, <2>1, <2>3, <3>2
  <2>4. ASSUME tree[p] # "absent" PROVE TellsPresent(KeyOf(p), table.ino[p], tree[p])
    <3>1. p \in MergedPaths /\ table.ino[p] \in Ino
      BY <1>1, <1>2, <2>1, <2>4, TableParts
    <3>2. NodeAt(table.ino[p]) = base.node[table.ino[p]]
      BY <1>4, <3>1 DEF NodeAt, NodeOf
    <3> QED
      BY <1>1, <1>4, <2>2, <3>1, <3>2 DEF TellsPresent
  <2> QED
    BY <1>4, <2>2, <2>3, <2>4 DEF TellsLeaf, TellsAbsent
<1>9. ReadSound
  BY <1>3 DEF ReadSound
<1> QED
  BY <1>3, <1>5, <1>6, <1>7, <1>8, <1>9 DEF LeavesSound

LEMMA LeavesStutters == ASSUME LeavesSound, UNCHANGED vars PROVE LeavesSound'
<1>1. Sound'
  BY SoundStutters DEF LeavesSound
<1>2. UNCHANGED <<tree, table, base, index, mut, req, late, changes>>
  BY DEF vars
<1>3. MutGoes' /\ LeavesNumbered' /\ DirsNumbered'
  BY <1>2 DEF LeavesSound, MutGoes, Emptied, LeavesNumbered, DirsNumbered, Arrives
<1>4. Unused' /\ LeavesTold'
  BY <1>2 DEF LeavesSound, Unused, KeyUnused, LeavesTold, InFlight, Arrives, Departs, KeyOf,
     TellsLeaf, TellsAbsent, TellsPresent, NodeAt
<1>5. ReadSound'
  BY <1>2 DEF LeavesSound, ReadSound, StepsDone, Progress
<1> QED
  BY <1>1, <1>3, <1>4, <1>5 DEF LeavesSound

LEMMA LeavesStep == ASSUME NoFullRename, LeavesSound, [Next]_vars PROVE LeavesSound'
<1>1. CASE Next
  BY <1>1, SoundStep, MutGoesStep, NumberedStep, UnusedStep, LeavesToldStep, ReadSoundStep
     DEF LeavesSound
<1> QED
  BY <1>1, LeavesStutters

\* The index tells of each leaf what the tree has, but for what a change has in flight
\* and what a request has published late.
THEOREM IndexFollowsTree ==
    ASSUME NoFullRename
    PROVE  Spec => []LeavesSound
<1>1. Init => LeavesSound
  BY InitLeaves
<1>2. LeavesSound /\ [Next]_vars => LeavesSound'
  BY LeavesStep
<1> QED
  BY <1>1, <1>2, PTL DEF Spec

-----------------------------------------------------------------------------
(* A lookup answers what was so at some moment of it.                       *)

\* What a lookup has seen, at each of its steps.
LookupSound ==
    LookingUp =>
    /\ Presence \subseteq seen
    /\ req.step \in {"base", "negative"} => BOOLEAN \subseteq seen \/ ReqKey \notin index.tombstones
    /\ req.step \in {"inode", "heal"} => TRUE \in seen
    /\ req.step = "unknown" => FALSE \in seen
    /\ req.step = "replied" => (req.answer # 0) \in seen

LEMMA PresenceParts ==
    /\ Presence \in SUBSET BOOLEAN
    /\ table.path[req.ino] # NoPath /\ Presence # BOOLEAN =>
          LET p == Append(table.path[req.ino].key, req.name)
          IN  /\ p \in Leaves /\ p \notin late
              /\ ~\E q \in {mut.path.key, mut.to.key} \ {Root} : Within(p, q)
              /\ Presence = {tree[p] # "absent"}
    /\ table.path[req.ino] = NoPath => Presence = BOOLEAN
BY DEF Presence

\* What the index tells of the name that is looked up, unless it may be there or not.
LEMMA PresenceTold ==
    ASSUME LeavesSound, req # Idle, req.kind = "lookup", Presence # BOOLEAN
    PROVE  \/ Presence = {FALSE} /\ TellsAbsent(ReqKey)
           \/ \E i, what : Presence = {TRUE} /\ TellsPresent(ReqKey, i, what)
<1> DEFINE p == Append(table.path[req.ino].key, req.name)
<1>1. /\ TableSound(table) /\ req.ino \in Ino /\ req.name \in Names /\ LeavesTold
  BY DEF LeavesSound, Sound, TablesSound, ReqSound, ReqRecord
<1>2. /\ table.path[req.ino] # NoPath /\ p \in Leaves /\ p \notin late
      /\ ~\E q \in {mut.path.key, mut.to.key} \ {Root} : Within(p, q)
      /\ Presence = {tree[p] # "absent"}
  BY PresenceParts
<1>3. table.path[req.ino].key \in Seq(Names)
  <2>1. table.path[req.ino].key \in AllPaths
    BY <1>1, <1>2, TableParts DEF Spelled
  <2> QED
    BY <2>1, PathParts, ParentOfRoot DEF AllPaths
<1>4. Parent(p) = table.path[req.ino].key /\ Name(p) = req.name
  BY <1>1, <1>3, ChildParts
<1> HIDE DEF p
<1>5. p \in Paths /\ p # Root /\ Within(p, p)
  BY <1>2, LeafParts, WithinParts, PathParts
<1>6. ~InFlight(p)
  BY <1>2, <1>5 DEF InFlight, Arrives, Departs
<1>7. table.ino[Parent(p)] = req.ino /\ req.ino # 0
  BY <1>1, <1>2, <1>4 DEF TableSound, TableAgrees, Ino
<1>8. KeyOf(p) = ReqKey /\ TellsLeaf(p)
  BY <1>1, <1>2, <1>4, <1>6, <1>7 DEF KeyOf, ReqKey, LeavesTold
<1> QED
  BY <1>2, <1>8 DEF TellsLeaf

\* A name that is hidden while it is looked up is one of the change that is going on.
LEMMA HiddenIsSeen ==
    ASSUME NoFullRename, LeavesSound, Next, req # Idle, req.kind = "lookup", UNCHANGED req,
           ReqKey \notin index.tombstones, ReqKey \in index'.tombstones
    PROVE  Presence' = BOOLEAN
<1>1. Sound /\ TableSound(table) /\ req.ino \in Ino /\ index \in Index
  BY DEF LeavesSound, Sound, TablesSound, ReqSound, ReqRecord, IndexSound, Alike
<1>2. TombstonePath
  <2>1. ~SameNames(index, index')
    BY DEF SameNames
  <2>2. ~Heal
    BY <1>1, HealParts DEF Published
  <2>3. ~PublishChange
    <3> SUFFICES ASSUME PublishChange PROVE FALSE
      OBVIOUS
    <3>1. index'.tombstones \subseteq index.tombstones
      BY <1>1, PublishChangeParts DEF Published
    <3> QED
      BY <3>1
  <2> QED
    BY <1>1, <2>1, <2>2, <2>3, IndexWriters
<1> DEFINE parent == table.ino[Parent(mut.path.key)]
           k == <<parent, Name(mut.path.key)>>
<1>3. /\ mut.path.key \in Paths /\ UNCHANGED <<table, tree>> /\ mut'.path = mut.path
      /\ parent = 0 => UNCHANGED index
      /\ parent # 0 => index'.tombstones = index.tombstones \cup {k}
  BY <1>1, <1>2, TombstoneParts, MutFields, Frames DEF MutKept
<1>4. ReqKey = k /\ parent # 0
  BY <1>3
<1>5. req.ino = parent /\ req.name = Name(mut.path.key)
  BY <1>4 DEF ReqKey
<1> HIDE DEF k
<1>6. Parent(mut.path.key) \in AllPaths
  BY <1>3, PathsAssumption
<1>7. table.path[req.ino] # NoPath /\ table.path[req.ino].key = Parent(mut.path.key)
  BY <1>1, <1>4, <1>5, <1>6 DEF TableSound, TableAgrees
<1>8. Append(table.path[req.ino].key, req.name) = mut.path.key
  BY <1>3, <1>5, <1>7, PathParts
<1>9. Within(mut.path.key, mut.path.key) /\ mut.path.key # Root
  BY <1>3, WithinParts, PathParts
<1> QED
  BY <1>3, <1>8, <1>9 DEF Presence

LEMMA SeenGrows ==
    ASSUME Next, LookingUp'
    PROVE  seen' = seen \cup Presence'
BY DEF Next, Observe

LEMMA StartsFromIdle ==
    ASSUME Next, req = Idle, req' # req
    PROVE  \/ \E i \in KnownDirs : StartListing(i) \/ \E n \in Names : StartLookup(i, n)
           \/ \E i \in Ino : StartGetattr(i)
<1>1. ~OverlaySection /\ ~BaseSection /\ ~NegativeSection /\ ~TreeSection
      /\ ~RecordMissing /\ ~CreatePhantom /\ ~FoundInode /\ ~GetattrNode
      /\ ~GetattrTree /\ ~GetattrPath /\ ~Heal /\ ~CachedEntries /\ ~BuildEntries
      /\ ~KeepEntries /\ ~KeepBlob /\ ~EndRequest
  BY DEF OverlaySection, BaseSection, NegativeSection, TreeSection, RecordMissing,
     CreatePhantom, FoundInode, GetattrNode, GetattrTree, GetattrPath, Heal,
     CachedEntries, BuildEntries, KeepEntries, KeepBlob, EndRequest
<1> QED
  BY <1>1, ReqWriters, Zenon

\* What the tree says of a name is one of what the lookup has seen.
LEMMA TreeSectionSees ==
    ASSUME Sound, req # Idle, req \in ReqRecord, req.kind = "lookup", TreeSection,
           Presence \subseteq seen
    PROVE  \/ req'.step = "inode" /\ TRUE \in seen
           \/ req'.step = "unknown" /\ FALSE \in seen
<1> DEFINE dir == Resolved(req.ino)
           found == dir # NoPath /\ IsDir(dir) /\ tree[Append(dir, req.name)] # "absent"
<1>1. req'.step = IF found THEN "inode" ELSE "unknown"
  <2>1. req' = IF found THEN [req EXCEPT !.step = "inode",
                                         !.what = tree[Append(dir, req.name)],
                                         !.version = Progress]
               ELSE [req EXCEPT !.step = "unknown"]
    BY DEF TreeSection
  <2> HIDE DEF found, dir
  <2> QED
    BY <2>1 DEF ReqRecord
<1>2. /\ Resolved(req.ino) # Dangling /\ req.ino \in Ino /\ req.name \in Names
      /\ table.path[req.ino] # NoPath => Append(table.path[req.ino].key, req.name) \in Paths
      /\ TableSound(table) /\ TreeSound
  BY DEF TreeSection, ReqRecord, Sound, ReqSound, TablesSound
<1>3. CASE table.path[req.ino] = NoPath
  BY <1>1, <1>3, PresenceParts
<1>4. CASE table.path[req.ino] # NoPath /\ Presence = BOOLEAN
  BY <1>1, <1>4
<1>5. CASE table.path[req.ino] # NoPath /\ Presence # BOOLEAN
  <2> DEFINE p == Append(table.path[req.ino].key, req.name)
  <2>1. p \in Paths /\ Presence = {tree[p] # "absent"}
    BY <1>2, <1>5, PresenceParts
  <2>2. table.path[req.ino].key \in AllPaths
    BY <1>2, <1>5, TableParts DEF Spelled
  <2>3. Parent(p) = table.path[req.ino].key
    BY <1>2, <2>2, ChildParts, PathParts, ParentOfRoot DEF AllPaths
  <2> HIDE DEF p
  <2>4. tree[p] # "absent" => IsDir(Parent(p))
    BY <1>2, <2>1 DEF TreeSound
  <2>5. dir # NoPath => dir = table.path[req.ino].key
    BY <1>2, <1>5, ResolvedParts, TableParts
  <2>6. dir = NoPath => ~IsDir(table.path[req.ino].key)
    <3> SUFFICES ASSUME dir = NoPath PROVE ~IsDir(table.path[req.ino].key)
      OBVIOUS
    <3>1. req.ino # 1
      BY NotPaths DEF Resolved, AllPaths
    <3>2. table.path[req.ino].key # Root
      <4>1. table.path[req.ino].key = Root => req.ino = 1
        BY <1>2, <1>5 DEF TableSound, TableAgrees
      <4> QED
        BY <3>1, <4>1
    <3>3. tree[table.path[req.ino].key] = "absent"
      BY <1>2, <1>5, <2>2, <3>1, NotPaths DEF Resolved, AllPaths
    <3> QED
      BY <3>2, <3>3 DEF IsDir
  <2>7. found <=> tree[p] # "absent"
    BY <2>3, <2>4, <2>5, <2>6 DEF p
  <2> QED
    BY <1>1, <2>1, <2>7
<1> QED
  BY <1>3, <1>4, <1>5

LEMMA LookupSoundStep ==
    ASSUME NoFullRename, LeavesSound, LookupSound, Next
    PROVE  LookupSound'
<1> SUFFICES ASSUME LookingUp' PROVE LookupSound'
  BY DEF LookupSound
<1>1. Sound /\ seen' = seen \cup Presence' /\ req' # Idle /\ req'.kind = "lookup"
  BY SeenGrows DEF LeavesSound, LookingUp
<1>2. Presence' \subseteq seen' /\ seen \subseteq seen'
  BY <1>1
<1>3. CASE req' = req
  <2>1. req # Idle /\ req.kind = "lookup" /\ LookingUp
    BY <1>1, <1>3 DEF LookingUp
  <2>2. /\ Presence \subseteq seen
        /\ req.step \in {"base", "negative"} => BOOLEAN \subseteq seen \/ ReqKey \notin index.tombstones
        /\ req.step \in {"inode", "heal"} => TRUE \in seen
        /\ req.step = "unknown" => FALSE \in seen
        /\ req.step = "replied" => (req.answer # 0) \in seen
    BY <2>1 DEF LookupSound
  <2>3. ASSUME ReqKey \notin index.tombstones, ReqKey \in index'.tombstones
        PROVE  BOOLEAN \subseteq seen'
    BY <1>1, <1>3, <2>1, <2>3, HiddenIsSeen
  <2>4. req.step \in {"base", "negative"} =>
           BOOLEAN \subseteq seen' \/ ReqKey \notin index'.tombstones
    BY <1>2, <2>2, <2>3
  <2> QED
    BY <1>1, <1>2, <1>3, <2>2, <2>4 DEF LookupSound, ReqKey
<1>4. CASE req' # req /\ req = Idle
  <2>1. req'.step = "overlay"
    <3>1. \/ \E i \in KnownDirs : StartListing(i) \/ \E n \in Names : StartLookup(i, n)
          \/ \E i \in Ino : StartGetattr(i)
      BY <1>4, StartsFromIdle
    <3> QED
      BY <1>1, <3>1 DEF StartListing, StartLookup, StartGetattr, Start
  <2> QED
    BY <1>2, <2>1 DEF LookupSound
<1>5. CASE req' # req /\ req # Idle
  <2>1. /\ req'.kind = req.kind /\ req'.ino = req.ino /\ req'.name = req.name
        /\ req \in ReqRecord /\ req.kind = "lookup" /\ LookingUp
    BY <1>1, <1>5, RequestReads DEF Sound, ReqSound, LookingUp
  <2>2. /\ Presence \subseteq seen
        /\ req.step \in {"base", "negative"} => BOOLEAN \subseteq seen \/ ReqKey \notin index.tombstones
        /\ req.step \in {"inode", "heal"} => TRUE \in seen
        /\ req.step = "unknown" => FALSE \in seen
    BY <2>1 DEF LookupSound
  <2>3. ReqKey' = ReqKey
    BY <2>1 DEF ReqKey
  <2>4. /\ Presence = BOOLEAN => BOOLEAN \subseteq seen
        /\ Presence = {TRUE} => TRUE \in seen
        /\ Presence = {FALSE} => FALSE \in seen
    BY <2>2
  <2>5. \/ BOOLEAN \subseteq seen
        \/ FALSE \in seen /\ TellsAbsent(ReqKey)
        \/ TRUE \in seen /\ \E i, what : TellsPresent(ReqKey, i, what)
    BY <1>5, <2>1, <2>4, PresenceTold
  <2>6. CASE OverlaySection
    <3> DEFINE hit == LookupOverlay(index, ReqKey)
    <3>1. /\ UNCHANGED index
          /\ IF hit.source = "missing" THEN req' = [req EXCEPT !.step = "base"]
             ELSE req' = [req EXCEPT !.step = "replied", !.answer = hit.ino]
      BY <2>6 DEF OverlaySection, Section, Step, Reply
    <3>2. /\ hit.source = "missing" => ReqKey \notin index.tombstones
          /\ hit.source # "missing" /\ TellsAbsent(ReqKey) => hit.ino = 0
          /\ hit.source # "missing" /\ (\E i, what : TellsPresent(ReqKey, i, what)) => hit.ino # 0
      BY DEF LookupOverlay, Found, NotFound, TellsAbsent, TellsPresent
    <3> HIDE DEF hit
    <3>3. CASE hit.source = "missing"
      <4>1. req'.step = "base"
        BY <2>1, <3>1, <3>3 DEF ReqRecord
      <4> QED
        BY <1>2, <2>3, <3>1, <3>2, <3>3, <4>1 DEF LookupSound
    <3>4. CASE hit.source # "missing"
      <4>1. req'.step = "replied" /\ req'.answer = hit.ino
        BY <2>1, <3>1, <3>4 DEF ReqRecord
      <4>2. (hit.ino # 0) \in seen
        BY <2>5, <3>2, <3>4
      <4> QED
        BY <1>2, <4>1, <4>2 DEF LookupSound
    <3> QED
      BY <3>3, <3>4
  <2>7. CASE BaseSection
    <3> DEFINE hit == LookupBase(base, index, ReqKey)
    <3>1. /\ UNCHANGED index /\ req.step = "base"
          /\ IF hit.source = "missing" THEN req' = [req EXCEPT !.step = "negative"]
             ELSE req' = [req EXCEPT !.step = "replied", !.answer = hit.ino]
      BY <2>7 DEF BaseSection, Section, Step, Reply
    <3>2. hit.source # "missing" => hit.ino # 0 /\ base.child[ReqKey] # 0
      BY DEF LookupBase, Found, NotFound
    <3> HIDE DEF hit
    <3>3. CASE hit.source = "missing"
      <4>1. req'.step = "negative"
        BY <2>1, <3>1, <3>3 DEF ReqRecord
      <4> QED
        BY <1>2, <2>2, <2>3, <3>1, <4>1 DEF LookupSound
    <3>4. CASE hit.source # "missing"
      <4>1. req'.step = "replied" /\ req'.answer = hit.ino
        BY <2>1, <3>1, <3>4 DEF ReqRecord
      <4>2. TRUE \in seen
        BY <2>2, <2>5, <3>1, <3>2, <3>4 DEF TellsAbsent
      <4> QED
        BY <1>2, <3>2, <3>4, <4>1, <4>2 DEF LookupSound
    <3> QED
      BY <3>3, <3>4
  <2>8. CASE NegativeSection
    <3> DEFINE hit == LookupNegative(index, ReqKey)
    <3>1. /\ IF hit.source = "missing" THEN req' = [req EXCEPT !.step = "tree"]
             ELSE req' = [req EXCEPT !.step = "replied", !.answer = hit.ino]
      BY <2>8 DEF NegativeSection, Section, Step, Reply
    <3>2. hit.source # "missing" => hit.ino = 0 /\ ReqKey \in index.negative
      BY DEF LookupNegative, NotFound
    <3> HIDE DEF hit
    <3>3. CASE hit.source = "missing"
      <4>1. req'.step = "tree"
        BY <2>1, <3>1, <3>3 DEF ReqRecord
      <4> QED
        BY <1>2, <4>1 DEF LookupSound
    <3>4. CASE hit.source # "missing"
      <4>1. req'.step = "replied" /\ req'.answer = hit.ino
        BY <2>1, <3>1, <3>4 DEF ReqRecord
      <4>2. /\ ReqKey \notin index.tombstones
            /\ index.child[ReqKey] = 0 /\ base.child[ReqKey] = 0
        BY <1>1, <3>2, <3>4 DEF Sound, TablesSound, IndexSound
      <4>3. FALSE \in seen
        BY <2>5, <4>2 DEF TellsPresent
      <4> QED
        BY <1>2, <3>2, <3>4, <4>1, <4>3 DEF LookupSound
    <3> QED
      BY <3>3, <3>4
  <2>9. CASE TreeSection
    <3>1. \/ req'.step = "inode" /\ TRUE \in seen
          \/ req'.step = "unknown" /\ FALSE \in seen
      BY <1>1, <1>5, <2>1, <2>2, <2>9, TreeSectionSees
    <3> QED
      BY <1>2, <3>1 DEF LookupSound
  <2>10. CASE RecordMissing
    <3>1. /\ req.step = "unknown"
          /\ req' = [req EXCEPT !.step = "replied", !.answer = 0]
      BY <1>1, <2>10, RecordMissingParts
    <3>2. req'.step = "replied" /\ req'.answer = 0
      BY <2>1, <3>1 DEF ReqRecord
    <3> QED
      BY <1>2, <2>2, <3>1, <3>2 DEF LookupSound
  <2>11. CASE FoundInode
    <3> DEFINE s == Canonical(table.path[req.ino], req.name, AnySpelling)
    <3>1. /\ req.step = "inode"
          /\ \/ /\ table.path[req.ino] = NoPath
                /\ req' = [req EXCEPT !.step = "replied", !.answer = 0]
             \/ req' = [req EXCEPT !.step = "heal", !.path = s, !.answer = table'.ino[s.key]]
      BY <2>11 DEF FoundInode, Reply
    <3> HIDE DEF s
    <3>2. CASE req' = [req EXCEPT !.step = "replied", !.answer = 0] /\ table.path[req.ino] = NoPath
      <4>1. req'.step = "replied" /\ req'.answer = 0
        BY <2>1, <3>2 DEF ReqRecord
      <4>2. FALSE \in seen
        BY <2>4, <3>2, PresenceParts
      <4> QED
        BY <1>2, <4>1, <4>2 DEF LookupSound
    <3>3. CASE req' = [req EXCEPT !.step = "heal", !.path = s, !.answer = table'.ino[s.key]]
      <4>1. req'.step = "heal"
        BY <2>1, <3>3 DEF ReqRecord
      <4> QED
        BY <1>2, <2>2, <3>1, <4>1 DEF LookupSound
    <3> QED
      BY <3>1, <3>2, <3>3
  <2>12. CASE Heal
    <3>1. req.step = "heal" /\ req.answer # 0 /\ req' = [req EXCEPT !.step = "replied"]
      BY <1>1, <2>12, HealParts DEF Sound, ReqSound
    <3>2. req'.step = "replied" /\ req'.answer = req.answer
      BY <2>1, <3>1 DEF ReqRecord
    <3> QED
      BY <1>2, <2>2, <3>1, <3>2 DEF LookupSound
  <2>13. ~GetattrNode /\ ~GetattrTree /\ ~GetattrPath /\ ~CachedEntries /\ ~BuildEntries
         /\ ~KeepEntries /\ ~KeepBlob
    BY <1>1, <1>5, <2>1, KindOfStep DEF GetattrNode, GetattrTree, GetattrPath, CachedEntries,
       BuildEntries, KeepEntries, KeepBlob
  <2>14. ~CreatePhantom /\ ~EndRequest
    BY <1>1 DEF CreatePhantom, EndRequest
  <2> QED
    BY <1>5, <2>6, <2>7, <2>8, <2>9, <2>10, <2>11, <2>12, <2>13, <2>14, ReqWriters, Zenon
<1> QED
  BY <1>3, <1>4, <1>5

\* Each lookup, for all the locks it takes in turn, answers what was so at some moment of
\* it, whatever changes go on meanwhile: if no directory is renamed that has files.
THEOREM LookupsAnswerTruly ==
    ASSUME NoFullRename
    PROVE  Spec => []LookupIsOfOneMoment
<1>1. Init => LookupSound
  BY DEF Init, LookupSound, LookingUp
<1>2. LeavesSound /\ LookupSound /\ [Next]_vars => LookupSound'
  <2>1. LookupSound /\ UNCHANGED vars => LookupSound'
    BY DEF vars, caches, LookupSound, LookingUp, Presence, ReqKey
  <2> QED
    BY <2>1, LookupSoundStep
<1>3. LookupSound => LookupIsOfOneMoment
  BY DEF LookupSound, LookupIsOfOneMoment
<1> QED
  BY <1>1, <1>2, <1>3, IndexFollowsTree, PTL DEF Spec

-----------------------------------------------------------------------------
(* The index tells of the directories too, which it may have when the tree  *)
(* has not.                                                                 *)

DirKey(d) == <<1, Name(d)>>
Told(k)   == k \notin index.tombstones /\ (index.child[k] # 0 \/ base.child[k] # 0)

\* The name of a directory leads to its inode, if anywhere; it does so if the directory
\* is in the tree and no flush has brought it back, or if its inode has a node.
DirTold(d) ==
    /\ DirKey(d) \notin index.tombstones =>
         /\ index.child[DirKey(d)] \in {0, table.ino[d]}
         /\ index.child[DirKey(d)] = 0 => base.child[DirKey(d)] \in {0, table.ino[d]}
         /\ index.child[DirKey(d)] # 0 => index.node[index.child[DirKey(d)]] # NoNode
    /\ tree[d] # "absent" /\ d \notin revived => Told(DirKey(d))
    /\ table.ino[d] # 0 /\ NodeAt(table.ino[d]) # NoNode => Told(DirKey(d))

DirsTold == \A d \in Dirs \ late : ~InFlight(d) => DirTold(d)

\* What a change relies on that is about a directory, or about a name in one.
MutTold ==
    /\ mut.step = "tree" /\ mut.kind \in {"create", "rename"} =>
          \A d \in Dirs \ late : d = Parent(Target.key) => Told(DirKey(d))
    /\ mut.step = "tombstone" /\ mut.kind = "rmdir" => mut.ino # 0
    /\ mut.step = "tombstone" /\ mut.kind = "rename" /\ mut.path.key \in Dirs \ late =>
          table.ino[mut.path.key] = 0 \/ NodeAt(table.ino[mut.path.key]) = NoNode

\* An inode that is hidden has no node; one that a name of the base leads to has one there.
NodesTold ==
    /\ \A i \in index.hidden : index.node[i] = NoNode
    /\ \A k \in Key : base.child[k] # 0 => base.node[base.child[k]] # NoNode

DirsSound == LeavesSound /\ NodesTold /\ MutTold /\ DirsTold

LEMMA DirKeyParts ==
    ASSUME NEW t, TableSound(t), NEW d \in Dirs
    PROVE  /\ DirKey(d) = <<t.ino[Parent(d)], Name(d)>> /\ DirKey(d) \in Key
           /\ d \in AllPaths /\ d \in Paths /\ t.ino[Parent(d)] # 0
           /\ \A q \in Paths : <<t.ino[Parent(q)], Name(q)>> = DirKey(d) => q = d
<1>1. Parent(d) = Root /\ t.ino[Root] = 1 /\ d \in Paths /\ d \in AllPaths
  BY DirParts DEF TableSound
<1>2. DirKey(d) = <<t.ino[Parent(d)], Name(d)>>
  BY <1>1 DEF DirKey
<1>3. DirKey(d) \in Key
  BY <1>1, <1>2, KeyParts
<1>4. \A q \in Paths : <<t.ino[Parent(q)], Name(q)>> = DirKey(d) => q = d
  BY <1>1, <1>2, NamesApart
<1> QED
  BY <1>1, <1>2, <1>3, <1>4

\* The index goes on telling of a directory when its name and its node stay.
LEMMA DirKept ==
    ASSUME TableSound(table), Unused, UNCHANGED base, NEW d \in Dirs, DirTold(d),
           Grown(table, table') \/ table'.ino[d] = table.ino[d],
           index'.child[DirKey(d)] = index.child[DirKey(d)],
           DirKey(d) \in index'.tombstones <=> DirKey(d) \in index.tombstones,
           table.ino[d] # 0 /\ index.node[table.ino[d]] # NoNode =>
              index'.node[table.ino[d]] # NoNode,
           \A i \in Ino : i = table'.ino[d] =>
              NodeOf(base, index', i) \in {NoNode, NodeOf(base, index, i)},
           tree'[d] # "absent" /\ d \notin revived' =>
              Told(DirKey(d)) \/ (tree[d] # "absent" /\ d \notin revived)
    PROVE  DirTold(d)'
<1>1. d \in AllPaths
  BY DirParts
<1>2. table.ino[d] # 0 => table'.ino[d] = table.ino[d]
  BY <1>1 DEF Grown
<1>3. Told(DirKey(d))' <=> Told(DirKey(d))
  BY DEF Told, DirKey
<1>4. ASSUME DirKey(d) \notin index'.tombstones
      PROVE  /\ index'.child[DirKey(d)] \in {0, table'.ino[d]}
             /\ index'.child[DirKey(d)] = 0 => base'.child[DirKey(d)] \in {0, table'.ino[d]}
             /\ index'.child[DirKey(d)] # 0 => index'.node[index'.child[DirKey(d)]] # NoNode
  BY <1>2, <1>4 DEF DirTold
<1>5. tree'[d] # "absent" /\ d \notin revived' => Told(DirKey(d))
  BY DEF DirTold
<1>6. ASSUME table'.ino[d] # 0, NodeOf(base, index', table'.ino[d]) # NoNode
      PROVE  Told(DirKey(d))
  <2>1. CASE table.ino[d] = 0
    <3>1. table'.ino[d] \in Ino /\ table'.ino[d] >= table.next
      BY <1>1, <1>6, <2>1, GrownNew
    <3>2. NodeOf(base, index, table'.ino[d]) = NoNode
      BY <3>1 DEF Unused, NodeOf
    <3> QED
      BY <1>6, <3>1, <3>2
  <2>2. CASE table.ino[d] # 0
    <3>1. table'.ino[d] = table.ino[d] /\ table.ino[d] \in Ino
      BY <1>1, <1>2, <2>2, TableParts
    <3>2. NodeOf(base, index, table.ino[d]) # NoNode
      BY <1>6, <3>1
    <3> QED
      BY <2>2, <3>2 DEF DirTold, NodeAt
  <2> QED
    BY <2>1, <2>2
<1> QED
  BY <1>3, <1>4, <1>5, <1>6 DEF DirTold, NodeAt, DirKey

\* And when its name is published.
LEMMA DirPublished ==
    ASSUME NEW s, NEW ino, NEW what, Published(s, ino, what), index \in Index,
           TableSound(table'), NEW d \in Dirs, d = s.key, table'.ino[d] = ino
    PROVE  DirTold(d)' /\ Told(DirKey(d))'
<1> DEFINE k == <<table'.ino[Parent(s.key)], Name(s.key)>>
           node == [path |-> s, what |-> what]
<1>1. /\ k \in Key /\ ino \in Ino /\ node \in Node
      /\ index'.child = [index.child EXCEPT ![k] = ino]
      /\ index'.tombstones = index.tombstones \ {k}
      /\ index'.node = [index.node EXCEPT ![ino] = node]
  BY DEF Published
<1>2. DirKey(d) = k /\ node # NoNode
  BY <1>1, DirKeyParts, NodeAssumption
<1>3. index.child \in [Key -> 0..MaxIno] /\ index.node \in [Ino -> Node \cup {NoNode}]
  BY IndexParts
<1> HIDE DEF k, node
<1>4. index'.child[k] = ino /\ index'.node[ino] = node /\ k \notin index'.tombstones
  BY <1>1, <1>3
<1>5. ino # 0
  BY <1>1 DEF Ino
<1>6. Told(DirKey(d))'
  BY <1>2, <1>4, <1>5 DEF Told, DirKey
<1> QED
  BY <1>2, <1>4, <1>5, <1>6 DEF DirTold, DirKey

\* A name that is published leaves those of other directories as they are, unless it is
\* published with the inode of one.
LEMMA DirElsewhere ==
    ASSUME TableSound(table), Unused, UNCHANGED base, index \in Index, Grown(table, table'),
           NEW s, NEW ino, NEW what, Published(s, ino, what),
           NEW d \in Dirs, d # s.key, table'.ino[d] # ino
    PROVE  /\ index'.child[DirKey(d)] = index.child[DirKey(d)]
           /\ DirKey(d) \in index'.tombstones <=> DirKey(d) \in index.tombstones
           /\ \A i \in Ino : i # ino => NodeOf(base, index', i) = NodeOf(base, index, i)
           /\ DirTold(d) /\ UNCHANGED tree /\ revived \subseteq revived' => DirTold(d)'
<1> DEFINE k == <<table'.ino[Parent(s.key)], Name(s.key)>>
           node == [path |-> s, what |-> what]
<1>1. /\ k \in Key /\ ino \in Ino /\ s.key \in Paths /\ node \in Node
      /\ index'.child = [index.child EXCEPT ![k] = ino]
      /\ index'.tombstones = index.tombstones \ {k}
      /\ index'.node = [index.node EXCEPT ![ino] = node]
      /\ index'.hidden = index.hidden \ {ino}
  BY DEF Published
<1>2. node # NoNode
  BY <1>1, NodeAssumption
<1>3. DirKey(d) # k /\ DirKey(d) \in Key /\ d \in AllPaths
  <2>1. TableSound(table')
    BY DEF Grown
  <2> QED
    BY <1>1, <2>1, DirKeyParts
<1> HIDE DEF k, node
<1>4. index.child \in [Key -> 0..MaxIno] /\ index.node \in [Ino -> Node \cup {NoNode}]
  BY IndexParts
<1>5. /\ index'.child[DirKey(d)] = index.child[DirKey(d)]
      /\ DirKey(d) \in index'.tombstones <=> DirKey(d) \in index.tombstones
  BY <1>1, <1>3, <1>4
<1>6. \A i \in Ino : i # ino => NodeOf(base, index', i) = NodeOf(base, index, i)
  BY <1>1, <1>4 DEF NodeOf
<1>7. table.ino[d] # 0 => table.ino[d] \in Ino
  BY <1>3, TableParts
<1>8. table.ino[d] # 0 /\ index.node[table.ino[d]] # NoNode =>
         index'.node[table.ino[d]] # NoNode
  BY <1>1, <1>2, <1>4, <1>7
<1>9. \A i \in Ino : i = table'.ino[d] =>
         NodeOf(base, index', i) \in {NoNode, NodeOf(base, index, i)}
  BY <1>6
<1>10. DirTold(d) /\ UNCHANGED tree /\ revived \subseteq revived' => DirTold(d)'
  BY <1>5, <1>8, <1>9, DirKept
<1> QED
  BY <1>5, <1>6, <1>10

\* What a lookup of a directory finds.
LEMMA HitTold ==
    ASSUME Sound, NEW n \in Names, HitOf(1, n).ino # 0
    PROVE  Told(<<1, n>>)
<1>1. HitOf(1, n) = Lookup(base, index, <<1, n>>)
  BY DEF HitOf
<1> QED
  BY <1>1 DEF Lookup, LookupOverlay, LookupBase, LookupNegative, Found, NotFound, Told

LEMMA HitHasNode ==
    ASSUME Sound, NodesTold, NEW i \in Ino, NEW n \in Names, HitOf(i, n).ino # 0
    PROVE  HitOf(i, n).ino \in Ino /\ NodeAt(HitOf(i, n).ino) # NoNode
<1> DEFINE k == <<i, n>>
           j == HitOf(i, n).ino
<1>1. k \in Key
  BY DEF Key
<1>2. index \in Index /\ base \in Base
  BY DEF Sound, TablesSound, IndexSound, Alike
<1>3. index.hidden \subseteq Ino /\ index.node \in [Ino -> Node \cup {NoNode}]
  BY <1>2, IndexParts
<1>4. j \in Ino
  <2>1. TablesSound
    BY DEF Sound
  <2>2. j \in 0..MaxIno
    BY <2>1, HitParts
  <2>3. j # 0
    OBVIOUS
  <2> HIDE DEF j
  <2> QED
    BY <2>2, <2>3, PathsAssumption DEF Ino
<1>5. HitOf(i, n) = Lookup(base, index, k)
  BY DEF HitOf
<1> HIDE DEF k
<1>6. \/ j = index.child[k] /\ index.node[j] # NoNode
      \/ j = base.child[k] /\ j \notin index.hidden
  BY <1>5 DEF Lookup, LookupOverlay, LookupBase, LookupNegative, Found, NotFound
<1> HIDE DEF j
<1>7. CASE j = index.child[k] /\ index.node[j] # NoNode
  BY <1>4, <1>7 DEF NodesTold, NodeAt, NodeOf, j
<1>8. CASE j = base.child[k] /\ j \notin index.hidden
  <2>1. base.node[j] # NoNode
    BY <1>1, <1>4, <1>8 DEF NodesTold, Ino
  <2> QED
    BY <1>4, <1>8, <2>1 DEF NodeAt, NodeOf, j
<1> QED
  BY <1>6, <1>7, <1>8

LEMMA NodesToldStep ==
    ASSUME Sound, NodesTold, Next
    PROVE  NodesTold'
<1>1. index \in Index /\ UNCHANGED base
  BY IndexWriters DEF Sound, TablesSound, IndexSound, Alike
<1>2. index.hidden \subseteq Ino /\ index.node \in [Ino -> Node \cup {NoNode}]
  BY <1>1, IndexParts
<1>3. SUFFICES ASSUME NEW i \in index'.hidden PROVE index'.node[i] = NoNode
  BY <1>1 DEF NodesTold
<1>4. ASSUME NEW s, NEW ino, NEW what, Published(s, ino, what)
      PROVE  index'.node[i] = NoNode
  <2>1. /\ index'.node = [index.node EXCEPT ![ino] = [path |-> s, what |-> what]]
        /\ index'.hidden = index.hidden \ {ino}
    BY <1>4 DEF Published
  <2>2. i \in index.hidden /\ i # ino
    BY <1>3, <2>1
  <2>3. index'.node[i] = index.node[i]
    BY <1>2, <2>1, <2>2
  <2> QED
    BY <2>2, <2>3 DEF NodesTold
<1>5. CASE SameNames(index, index')
  BY <1>3, <1>5 DEF SameNames, NodesTold
<1>6. CASE TombstonePath
  <2>1. CASE index' = index
    BY <1>3, <2>1 DEF NodesTold
  <2>2. CASE mut.ino = 0 /\ index'.node = index.node /\ index'.hidden = index.hidden
    BY <1>3, <2>2 DEF NodesTold
  <2>3. CASE mut.ino # 0 /\ index'.node = [index.node EXCEPT ![mut.ino] = NoNode]
             /\ index'.hidden = index.hidden \cup {mut.ino}
    <3>1. i = mut.ino => index'.node[i] = NoNode
      <4>1. mut.ino \in Ino
        BY <2>3, PathsAssumption DEF Sound, MutSound, MutRecord, Ino
      <4> QED
        BY <1>2, <2>3, <4>1
    <3>2. i # mut.ino => index'.node[i] = NoNode
      BY <1>2, <1>3, <2>3 DEF NodesTold
    <3> QED
      BY <3>1, <3>2
  <2> QED
    BY <1>6, <2>1, <2>2, <2>3, TombstoneParts
<1>7. CASE PublishChange
  <2>1. CASE mut.kind = "rename"
    <3>1. mut.ino = 0 => UNCHANGED index
      BY <1>7, <2>1 DEF PublishChange
    <3>2. CASE mut.ino = 0
      BY <1>3, <3>1, <3>2 DEF NodesTold
    <3> QED
      BY <1>4, <1>7, <2>1, <3>2, PublishChangeParts
  <2>2. CASE mut.kind # "rename"
    BY <1>4, <1>7, <2>2, PublishChangeParts
  <2> QED
    BY <2>1, <2>2
<1>8. CASE Heal
  BY <1>4, <1>8, HealParts
<1> QED
  BY <1>5, <1>6, <1>7, <1>8, IndexWriters

\* Only a change that hides a name makes the index silent of it.
LEMMA ToldStays ==
    ASSUME Sound, Next, NEW k \in Key, Told(k), ~TombstonePath
    PROVE  Told(k)'
<1>1. index \in Index /\ UNCHANGED base
  BY IndexWriters DEF Sound, TablesSound, IndexSound, Alike
<1>2. index.child \in [Key -> 0..MaxIno]
  BY <1>1, IndexParts
<1>3. ASSUME NEW s, NEW ino, NEW what, Published(s, ino, what)
      PROVE  Told(k)'
  <2> DEFINE j == <<table'.ino[Parent(s.key)], Name(s.key)>>
  <2>1. /\ j \in Key /\ ino \in Ino /\ index'.child = [index.child EXCEPT ![j] = ino]
        /\ index'.tombstones = index.tombstones \ {j}
    BY <1>3 DEF Published
  <2> HIDE DEF j
  <2>2. index'.child[k] = index.child[k] \/ index'.child[k] # 0
    BY <1>2, <2>1 DEF Ino
  <2> QED
    BY <1>1, <2>1, <2>2 DEF Told
<1>4. CASE SameNames(index, index')
  BY <1>1, <1>4 DEF SameNames, Told
<1>5. CASE PublishChange
  <2>1. CASE mut.kind = "rename" /\ mut.ino = 0
    BY <1>1, <1>5, <2>1, PublishChangeParts DEF Told
  <2> QED
    BY <1>3, <1>5, <2>1, PublishChangeParts
<1>6. CASE Heal
  BY <1>3, <1>6, HealParts
<1> QED
  BY <1>4, <1>5, <1>6, IndexWriters

\* The inode of a path is not the one that a request publishes, if the path is another
\* and not excused.
LEMMA HealsOther ==
    ASSUME Sound, ReadSound, Next, Heal, NEW p \in Paths, p \notin late',
           req.version = Progress => p # req.path.key
    PROVE  table'.ino[p] # req.answer
<1>1. /\ req # Idle /\ req.step = "heal" /\ Grown(table, table') /\ TableSound(table)
      /\ req.answer # 0 /\ req.answer < table.next /\ req.answer \in Ino
      /\ req.path.key \in AllPaths /\ p \in AllPaths /\ table.next \in Nat
  BY HealParts, TableParts DEF Grown, Sound, ReqSound, TablesSound, Published, AllPaths
<1>2. table.ino[p] # req.answer
  <2>1. CASE req.version = Progress
    <3>1. table.ino[req.path.key] = req.answer
      BY <1>1, <2>1 DEF ReadSound
    <3> QED
      BY <1>1, <2>1, <3>1, TableParts
  <2>2. CASE req.version # Progress
    BY <2>2, LateGrows
  <2> QED
    BY <2>1, <2>2
<1>3. CASE table.ino[p] = 0
  <2>1. table'.ino[p] = 0 \/ (table'.ino[p] \in Ino /\ table'.ino[p] >= table.next)
    BY <1>1, <1>3, GrownNew
  <2>2. req.answer \in Nat
    BY <1>1 DEF Ino
  <2> QED
    BY <1>1, <2>1, <2>2 DEF Ino
<1>4. CASE table.ino[p] # 0
  BY <1>1, <1>2, <1>4 DEF Grown
<1> QED
  BY <1>3, <1>4

\* What is published elsewhere leaves the node of an inode as it is.
LEMMA NodeElsewhere ==
    ASSUME index \in Index, UNCHANGED base, NEW s, NEW ino, NEW what, Published(s, ino, what),
           NEW i \in Ino, i # ino
    PROVE  /\ NodeOf(base', index', i) = NodeOf(base, index, i)
           /\ index'.node[i] = index.node[i]
<1> DEFINE node == [path |-> s, what |-> what]
<1>1. /\ index'.node = [index.node EXCEPT ![ino] = node]
      /\ index'.hidden = index.hidden \ {ino}
  BY DEF Published
<1> HIDE DEF node
<1>2. index.node \in [Ino -> Node \cup {NoNode}]
  BY IndexParts
<1> QED
  BY <1>1, <1>2 DEF NodeOf

LEMMA MutToldStep ==
    ASSUME NoFullRename, DirsSound, Next
    PROVE  MutTold'
<1>1. /\ Sound /\ MutGoes /\ LeavesNumbered /\ DirsNumbered /\ Unused /\ ReadSound
      /\ NodesTold /\ MutTold /\ DirsTold
      /\ TablesSound /\ TableSound(table) /\ index \in Index /\ UNCHANGED base
  BY IndexWriters DEF DirsSound, LeavesSound, Sound, TablesSound, IndexSound, Alike
<1>2. ASSUME mut'.step = "tree", mut'.kind \in {"create", "rename"},
             NEW d \in Dirs, d \notin late', d = Parent(Target'.key)
      PROVE  Told(DirKey(d))'
  <2>1. DirKey(d) \in Key /\ DirKey(d)' = DirKey(d) /\ d \notin late
    BY <1>1, <1>2, DirKeyParts, LateGrows DEF DirKey
  <2>2. CASE UNCHANGED mut
    <3>1. Target' = Target
      BY <2>2 DEF Target
    <3>2. Told(DirKey(d))
      BY <1>1, <1>2, <2>1, <2>2, <3>1 DEF MutTold
    <3>3. ~TombstonePath
      BY <1>2, <2>2 DEF TombstonePath
    <3>4. \A k \in Key : Told(k) => Told(k)'
      BY <1>1, <3>3, ToldStays
    <3> QED
      BY <2>1, <3>2, <3>4 DEF Told
  <2>3. CASE mut' # mut
    <3>1. ~ChangeTree /\ ~ChangeInodes /\ ~TombstonePath /\ ~PublishChange /\ ~InvalidateListings
      BY <1>1, <1>2, MutFields DEF MutKinds, NoChange
    <3>2. /\ mut = NoChange /\ UNCHANGED <<tree, table, index>> /\ FoundDir(d)
      BY <1>1, <1>2, <2>3, <3>1, MutBegins DEF Target
    <3>3. d # Root
      BY DirParts
    <3>4. PICK n \in Names : HitOf(1, n).ino = table.ino[d]
      BY <3>2, <3>3 DEF FoundDir
    <3>5. NodeAt(table.ino[d]) # NoNode /\ table.ino[d] # 0
      <4>1. 1 \in Ino
        BY <1>1, TableParts
      <4> QED
        BY <1>1, <3>2, <3>4, <4>1, HitHasNode DEF FoundDir
    <3>6. ~InFlight(d)
      BY <3>2 DEF InFlight, Arrives, Departs, NoChange
    <3>7. Told(DirKey(d))
      BY <1>1, <2>1, <3>5, <3>6 DEF DirsTold, DirTold
    <3> QED
      BY <1>1, <2>1, <3>2, <3>7 DEF Told
  <2> QED
    BY <2>2, <2>3
<1>3. ASSUME mut'.step = "tombstone", mut'.kind = "rmdir"
      PROVE  mut'.ino # 0
  <2>1. CASE UNCHANGED mut
    BY <1>1, <1>3, <2>1 DEF MutTold
  <2>2. CASE mut' # mut
    <3>1. ChangeTree /\ MutKept /\ mut.step = "tree" /\ mut'.ino = table.ino[mut.path.key]
      BY <1>1, <1>3, <2>2, MutFields, MutBegins DEF MutKept, NoChange
    <3>2. mut.path.key \in Dirs /\ tree[mut.path.key] # "absent" /\ mut.kind = "rmdir"
      BY <1>1, <1>3, <3>1 DEF MutKept, MutGoes, Sound, MutSound
    <3> QED
      BY <1>1, <3>1, <3>2 DEF DirsNumbered, Arrives
  <2> QED
    BY <2>1, <2>2
<1>4. ASSUME mut'.step = "tombstone", mut'.kind = "rename", mut'.path.key \in Dirs,
             mut'.path.key \notin late'
      PROVE  table'.ino[mut'.path.key] = 0
             \/ NodeOf(base', index', table'.ino[mut'.path.key]) = NoNode
  <2>1. CASE UNCHANGED mut
    <3> DEFINE p == mut.path.key
    <3>1. /\ p \in Dirs /\ p \in Paths /\ p \in AllPaths /\ p \notin late /\ tree[p] = "absent"
          /\ table.ino[p] = 0 \/ NodeAt(table.ino[p]) = NoNode
          /\ Grown(table, table')
      BY <1>1, <1>4, <2>1, DirParts, LateGrows, SameMut DEF MutTold, MutGoes
    <3> HIDE DEF p
    <3> SUFFICES ASSUME table'.ino[p] # 0 PROVE NodeOf(base', index', table'.ino[p]) = NoNode
      BY <2>1 DEF p
    <3>2. table'.ino[p] \in Ino /\ NodeAt(table'.ino[p]) = NoNode
      <4>1. CASE table.ino[p] = 0
        <5>1. table'.ino[p] \in Ino /\ table'.ino[p] >= table.next
          BY <1>1, <3>1, <4>1, GrownNew
        <5> QED
          BY <1>1, <5>1 DEF Unused, NodeAt, NodeOf
      <4>2. CASE table.ino[p] # 0
        BY <1>1, <3>1, <4>2, TableParts DEF Grown
      <4> QED
        BY <4>1, <4>2
    <3>3. CASE SameNames(index, index')
      BY <1>1, <3>2, <3>3 DEF SameNames, NodeAt, NodeOf
    <3>4. CASE Heal
      <4>1. req.version = Progress => p # req.path.key
        <5>1. Published(req.path, req.answer, req.what) /\ req # Idle /\ req.step = "heal"
          BY <1>1, <3>4, HealParts
        <5>2. req.what # "absent"
          BY <5>1 DEF Published, What
        <5> QED
          BY <1>1, <3>1, <5>1, <5>2 DEF ReadSound
      <4>2. table'.ino[p] # req.answer
        BY <1>1, <1>4, <2>1, <3>1, <3>4, <4>1, HealsOther DEF p
      <4>3. Published(req.path, req.answer, req.what)
        BY <1>1, <3>4, HealParts
      <4> QED
        BY <1>1, <3>2, <4>2, <4>3, NodeElsewhere DEF NodeAt
    <3>5. ~TombstonePath /\ ~PublishChange
      BY <1>1, <2>1, MutFields DEF NoChange, MutKept
    <3> QED
      BY <1>1, <3>3, <3>4, <3>5, IndexWriters
  <2>2. CASE mut' # mut
    <3>1. ChangeInodes /\ MutKept
      BY <1>1, <1>4, <2>2, MutFields, MutBegins DEF MutKept, NoChange
    <3> QED
      BY <1>1, <1>4, <3>1, InodesElsewhere DEF MutKept
  <2> QED
    BY <2>1, <2>2
<1>5. \A d : DirKey(d)' = DirKey(d)
  BY DEF DirKey
<1> QED
  BY <1>2, <1>3, <1>4, <1>5 DEF MutTold, NodeAt

\* The index tells of the directories what it told, in a step that publishes or hides
\* no name.
LEMMA DirSame ==
    ASSUME TableSound(table), Unused, UNCHANGED base, SameNames(index, index'),
           Grown(table, table'), NEW d \in Dirs, DirTold(d),
           tree'[d] # "absent" /\ d \notin revived' =>
              Told(DirKey(d)) \/ (tree[d] # "absent" /\ d \notin revived)
    PROVE  DirTold(d)'
<1>1. \A i \in Ino : i = table'.ino[d] => NodeOf(base, index', i) \in {NoNode, NodeOf(base, index, i)}
  BY DEF SameNames, NodeOf
<1>2. table.ino[d] # 0 /\ index.node[table.ino[d]] # NoNode => index'.node[table.ino[d]] # NoNode
  BY DEF SameNames
<1> QED
  BY <1>1, <1>2, DirKept DEF SameNames

LEMMA DirsTreeStep ==
    ASSUME NoFullRename, DirsSound, Next, ChangeTree
    PROVE  DirsTold'
<1>1. /\ Sound /\ MutGoes /\ LeavesNumbered /\ DirsNumbered /\ Unused /\ MutTold /\ DirsTold
      /\ TableSound(table) /\ TablesSound /\ UNCHANGED <<table, index, base>>
      /\ mut.step = "tree" /\ revived \subseteq revived'
  BY Frames, MutFields, LateGrows DEF DirsSound, LeavesSound, Sound, TablesSound
<1>2. SUFFICES ASSUME NEW d \in Dirs, d \notin late', ~InFlight(d)'
               PROVE  DirTold(d)'
  BY DEF DirsTold
<1>3. d \in Paths /\ d \notin late /\ DirTold(d)
  BY <1>1, <1>2, DirParts, LateGrows, FlightSteps DEF DirsTold, InFlight
<1>4. ASSUME tree'[d] # "absent", d \notin revived', tree[d] = "absent"
      PROVE  Told(DirKey(d))
  <2>1. d = Parent(Target.key) /\ mut.kind \in {"create", "flush", "rename"}
    BY <1>1, <1>2, <1>4, StaysInTree DEF InFlight
  <2>2. CASE mut.kind \in {"create", "rename"}
    BY <1>1, <1>3, <2>1, <2>2 DEF MutTold
  <2>3. CASE mut.kind = "flush"
    <3>1. mut'.step = "publish" /\ mut.path.key \in Paths /\ d = Parent(mut.path.key)
      BY <1>1, <2>1, <2>3, MutFields, ChangeTreeParts DEF Target
    <3>2. d \in Parents(mut.path.key)
      BY <1>3, <3>1, WithinParts, TwoLevels DEF Parents
    <3>3. Known(d)
      BY <1>1, <1>3, <1>4, <2>3, <3>1, <3>2 DEF Next, Observe
    <3>4. HitOf(1, Name(d)).ino # 0 /\ Name(d) \in Names
      BY <3>3, DirParts DEF Known, KnownIno, DirIno
    <3> QED
      BY <1>1, <3>4, HitTold DEF DirKey
  <2> QED
    BY <2>1, <2>2, <2>3
<1>5. tree'[d] # "absent" /\ d \notin revived' =>
         Told(DirKey(d)) \/ (tree[d] # "absent" /\ d \notin revived)
  BY <1>1, <1>4
<1>6. SameNames(index, index') /\ Grown(table, table')
  BY <1>1, GrownSame DEF SameNames
<1> QED
  BY <1>1, <1>3, <1>5, <1>6, DirSame

LEMMA DirsInodesStep ==
    ASSUME NoFullRename, DirsSound, Next, ChangeInodes
    PROVE  DirsTold'
<1>1. /\ Sound /\ MutGoes /\ Unused /\ DirsTold /\ TableSound(table)
      /\ UNCHANGED <<tree, index, base>> /\ revived \subseteq revived'
      /\ mut.step = "inodes" /\ mut.kind = "rename" /\ mut'.step = "tombstone"
      /\ mut'.path = mut.path /\ mut'.to = mut.to /\ mut'.kind = mut.kind
  BY Frames, MutFields, LateGrows DEF DirsSound, LeavesSound, Sound, TablesSound, MutKept
<1>2. SUFFICES ASSUME NEW d \in Dirs, d \notin late', ~InFlight(d)'
               PROVE  DirTold(d)'
  BY DEF DirsTold
<1>3. d # mut.path.key /\ d # mut.to.key /\ d \notin late /\ d \in Paths
  BY <1>1, <1>2, DirParts, LateGrows DEF InFlight, Arrives, Departs
<1>4. DirTold(d) /\ table'.ino[d] = table.ino[d]
  <2>1. ~InFlight(d)
    BY <1>1, <1>3 DEF InFlight, Arrives, Departs
  <2> QED
    BY <1>1, <1>3, <2>1, InodesElsewhere DEF DirsTold
<1> QED
  BY <1>1, <1>4, DirKept

LEMMA DirsTombstoneStep ==
    ASSUME NoFullRename, DirsSound, Next, TombstonePath
    PROVE  DirsTold'
<1>1. /\ Sound /\ MutGoes /\ Unused /\ MutTold /\ DirsTold /\ TableSound(table)
      /\ UNCHANGED <<tree, table, base>> /\ revived \subseteq revived' /\ index \in Index
      /\ mut.step = "tombstone" /\ mut'.path = mut.path /\ mut'.to = mut.to
      /\ tree[mut.path.key] = "absent" /\ mut.path.key \in Paths /\ mut.path.key \in AllPaths
      /\ mut.kind \in {"unlink", "rmdir", "rename"}
      /\ mut.kind \in {"unlink", "rmdir"} /\ mut.ino # 0 => table.ino[mut.path.key] = mut.ino
      /\ mut.kind = "rename" => mut.ino # 0 /\ table.ino[mut.to.key] = mut.ino
                                /\ mut.to.key \in AllPaths
  BY Frames, MutFields, LateGrows, TombstoneParts
     DEF DirsSound, LeavesSound, Sound, TablesSound, MutKept, MutSound, MutGoes, IndexSound,
         Alike, AllPaths
<1>2. SUFFICES ASSUME NEW d \in Dirs, d \notin late', ~InFlight(d)'
               PROVE  DirTold(d)'
  BY DEF DirsTold
<1>3. /\ d \in Paths /\ d \in AllPaths /\ d \notin late /\ ~Arrives(d)
      /\ DirKey(d) \in Key /\ DirKey(d)' = DirKey(d)
  BY <1>1, <1>2, DirParts, DirKeyParts, LateGrows, FlightSteps DEF InFlight, DirKey
<1> DEFINE parent == table.ino[Parent(mut.path.key)]
           k == <<parent, Name(mut.path.key)>>
<1>4. /\ parent = 0 => UNCHANGED index
      /\ parent # 0 =>
            /\ k \in Key
            /\ index'.child = [index.child EXCEPT ![k] = 0]
            /\ index'.tombstones = index.tombstones \cup {k}
            /\ mut.ino = 0 => index'.node = index.node /\ index'.hidden = index.hidden
            /\ mut.ino # 0 => /\ index'.node = [index.node EXCEPT ![mut.ino] = NoNode]
                              /\ index'.hidden = index.hidden \cup {mut.ino}
  BY <1>1, TombstoneParts
<1>5. index.child \in [Key -> 0..MaxIno] /\ index.node \in [Ino -> Node \cup {NoNode}]
  BY <1>1, IndexParts
<1>6. CASE d = mut.path.key
  <2>1. parent # 0 /\ k = DirKey(d)
    BY <1>1, <1>6, DirKeyParts
  <2> HIDE DEF k, parent
  <2>2. DirKey(d) \in index'.tombstones
    BY <1>4, <2>1
  <2>3. mut.kind \in {"rmdir", "rename"}
    BY <1>1, <1>6 DEF Sound, MutSound, Leaves
  <2>4. table.ino[d] # 0 => NodeOf(base, index', table.ino[d]) = NoNode
    <3> SUFFICES ASSUME table.ino[d] # 0 PROVE NodeOf(base, index', table.ino[d]) = NoNode
      OBVIOUS
    <3>1. table.ino[d] \in Ino
      BY <1>1, <1>3, TableParts
    <3>2. CASE mut.kind = "rmdir"
      <4>1. mut.ino # 0 /\ mut.ino = table.ino[d]
        BY <1>1, <1>6, <3>2 DEF MutTold
      <4>2. index'.node[mut.ino] = NoNode /\ mut.ino \in index'.hidden
        BY <1>4, <1>5, <2>1, <3>1, <4>1
      <4> QED
        BY <4>1, <4>2 DEF NodeOf
    <3>3. CASE mut.kind = "rename"
      <4>1. NodeAt(table.ino[d]) = NoNode
        BY <1>1, <1>3, <1>6, <3>3 DEF MutTold
      <4>2. index'.node[table.ino[d]] \in {NoNode, index.node[table.ino[d]]}
            /\ index.hidden \subseteq index'.hidden
        BY <1>1, <1>4, <1>5, <2>1, <3>1, <3>3
      <4>3. table.ino[d] # mut.ino => index'.node[table.ino[d]] = index.node[table.ino[d]]
        BY <1>1, <1>4, <1>5, <2>1, <3>1, <3>3
      <4>4. table.ino[d] = mut.ino => table.ino[d] \in index'.hidden
                                      /\ index'.node[table.ino[d]] = NoNode
        BY <1>1, <1>4, <1>5, <2>1, <3>1, <3>3
      <4> QED
        BY <4>1, <4>2, <4>3, <4>4 DEF NodeAt, NodeOf
    <3> QED
      BY <2>3, <3>2, <3>3
  <2> QED
    BY <1>1, <1>3, <1>6, <2>2, <2>4 DEF DirTold, NodeAt
<1>7. CASE d # mut.path.key
  <2>1. DirTold(d)
    BY <1>1, <1>3, <1>7 DEF DirsTold, InFlight, Departs
  <2>2. parent # 0 => DirKey(d) # k
    BY <1>1, <1>7, DirKeyParts
  <2>3. table.ino[d] # 0 => table.ino[d] \in Ino /\ table.ino[d] # mut.ino
    <3>1. mut.kind = "rename" => d # mut.to.key
      BY <1>1, <1>3 DEF Arrives
    <3>2. table.ino[d] # 0 => table.ino[d] \in Ino
      BY <1>1, <1>3, TableParts
    <3>3. mut.kind = "rename" /\ table.ino[d] # 0 => table.ino[d] # mut.ino
      BY <1>1, <1>3, <3>1, TableParts
    <3>4. mut.kind # "rename" /\ table.ino[d] # 0 => table.ino[d] # mut.ino
      BY <1>1, <1>3, <1>7, TableParts
    <3> QED
      BY <3>2, <3>3, <3>4
  <2> HIDE DEF k, parent
  <2>4. /\ index'.child[DirKey(d)] = index.child[DirKey(d)]
        /\ DirKey(d) \in index'.tombstones <=> DirKey(d) \in index.tombstones
    BY <1>3, <1>4, <1>5, <2>2
  <2>5. table.ino[d] # 0 => /\ index'.node[table.ino[d]] = index.node[table.ino[d]]
                            /\ table.ino[d] \in index'.hidden <=> table.ino[d] \in index.hidden
    BY <1>4, <1>5, <2>3
  <2>6. \A i \in Ino : i = table'.ino[d] =>
           NodeOf(base, index', i) \in {NoNode, NodeOf(base, index, i)}
    BY <1>1, <2>5 DEF NodeOf, Ino
  <2> QED
    BY <1>1, <2>1, <2>4, <2>5, <2>6, DirKept
<1> QED
  BY <1>6, <1>7

LEMMA DirsPublishStep ==
    ASSUME NoFullRename, DirsSound, Next, PublishChange
    PROVE  DirsTold'
<1>1. /\ Sound /\ MutGoes /\ Unused /\ DirsTold /\ TableSound(table) /\ index \in Index
      /\ mut.step = "publish" /\ mut.kind # "none" /\ UNCHANGED <<tree, base>>
      /\ Grown(table, table') /\ TableSound(table') /\ revived \subseteq revived'
  BY Frames, MutFields, PublishChangeParts, LateGrows
     DEF DirsSound, LeavesSound, Sound, TablesSound, IndexSound, Alike, Grown
<1> DEFINE s == Target
           ino == IF mut.kind = "rename" THEN mut.ino ELSE table'.ino[mut.path.key]
<1>2. Published(s, ino, mut.what) /\ table'.ino[s.key] = ino
  <2>1. CASE mut.kind = "rename"
    <3>1. mut.ino # 0
      BY <1>1, <2>1 DEF MutGoes
    <3> QED
      BY <1>1, <2>1, <3>1, PublishChangeParts DEF Target
  <2>2. CASE mut.kind # "rename"
    BY <1>1, <2>2, PublishChangeParts DEF Target
  <2> QED
    BY <2>1, <2>2
<1>3. \A p \in Paths : Arrives(p) => p = s.key
  BY <1>1 DEF Arrives, Target
<1>4. ino # 0 /\ s.key \in AllPaths
  BY <1>2 DEF Published, Ino, AllPaths
<1> HIDE DEF s, ino
<1>5. SUFFICES ASSUME NEW d \in Dirs, d \notin late'
               PROVE  DirTold(d)'
  BY DEF DirsTold
<1>6. d \in Paths /\ d \in AllPaths /\ d \notin late
  BY <1>1, <1>5, DirParts, LateGrows
<1>7. CASE d = s.key
  BY <1>1, <1>2, <1>7, DirPublished
<1>8. CASE d # s.key
  <2>1. ~InFlight(d) /\ DirTold(d)
    BY <1>1, <1>3, <1>6, <1>8, FlightSteps DEF InFlight, DirsTold
  <2>2. table'.ino[d] # ino
    BY <1>1, <1>2, <1>4, <1>6, <1>8, TableParts
  <2> QED
    BY <1>1, <1>2, <1>8, <2>1, <2>2, DirElsewhere
<1> QED
  BY <1>7, <1>8

LEMMA DirsHealStep ==
    ASSUME NoFullRename, DirsSound, Next, Heal
    PROVE  DirsTold'
<1>1. /\ Sound /\ Unused /\ ReadSound /\ DirsTold /\ TableSound(table) /\ index \in Index
      /\ UNCHANGED <<tree, base, mut>> /\ Grown(table, table') /\ TableSound(table')
      /\ Published(req.path, req.answer, req.what) /\ revived \subseteq revived'
      /\ req # Idle /\ req.step = "heal" /\ req.answer # 0
  BY Frames, HealParts, LateGrows
     DEF DirsSound, LeavesSound, Sound, TablesSound, IndexSound, Alike, Grown, Published, Ino
<1>2. SUFFICES ASSUME NEW d \in Dirs, d \notin late', ~InFlight(d)'
               PROVE  DirTold(d)'
  BY DEF DirsTold
<1>3. d \in Paths /\ d \in AllPaths /\ d \notin late /\ DirTold(d)
  BY <1>1, <1>2, DirParts, LateGrows, FlightSteps DEF InFlight, DirsTold
<1>4. CASE d = req.path.key
  <2>1. req.version = Progress
    BY <1>1, <1>2, <1>4, LateGrows
  <2>2. table'.ino[d] = req.answer
    BY <1>1, <1>3, <1>4, <2>1 DEF ReadSound, Grown
  <2> QED
    BY <1>1, <1>4, <2>2, DirPublished
<1>5. CASE d # req.path.key
  <2>1. table'.ino[d] # req.answer
    BY <1>1, <1>3, <1>2, <1>5, HealsOther
  <2> QED
    BY <1>1, <1>3, <1>5, <2>1, DirElsewhere
<1> QED
  BY <1>4, <1>5

LEMMA DirsToldStep ==
    ASSUME NoFullRename, DirsSound, Next
    PROVE  DirsTold'
<1>1. /\ Sound /\ Unused /\ DirsTold /\ TableSound(table) /\ UNCHANGED base
      /\ revived \subseteq revived'
  BY IndexWriters, LateGrows DEF DirsSound, LeavesSound, Sound, TablesSound
<1>2. ASSUME UNCHANGED tree, SameNames(index, index'), Grown(table, table'),
             \A d \in Dirs : ~InFlight(d)' => ~InFlight(d)
      PROVE  DirsTold'
  <2> SUFFICES ASSUME NEW d \in Dirs, d \notin late', ~InFlight(d)'
               PROVE  DirTold(d)'
    BY DEF DirsTold
  <2>1. DirTold(d)
    BY <1>1, <1>2, LateGrows DEF DirsTold
  <2> QED
    BY <1>1, <1>2, <2>1, DirSame
<1>3. \A d \in Dirs : d \in Paths
  BY DirParts
<1>4. SameNames(index, index)
  BY DEF SameNames
<1>5. CASE UNCHANGED mut
  <2>1. UNCHANGED tree /\ Grown(table, table')
    BY <1>1, <1>5, SameMut
  <2>2. \A d \in Dirs : ~InFlight(d)' => ~InFlight(d)
    BY <1>1, <1>3, <1>5, FlightSteps DEF InFlight
  <2>3. CASE SameNames(index, index')
    BY <1>2, <2>1, <2>2, <2>3
  <2>4. CASE Heal
    BY <2>4, DirsHealStep
  <2>5. ~TombstonePath /\ ~PublishChange
    BY <1>1, <1>5, MutFields DEF NoChange, MutKept
  <2> QED
    BY <1>1, <2>3, <2>4, <2>5, IndexWriters
<1>6. CASE InvalidateListings
  <2>1. UNCHANGED <<tree, table, index>>
    BY <1>6, Frames
  <2>2. \A d \in Dirs : ~InFlight(d)' => ~InFlight(d)
    BY <1>1, <1>3, <1>6, FlightSteps DEF InFlight
  <2> QED
    BY <1>1, <1>2, <1>4, <2>1, <2>2, GrownSame
<1>7. CASE /\ mut' # mut /\ ~ChangeTree /\ ~ChangeInodes /\ ~TombstonePath
           /\ ~PublishChange /\ ~InvalidateListings
  <2>1. UNCHANGED <<tree, table, index>>
    BY <1>1, <1>7, MutBegins
  <2>2. \A d \in Dirs : ~InFlight(d)
    BY <1>1, <1>3, <1>7, FlightSteps DEF InFlight
  <2> QED
    BY <1>1, <1>2, <1>4, <2>1, <2>2, GrownSame
<1> QED
  BY <1>5, <1>6, <1>7, DirsTreeStep, DirsInodesStep, DirsTombstoneStep, DirsPublishStep

LEMMA InitDirs ==
    ASSUME Init
    PROVE  DirsSound
<1>1. /\ \A p \in MergedPaths :
           /\ p \in Paths /\ table.ino[p] # 0
           /\ base.child[KeyOf(p)] = table.ino[p] /\ base.node[table.ino[p]] # NoNode
      /\ \A k \in Key : base.child[k] # 0 =>
           \E p \in MergedPaths : base.child[k] = table.ino[p] /\ k = KeyOf(p)
      /\ \A i \in Ino : base.node[i] # NoNode => \E p \in MergedPaths : i = table.ino[p]
      /\ index = EmptyIndex /\ TableSound(table)
  BY InitBase
<1>2. \A p \in Paths : tree[p] # "absent" => p \in MergedPaths
  BY InitTree
<1>3. mut = NoChange /\ LeavesSound
  BY InitLeaves DEF Init
<1>4. /\ \A k \in Key : index.child[k] = 0 /\ k \notin index.tombstones
      /\ \A i \in Ino : index.node[i] = NoNode /\ i \notin index.hidden
  BY <1>1 DEF EmptyIndex
<1>5. index.hidden = {}
  BY <1>1 DEF EmptyIndex
<1>6. NodesTold
  BY <1>1, <1>5 DEF NodesTold
<1>7. MutTold
  BY <1>3 DEF MutTold, NoChange
<1>8. ASSUME NEW d \in Dirs
      PROVE  DirTold(d)
  <2>1. DirKey(d) = KeyOf(d) /\ DirKey(d) \in Key /\ d \in Paths /\ d \in AllPaths
    BY <1>1, DirKeyParts DEF KeyOf
  <2>2. base.child[DirKey(d)] \in {0, table.ino[d]}
    <3> SUFFICES ASSUME base.child[DirKey(d)] # 0
                 PROVE  base.child[DirKey(d)] = table.ino[d]
      OBVIOUS
    <3>1. PICK p \in MergedPaths : base.child[DirKey(d)] = table.ino[p] /\ DirKey(d) = KeyOf(p)
      BY <1>1, <2>1
    <3>2. p = d
      BY <1>1, <3>1, DirKeyParts DEF KeyOf
    <3> QED
      BY <3>1, <3>2
  <2>3. d \in MergedPaths => Told(DirKey(d))
    BY <1>1, <1>4, <2>1 DEF Told
  <2>4. ASSUME table.ino[d] # 0, NodeAt(table.ino[d]) # NoNode
        PROVE  d \in MergedPaths
    <3>1. table.ino[d] \in Ino
      BY <1>1, <2>1, <2>4, TableParts
    <3>2. base.node[table.ino[d]] # NoNode
      BY <1>4, <2>4, <3>1 DEF NodeAt, NodeOf
    <3>3. PICK p \in MergedPaths : table.ino[d] = table.ino[p]
      BY <1>1, <3>1, <3>2
    <3>4. p \in AllPaths
      BY <1>1 DEF AllPaths
    <3> QED
      BY <1>1, <2>1, <2>4, <3>3, <3>4, TableParts
  <2> QED
    BY <1>2, <1>4, <2>1, <2>2, <2>3, <2>4 DEF DirTold
<1> QED
  BY <1>3, <1>6, <1>7, <1>8 DEF DirsSound, DirsTold

LEMMA DirsStutter == ASSUME DirsSound, UNCHANGED vars PROVE DirsSound'
<1>1. LeavesSound'
  BY LeavesStutters DEF DirsSound
<1>2. UNCHANGED <<tree, table, base, index, mut, late, revived>>
  BY DEF vars
<1>3. NodesTold' /\ MutTold'
  BY <1>2 DEF DirsSound, NodesTold, MutTold, Target, Told, DirKey, NodeAt
<1>4. DirsTold'
  BY <1>2 DEF DirsSound, DirsTold, InFlight, Arrives, Departs, DirTold, DirKey, Told, NodeAt
<1> QED
  BY <1>1, <1>3, <1>4 DEF DirsSound

LEMMA DirsStep == ASSUME NoFullRename, DirsSound, [Next]_vars PROVE DirsSound'
<1>1. CASE Next
  BY <1>1, LeavesStep, NodesToldStep, MutToldStep, DirsToldStep DEF DirsSound, LeavesSound
<1> QED
  BY <1>1, DirsStutter

LEMMA DirsAlways ==
    ASSUME NoFullRename
    PROVE  Spec => []DirsSound
<1>1. Init => DirsSound
  BY InitDirs
<1>2. DirsSound /\ [Next]_vars => DirsSound'
  BY DirsStep
<1> QED
  BY <1>1, <1>2, PTL DEF Spec

-----------------------------------------------------------------------------
(* When nothing is being done, names lead to what the tree has.             *)

\* What a lookup makes of what the index tells.
LEMMA LookupPresent ==
    ASSUME NEW k, NEW i, NEW what, TellsPresent(k, i, what)
    PROVE  LET hit == Lookup(base, index, k)
           IN  hit.ino = i /\ hit.source # "missing" /\ hit.node.what = what
<1>1. /\ i # 0 /\ k \notin index.tombstones /\ NodeAt(i) # NoNode /\ NodeAt(i).what = what
      /\ i \notin index.hidden
      /\ \/ index.child[k] = i /\ index.node[i] # NoNode
         \/ index.child[k] = 0 /\ base.child[k] = i
  BY DEF TellsPresent, NodeAt, NodeOf
<1>2. CASE index.child[k] = i /\ index.node[i] # NoNode
  <2>1. NodeAt(i) = index.node[i]
    BY <1>1, <1>2 DEF NodeAt, NodeOf
  <2>2. Lookup(base, index, k) = Found(i, index.node[i])
    BY <1>1, <1>2 DEF Lookup, LookupOverlay, Found
  <2> QED
    BY <1>1, <2>1, <2>2 DEF Found
<1>3. CASE index.child[k] = 0 /\ base.child[k] = i
  <2>1. LookupOverlay(index, k).source = "missing"
    BY <1>1, <1>3 DEF LookupOverlay, NotFound
  <2>2. LookupBase(base, index, k) = Found(i, NodeAt(i))
    BY <1>1, <1>3 DEF LookupBase, NodeAt, NodeOf
  <2>3. Lookup(base, index, k) = Found(i, NodeAt(i))
    BY <2>1, <2>2 DEF Lookup, Found
  <2> QED
    BY <1>1, <2>3 DEF Found
<1> QED
  BY <1>1, <1>2, <1>3

LEMMA LookupAbsent ==
    ASSUME NEW k, TellsAbsent(k)
    PROVE  Lookup(base, index, k).ino = 0
BY DEF TellsAbsent, Lookup, LookupOverlay, LookupBase, LookupNegative, Found, NotFound

\* A directory that is found has the inode of its path.
LEMMA FoundDirIno ==
    ASSUME Sound, NEW d \in Dirs, DirTold(d), HitOf(1, Name(d)).ino # 0
    PROVE  HitOf(1, Name(d)).ino = table.ino[d]
<1> DEFINE k == DirKey(d)
<1>1. HitOf(1, Name(d)) = Lookup(base, index, k)
  BY DEF HitOf, DirKey
<1> HIDE DEF k
<1>2. /\ k \notin index.tombstones
      /\ \/ /\ index.child[k] # 0 /\ index.node[index.child[k]] # NoNode
            /\ HitOf(1, Name(d)).ino = index.child[k]
         \/ /\ index.child[k] = 0 \/ index.node[index.child[k]] = NoNode
            /\ HitOf(1, Name(d)).ino = base.child[k]
  BY <1>1 DEF Lookup, LookupOverlay, LookupBase, LookupNegative, Found, NotFound
<1> QED
  BY <1>2 DEF DirTold, k

\* A directory in the tree is found under its inode, in the index or in the tree.
LEMMA AnswerOfDir ==
    ASSUME Sound, NEW d \in Dirs, DirTold(d), tree[d] # "absent", d \notin revived,
           table.ino[d] # 0
    PROVE  Answer(DirKey(d)) = table.ino[d]
<1> DEFINE k == DirKey(d)
           hit == Lookup(base, index, k)
<1>1. /\ d \in Paths /\ d = <<Name(d)>> /\ Name(d) \in Names /\ TableSound(table)
      /\ IndexSound(base, index) /\ k \in Key
  BY DirParts, DirKeyParts DEF Sound, TablesSound
<1>2. Told(k)
  BY DEF DirTold
<1>3. k[1] = 1 /\ k[2] = Name(d)
  BY DEF DirKey
<1>4. DirOfInode(1) = Root
  BY <1>1, TableParts DEF DirOfInode
<1>5. Append(Root, Name(d)) = d
  BY <1>1 DEF Root
<1>6. (hit.source # "missing" /\ hit.ino = table.ino[d]) \/ hit.source = "missing"
  <2> HIDE DEF k
  <2>1. CASE index.child[k] # 0
    <3>1. index.child[k] = table.ino[d] /\ index.node[index.child[k]] # NoNode
      BY <1>2, <2>1 DEF Told, DirTold, k
    <3>2. hit = Found(index.child[k], index.node[index.child[k]])
      BY <1>2, <2>1, <3>1 DEF Told, Lookup, LookupOverlay, Found
    <3> QED
      BY <3>1, <3>2 DEF Found
  <2>2. CASE index.child[k] = 0
    <3>1. base.child[k] = table.ino[d] /\ base.child[k] # 0
      BY <1>2, <2>2 DEF Told, DirTold, k
    <3>2. LookupOverlay(index, k).source = "missing"
      BY <1>2, <2>2 DEF Told, LookupOverlay, NotFound
    <3>3. LookupNegative(index, k).source = "missing"
      BY <1>1, <3>1 DEF IndexSound, LookupNegative, NotFound
    <3> QED
      BY <3>1, <3>2, <3>3 DEF Lookup, LookupBase, Found, NotFound
  <2> QED
    BY <2>1, <2>2
<1>7. Answer(k) = IF hit.source # "missing" THEN hit.ino
                  ELSE IF Root = NoPath THEN 0
                  ELSE IF d \notin Paths \/ ~IsDir(Root) THEN 0
                  ELSE IF tree[d] = "absent" THEN 0
                  ELSE IF table.ino[d] = 0 THEN table.next ELSE table.ino[d]
  BY <1>3, <1>4, <1>5 DEF Answer
<1>8. Root # NoPath
  BY NotPaths DEF AllPaths
<1> HIDE DEF k, hit
<1>9. Answer(k) = table.ino[d]
  BY <1>1, <1>6, <1>7, <1>8 DEF IsDir
<1> QED
  BY <1>9 DEF k

\* The index tells of each leaf at rest, unless a request has published it late.
LEMMA TellsAtRest ==
    ASSUME LeavesSound, mut = NoChange, NEW p \in Leaves, p \notin late,
           table.ino[Parent(p)] # 0
    PROVE  TellsLeaf(p)
<1>1. ~InFlight(p)
  BY DEF InFlight, Arrives, Departs, NoChange
<1> QED
  BY <1>1 DEF LeavesSound, LeavesTold

LEMMA ReachesLeaf ==
    ASSUME DirsSound, mut = NoChange, NEW p \in Leaves, p \notin Overtaken \cup Orphaned,
           tree[p] # "absent"
    PROVE  Find(p) = table.ino[p] /\ Find(p) # 0
<1>1. /\ LeavesSound /\ Sound /\ LeavesNumbered /\ DirsTold /\ TreeSound /\ TableSound(table)
      /\ p \in Paths /\ table.ino[Root] = 1 /\ table.next \in Nat /\ 1 < table.next
  <2>1. Sound /\ TableSound(table)
    BY DEF DirsSound, LeavesSound, Sound, TablesSound
  <2>2. table.ino[Root] = 1 /\ table.next \in Nat /\ Root \in AllPaths
    BY <2>1, TableParts DEF TableSound, AllPaths
  <2> QED
    BY <2>1, <2>2, LeafParts, TableParts DEF DirsSound, LeavesSound, Sound
<1>2. p \notin late /\ (Parent(p) \in Dirs => Parent(p) \notin late /\ Parent(p) \notin revived)
  <2>1. Within(p, p) /\ (Parent(p) \in Dirs => Within(p, Parent(p)))
    BY <1>1, DirParts, WithinParts
  <2>2. late \subseteq Paths /\ Dirs \subseteq Paths
    BY <1>1, NamespaceAssumption DEF Sound, SeenSound
  <2> QED
    BY <1>1, <2>1, <2>2 DEF Overtaken, Orphaned
<1>3. table.ino[p] # 0 /\ table.ino[Parent(p)] # 0 /\ Parent(p) \in AllPaths
  BY <1>1, PathParts DEF LeavesNumbered, Arrives, NoChange
<1>4. TellsPresent(KeyOf(p), table.ino[p], tree[p])
  BY <1>1, <1>2, <1>3, TellsAtRest DEF TellsLeaf
<1>5. Answer(KeyOf(p)) = table.ino[p]
  BY <1>4, LookupPresent DEF Answer
<1>6. CASE Parent(p) = Root
  <2>1. p[1] = Name(p)
    BY <1>1, <1>6, TwoLevels DEF Name, Last
  <2> QED
    BY <1>1, <1>3, <1>5, <1>6, <2>1 DEF Find, KeyOf
<1>7. CASE Parent(p) \in Dirs
  <2> DEFINE d == Parent(p)
  <2>1. d = <<p[1]>> /\ d # Root /\ Name(d) = p[1]
    BY <1>1, <1>7, DirParts, TwoLevels
  <2>2. tree[d] # "absent"
    BY <1>1, <2>1 DEF TreeSound, IsDir
  <2>3. DirTold(d)
    BY <1>1, <1>2, <1>7 DEF DirsTold, InFlight, Arrives, Departs, NoChange
  <2>4. Answer(DirKey(d)) = table.ino[d]
    BY <1>1, <1>2, <1>3, <1>7, <2>2, <2>3, AnswerOfDir
  <2>5. DirKey(d) = <<1, p[1]>>
    BY <2>1 DEF DirKey
  <2>6. table.ino[d] < table.next
    BY <1>1, <1>3, TableParts
  <2> QED
    BY <1>3, <1>5, <2>1, <2>4, <2>5, <2>6 DEF Find, KeyOf
<1> QED
  BY <1>1, <1>6, <1>7, TwoLevels

LEMMA ReachesDir ==
    ASSUME DirsSound, mut = NoChange, NEW d \in Dirs, d \notin Overtaken \cup Orphaned,
           tree[d] # "absent"
    PROVE  Find(d) = table.ino[d] /\ Find(d) # 0
<1>1. /\ Sound /\ DirsNumbered /\ DirsTold /\ TableSound(table) /\ d \in Paths
      /\ Parent(d) = Root /\ table.next \in Nat /\ 1 < table.next
  <2>1. Sound /\ TableSound(table)
    BY DEF DirsSound, LeavesSound, Sound, TablesSound
  <2>2. table.ino[Root] = 1 /\ table.next \in Nat /\ Root \in AllPaths
    BY <2>1, TableParts DEF TableSound, AllPaths
  <2> QED
    BY <2>1, <2>2, DirParts, TableParts DEF DirsSound, LeavesSound
<1>2. d \notin late /\ d \notin revived
  <2>1. Within(d, d)
    BY <1>1, WithinParts
  <2> QED
    BY <1>1, <2>1 DEF Overtaken, Orphaned
<1>3. table.ino[d] # 0
  BY <1>1 DEF DirsNumbered, Arrives, NoChange
<1>4. DirTold(d)
  BY <1>1, <1>2 DEF DirsTold, InFlight, Arrives, Departs, NoChange
<1>5. Answer(<<1, Name(d)>>) = table.ino[d]
  BY <1>1, <1>2, <1>3, <1>4, AnswerOfDir DEF DirKey
<1> QED
  BY <1>1, <1>3, <1>5 DEF Find

LEMMA FindsCurrent ==
    ASSUME DirsSound, mut = NoChange, NEW p \in Leaves, p \notin Overtaken, Known(p)
    PROVE  /\ tree[p] # "absent"
           /\ HitOf(DirIno(Parent(p)), Name(p)).node.what = tree[p]
<1>1. /\ LeavesSound /\ Sound /\ DirsTold /\ TableSound(table) /\ p \in Paths
      /\ table.ino[Root] = 1
  BY LeafParts DEF DirsSound, LeavesSound, Sound, TablesSound, TableSound
<1>2. p \notin late /\ (Parent(p) \in Dirs => Parent(p) \notin late)
  <2>1. Within(p, p) /\ (Parent(p) \in Dirs => Within(p, Parent(p)))
    BY <1>1, DirParts, WithinParts
  <2> QED
    BY <1>1, <2>1 DEF Overtaken
<1>3. DirIno(Parent(p)) # 0 /\ HitOf(DirIno(Parent(p)), Name(p)).ino # 0
  BY DEF Known, KnownIno
<1>4. DirIno(Parent(p)) = table.ino[Parent(p)]
  <2>1. CASE Parent(p) = Root
    BY <1>1, <2>1 DEF DirIno
  <2>2. CASE Parent(p) \in Dirs
    <3>1. Parent(p) # Root /\ Name(Parent(p)) = Parent(p)[1]
      BY <2>2, DirParts, TwoLevels
    <3>2. DirTold(Parent(p))
      BY <1>1, <1>2, <2>2 DEF DirsTold, InFlight, Arrives, Departs, NoChange
    <3>3. DirIno(Parent(p)) = HitOf(1, Name(Parent(p))).ino
      BY <3>1 DEF DirIno
    <3> QED
      BY <1>1, <1>3, <2>2, <3>2, <3>3, FoundDirIno
  <2> QED
    BY <1>1, <2>1, <2>2, TwoLevels
<1>5. TellsLeaf(p)
  BY <1>1, <1>2, <1>3, <1>4, TellsAtRest
<1>6. HitOf(DirIno(Parent(p)), Name(p)) = Lookup(base, index, KeyOf(p))
  BY <1>4 DEF HitOf, KeyOf
<1>7. tree[p] # "absent"
  BY <1>3, <1>5, <1>6, LookupAbsent DEF TellsLeaf
<1> QED
  BY <1>5, <1>6, <1>7, LookupPresent DEF TellsLeaf

\* "Can never make a visible file unreachable": when nothing is being done, each path of
\* the tree is found by lookups from the root under its own inode, and what they find is
\* there with the size and provider the tree has, unless a request has published it late
\* or a flush has brought back its directory: if no directory is renamed that has files.
THEOREM NamesAgreeAtRest ==
    ASSUME NoFullRename
    PROVE  Spec => []LookupsMatchTree
<1>1. DirsSound => LookupsMatchTree
  <2> SUFFICES ASSUME DirsSound, mut = NoChange
               PROVE  /\ \A p \in Paths \ (Overtaken \cup Orphaned) : tree[p] # "absent" =>
                            Find(p) # 0 /\ (table.ino[p] # 0 => Find(p) = table.ino[p])
                      /\ \A p \in Leaves \ Overtaken : Known(p) =>
                            /\ tree[p] # "absent"
                            /\ HitOf(DirIno(Parent(p)), Name(p)).node.what = tree[p]
    BY DEF LookupsMatchTree, VisibleReachable, FoundFilesCurrent, AtRest
  <2> QED
    BY ReachesLeaf, ReachesDir, FindsCurrent DEF Leaves
<1> QED
  BY <1>1, DirsAlways, PTL

-----------------------------------------------------------------------------
(* A cached listing has the files of its directory, but for those that a    *)
(* change has done and not invalidated yet, or a flush has brought back.    *)

ListTells(names, q) ==
    /\ Name(q) \in names => tree[q] # "absent"
    /\ tree[q] # "absent" /\ q \notin revived => Name(q) \in names

\* The changes of a file after which the listings of its directory are invalidated.
Relists    == mut.kind \in {"create", "unlink", "rename"} /\ mut.path.key \in Leaves
Relisted   == {mut.path.key} \cup (IF mut.kind = "rename" THEN {mut.to.key} ELSE {})
Unlisted(q) == Relists /\ mut.step # "tree" /\ q \in Relisted

\* The kernel keeps the directories locked.
MutLocks == Relists => \A q \in Relisted : table.ino[Parent(q)] \in mut.dirs

Listing   == IF req = Idle THEN FALSE ELSE req.kind = "listing" /\ req.path.key \notin misfiled
ReqLocks  == Listing => table.path[req.ino] = req.path /\ req.dirs = {req.ino}
Excludes  == Listing /\ Relists =>
                \A q \in Relisted : Parent(q) # req.path.key

CachesTold ==
    \A cache \in {entries, blobs} : \A s \in SpelledDirs : \A q \in Leaves :
        s.key \notin misfiled /\ cache[s] # NoListing /\ Parent(q) = s.key /\ ~Unlisted(q) =>
            ListTells(cache[s], q)
ReqTold ==
    Listing /\ req.step \in {"keep", "blob"} =>
        \A q \in Leaves : Parent(q) = req.path.key => ListTells(req.names, q)

ListingsSound == MutLocks /\ ReqLocks /\ Excludes /\ CachesTold /\ ReqTold

\* What the guards of a handler say of the directories that are locked for it.
LEMMA BeginLocks ==
    ASSUME Sound, Next, mut' # mut, ~ChangeTree, ~ChangeInodes, ~TombstonePath,
           ~PublishChange, ~InvalidateListings, Relists'
    PROVE  /\ UNCHANGED <<table, req>>
           /\ \A q \in Relisted' : table.ino[Parent(q)] \in mut'.dirs
           /\ req # Idle => req.dirs \cap mut'.dirs = {}
<1>1. TreeSound /\ TablesSound
  BY DEF Sound
<1>2. ASSUME NEW p \in Paths, DirIno(Parent(p)) # 0, table.path[DirIno(Parent(p))] # NoPath,
             NEW sp \in Spellings
      PROVE  table.ino[Parent(Canonical(table.path[DirIno(Parent(p))], Name(p), sp).key)] =
                DirIno(Parent(p))
  <2>1. Canonical(table.path[DirIno(Parent(p))], Name(p), sp).key =
           Append(table.path[DirIno(Parent(p))].key, Name(p))
    BY <1>1, <1>2, ChildOfDirIno
  <2>2. Parent(p) \in Dirs \cup {Root} /\ Name(p) \in Names
    BY TwoLevels, PathParts
  <2>3. table.path[DirIno(Parent(p))].key \in Dirs \cup {Root}
    BY <1>1, <1>2, <2>2, DirInoParts
  <2>4. Parent(Append(table.path[DirIno(Parent(p))].key, Name(p))) =
           table.path[DirIno(Parent(p))].key
    BY <2>2, <2>3, AppendParts
  <2> QED
    BY <1>1, <1>2, <2>1, <2>4, DirInoOfPath
<1>3. ASSUME NEW p \in Paths, NEW sp \in Spellings, Create(p, sp)
      PROVE  /\ mut'.kind = "create" /\ table.ino[Parent(mut'.path.key)] \in mut'.dirs
             /\ req # Idle => req.dirs \cap mut'.dirs = {}
  <2> DEFINE s == Canonical(table.path[DirIno(Parent(p))], Name(p), sp)
  <2>1. /\ DirIno(Parent(p)) # 0 /\ table.path[DirIno(Parent(p))] # NoPath
        /\ Begin("create", s, RootPath, "empty", {DirIno(Parent(p))})
    BY <1>3 DEF Create
  <2>2. table.ino[Parent(s.key)] = DirIno(Parent(p))
    BY <1>2, <2>1
  <2> HIDE DEF s
  <2> QED
    BY <2>1, <2>2 DEF Begin
<1>4. ASSUME NEW p \in Paths, NEW sp \in Spellings, Mkdir(p, sp)
      PROVE  mut'.kind = "mkdir"
  <2> DEFINE s == Canonical(RootPath, Name(p), sp)
  <2>1. Begin("mkdir", s, RootPath, "dir", {1})
    BY <1>4 DEF Mkdir
  <2> HIDE DEF s
  <2> QED
    BY <2>1 DEF Begin
<1>5. ASSUME NEW p \in Paths, Unlink(p)
      PROVE  /\ mut'.kind = "unlink" /\ table.ino[Parent(mut'.path.key)] \in mut'.dirs
             /\ req # Idle => req.dirs \cap mut'.dirs = {}
  <2> DEFINE s == Canonical(table.path[DirIno(Parent(p))], Name(p), AnySpelling)
  <2>1. /\ DirIno(Parent(p)) # 0 /\ table.path[DirIno(Parent(p))] # NoPath
        /\ Begin("unlink", s, RootPath, "absent", {DirIno(Parent(p))})
    BY <1>5 DEF Unlink, Known, KnownIno
  <2>2. table.ino[Parent(s.key)] = DirIno(Parent(p))
    BY <1>2, <2>1, RootPathParts, Spelt
  <2> HIDE DEF s
  <2> QED
    BY <2>1, <2>2 DEF Begin
<1>6. ASSUME NEW p \in Paths, Rmdir(p)
      PROVE  mut'.kind = "rmdir"
  <2> DEFINE s == Canonical(RootPath, Name(p), AnySpelling)
  <2>1. Begin("rmdir", s, RootPath, "absent", {1, KnownIno(p)})
    BY <1>6 DEF Rmdir
  <2> HIDE DEF s
  <2> QED
    BY <2>1 DEF Begin
<1>7. ASSUME NEW p \in Paths, NEW q \in Paths, NEW sp \in Spellings, Rename(p, q, sp)
      PROVE  /\ mut'.kind = "rename" /\ table.ino[Parent(mut'.path.key)] \in mut'.dirs
             /\ table.ino[Parent(mut'.to.key)] \in mut'.dirs
             /\ req # Idle => req.dirs \cap mut'.dirs = {}
  <2> DEFINE s == Canonical(table.path[DirIno(Parent(p))], Name(p), sp)
             t == Canonical(table.path[DirIno(Parent(q))], Name(q), sp)
             dirs == {DirIno(Parent(p)), DirIno(Parent(q))} \cup ({KnownIno(q)} \ {0})
  <2>1. /\ DirIno(Parent(p)) # 0 /\ table.path[DirIno(Parent(p))] # NoPath
        /\ DirIno(Parent(q)) # 0 /\ table.path[DirIno(Parent(q))] # NoPath
        /\ Begin("rename", s, t, tree[p], dirs)
    BY <1>7 DEF Rename, Known, KnownIno
  <2>2. table.ino[Parent(s.key)] \in dirs /\ table.ino[Parent(t.key)] \in dirs
    BY <1>2, <2>1
  <2> HIDE DEF s, t, dirs
  <2> QED
    BY <2>1, <2>2 DEF Begin
<1>8. ASSUME Flush
      PROVE  mut'.kind = "flush"
  BY <1>8 DEF Flush, Begin
<1>9. ASSUME CreatePhantom
      PROVE  mut'.kind = "phantom"
  <2> DEFINE s == Canonical(RootPath, req.name, AnySpelling)
  <2>1. mut' = [NoChange EXCEPT !.kind = "phantom", !.step = "tree", !.what = "dir",
                                !.path = s, !.dirs = req.dirs]
    BY <1>9 DEF CreatePhantom
  <2> HIDE DEF s
  <2> QED
    BY <2>1 DEF NoChange
<1>10. \/ /\ mut = NoChange
          /\ \/ \E p \in Paths, sp \in Spellings : Create(p, sp) \/ Mkdir(p, sp)
             \/ \E p, q \in Paths, sp \in Spellings : Rename(p, q, sp)
             \/ \E p \in Paths : Unlink(p) \/ Rmdir(p)
             \/ Flush
       \/ CreatePhantom
  BY MutWriters, Zenon
<1>11. mut'.kind \in {"create", "unlink", "rename"}
  BY DEF Relists
<1>12. CASE \E p \in Paths, sp \in Spellings : Create(p, sp)
  <2>1. UNCHANGED <<table, req>>
    BY <1>12, Frames
  <2> QED
    BY <1>3, <1>12, <2>1 DEF Relisted
<1>13. CASE \E p, q \in Paths, sp \in Spellings : Rename(p, q, sp)
  <2>1. UNCHANGED <<table, req>>
    BY <1>13, Frames
  <2> QED
    BY <1>7, <1>13, <2>1 DEF Relisted
<1>14. CASE \E p \in Paths : Unlink(p)
  <2>1. UNCHANGED <<table, req>>
    BY <1>14, Frames
  <2> QED
    BY <1>5, <1>14, <2>1 DEF Relisted
<1> QED
  BY <1>4, <1>6, <1>8, <1>9, <1>10, <1>11, <1>12, <1>13, <1>14

\* What a change locks stays locked as long as it goes on.
LEMMA LocksKept ==
    ASSUME Sound, Next, Relists', mut' # mut,
           ChangeTree \/ ChangeInodes \/ TombstonePath \/ PublishChange \/ InvalidateListings
    PROVE  /\ Relists /\ Relisted' = Relisted /\ mut'.dirs = mut.dirs /\ UNCHANGED req
           /\ mut'.step # "tree"
<1>1. mut \in MutRecord
  BY DEF Sound, MutSound
<1>2. mut'.kind \in {"create", "unlink", "rename"}
  BY DEF Relists
<1>3. UNCHANGED req
  BY Frames
<1>4. MutKept /\ mut'.step # "tree"
  <2>1. CASE ChangeTree
    BY <1>2, <2>1, MutFields DEF MutKept
  <2>2. CASE ChangeInodes \/ TombstonePath
    BY <1>2, <2>2, MutFields DEF MutKept
  <2>3. CASE PublishChange \/ InvalidateListings
    BY <1>2, <2>3, MutFields DEF MutKept, NoChange
  <2> QED
    BY <2>1, <2>2, <2>3
<1>5. mut'.dirs = mut.dirs
  <2>1. CASE ChangeTree
    BY <1>1, <2>1 DEF ChangeTree, MutRecord
  <2>2. CASE ChangeInodes
    BY <1>1, <2>2 DEF ChangeInodes, MutRecord
  <2>3. CASE TombstonePath
    BY <1>1, <2>3 DEF TombstonePath, MutRecord
  <2>4. CASE PublishChange
    BY <1>1, <1>2, <2>4 DEF PublishChange, MutRecord, NoChange
  <2>5. CASE InvalidateListings
    BY <1>1, <1>2, <2>5 DEF InvalidateListings, MutRecord, NoChange
  <2> QED
    BY <2>1, <2>2, <2>3, <2>4, <2>5
<1> QED
  BY <1>3, <1>4, <1>5 DEF MutKept, Relists, Relisted

\* The directories of the files that a change is about.
LEMMA RelistedParts ==
    ASSUME Sound, Relists, NEW q \in Relisted
    PROVE  /\ q \in Leaves /\ q \in Paths /\ mut.path.key \notin Dirs
           /\ mut.kind = "rename" => mut.to.key \notin Dirs
           /\ Parent(q) \in Dirs \cup {Root} /\ Parent(q) \in AllPaths
<1>1. q \in Leaves /\ mut.path.key \notin Dirs /\ (mut.kind = "rename" => mut.to.key \notin Dirs)
  BY DEF Sound, MutSound, Relists, Relisted, Leaves
<1> QED
  BY <1>1, LeafParts, TwoLevels, PathParts

LEMMA MutLocksStep ==
    ASSUME Sound, MutGoes, MutLocks, Next
    PROVE  MutLocks'
<1>1. SUFFICES ASSUME Relists', NEW q \in Relisted'
               PROVE  table'.ino[Parent(q)] \in mut'.dirs
  BY DEF MutLocks
<1>2. TableSound(table)
  BY DEF Sound, TablesSound
<1>3. ASSUME Relists, q \in Relisted, mut'.dirs = mut.dirs
      PROVE  table'.ino[Parent(q)] \in mut'.dirs
  <2>1. table.ino[Parent(q)] \in mut.dirs /\ table.ino[Parent(q)] # 0
    BY <1>3 DEF MutLocks, Sound, MutSound, MutRecord, Ino
  <2>2. Parent(q) \in Dirs \cup {Root} /\ Parent(q) \in AllPaths
    BY <1>3, RelistedParts
  <2>3. table'.ino[Parent(q)] = table.ino[Parent(q)]
    <3>1. CASE Grown(table, table')
      BY <2>1, <2>2, <3>1 DEF Grown
    <3>2. CASE ChangeInodes
      <4>1. Parent(q) # mut.path.key /\ Parent(q) # mut.to.key
        <5>1. mut.path.key \notin Dirs /\ mut.kind = "rename" /\ mut.to.key \notin Dirs
          BY <1>3, <3>2, MutFields, RelistedParts
        <5>2. mut.path.key # Root /\ mut.to.key # Root
          BY <5>1, TwoLevels DEF Sound, MutSound
        <5> QED
          BY <2>2, <5>1, <5>2
      <4> QED
        BY <2>2, <3>2, <4>1, InodesElsewhere
    <3> QED
      BY <3>1, <3>2, TableSteps
  <2> QED
    BY <1>3, <2>1, <2>3
<1>4. CASE UNCHANGED mut
  BY <1>1, <1>3, <1>4 DEF Relists, Relisted
<1>5. CASE /\ mut' # mut
           /\ ChangeTree \/ ChangeInodes \/ TombstonePath \/ PublishChange \/ InvalidateListings
  BY <1>1, <1>3, <1>5, LocksKept
<1>6. CASE /\ mut' # mut /\ ~ChangeTree /\ ~ChangeInodes /\ ~TombstonePath
           /\ ~PublishChange /\ ~InvalidateListings
  BY <1>1, <1>6, BeginLocks
<1> QED
  BY <1>4, <1>5, <1>6

\* What a listing goes on with.
LEMMA ListingGoesOn ==
    ASSUME Sound, Next, Listing', req # Idle, req' # req
    PROVE  /\ CachedEntries \/ BuildEntries \/ KeepEntries \/ KeepBlob
           /\ Listing /\ req'.ino = req.ino /\ req'.path = req.path /\ req'.dirs = req.dirs
           /\ req.path \in SpelledDirs
<1>1. req \in ReqRecord /\ req' # Idle /\ req'.kind = "listing"
  BY DEF Sound, ReqSound, Listing
<1>2. req.kind = "listing"
  BY <1>1, RequestReads
<1>3. /\ req.step \in ListingSteps /\ req.path \in SpelledDirs
  BY <1>2 DEF Sound, ReqSound
<1>4. ~OverlaySection /\ ~BaseSection /\ ~NegativeSection /\ ~TreeSection /\ ~RecordMissing
      /\ ~CreatePhantom /\ ~FoundInode /\ ~GetattrNode /\ ~GetattrTree /\ ~GetattrPath /\ ~Heal
      /\ ~EndRequest
  BY <1>1, <1>3 DEF OverlaySection, BaseSection, NegativeSection, Section, TreeSection,
     RecordMissing, CreatePhantom, FoundInode, GetattrNode, GetattrTree, GetattrPath, Heal,
     EndRequest, ListingSteps
<1>5. CachedEntries \/ BuildEntries \/ KeepEntries \/ KeepBlob
  BY <1>4, ReqWriters, Zenon
<1>6. req'.ino = req.ino /\ req'.path = req.path /\ req'.dirs = req.dirs
  <2>1. CASE CachedEntries
    BY <1>1, <2>1 DEF CachedEntries, ReqRecord
  <2>2. CASE BuildEntries
    BY <1>1, <2>2, BuildParts DEF ReqRecord
  <2>3. CASE KeepEntries
    BY <1>1, <2>3 DEF KeepEntries, Step, ReqRecord
  <2>4. CASE KeepBlob
    BY <1>1, <2>4 DEF KeepBlob, ReqRecord
  <2> QED
    BY <1>5, <2>1, <2>2, <2>3, <2>4
<1>7. misfiled \subseteq misfiled'
  BY LateGrows
<1> QED
  BY <1>2, <1>3, <1>5, <1>6, <1>7 DEF Listing

\* What a listing begins with.
LEMMA ListingBegins ==
    ASSUME Sound, Next, Listing', req = Idle
    PROVE  /\ req'.dirs = {req'.ino} /\ req'.step = "entries" /\ req'.path = table.path[req'.ino]
           /\ req'.path # NoPath /\ mut.dirs \cap {req'.ino} = {} /\ req'.ino \in Ino
           /\ UNCHANGED <<table, mut>>
<1>1. req' # req /\ req'.kind = "listing"
  BY DEF Listing
<1>2. ~\E i \in KnownDirs, n \in Names : StartLookup(i, n)
  BY <1>1 DEF StartLookup, Start
<1>3. ~\E i \in Ino : StartGetattr(i)
  BY <1>1 DEF StartGetattr, Start
<1>4. PICK i \in KnownDirs : StartListing(i)
  BY <1>1, <1>2, <1>3, StartsFromIdle
<1>5. /\ req'.dirs = {i} /\ req'.ino = i /\ req'.step = "entries" /\ req'.path = table.path[i]
      /\ table.path[i] # NoPath /\ mut.dirs \cap {i} = {} /\ UNCHANGED <<table, mut>>
  BY <1>4 DEF StartListing, Start
<1>6. i \in Ino
  <2>1. 1 \in Ino /\ TablesSound
    BY TableParts DEF Sound, TablesSound
  <2> QED
    BY <1>4, <2>1, DirInoParts DEF KnownDirs
<1> QED
  BY <1>5, <1>6

LEMMA ReqLocksStep ==
    ASSUME Sound, ReqLocks, Next
    PROVE  ReqLocks'
<1>1. SUFFICES ASSUME Listing' PROVE table'.path[req'.ino] = req'.path /\ req'.dirs = {req'.ino}
  BY DEF ReqLocks
<1>2. misfiled \subseteq misfiled' /\ Observe
  BY LateGrows DEF Next
<1>3. ASSUME Listing, req'.ino = req.ino, req'.path = req.path, req'.dirs = req.dirs
      PROVE  table'.path[req'.ino] = req'.path /\ req'.dirs = {req'.ino}
  <2>1. req.path.key \notin misfiled' /\ req # Idle /\ req.kind = "listing"
    BY <1>1, <1>3 DEF Listing
  <2>2. table'.path[req.ino] = req.path
    <3> SUFFICES ASSUME table'.path[req.ino] # req.path PROVE FALSE
      OBVIOUS
    <3>1. misfiled' = misfiled \cup {req.path.key}
      BY <1>2, <2>1 DEF Observe
    <3> QED
      BY <2>1, <3>1
  <2> QED
    BY <1>3, <2>2 DEF ReqLocks
<1>4. CASE UNCHANGED req
  <2>1. Listing
    BY <1>1, <1>2, <1>4 DEF Listing
  <2> QED
    BY <1>3, <1>4, <2>1
<1>5. CASE req' # req /\ req # Idle
  BY <1>1, <1>3, <1>5, ListingGoesOn
<1>6. CASE req' # req /\ req = Idle
  BY <1>1, <1>6, ListingBegins
<1> QED
  BY <1>4, <1>5, <1>6

LEMMA ExcludesStep ==
    ASSUME NoFullRename, Sound, MutLocks, ReqLocks, Excludes, Next
    PROVE  Excludes'
<1>1. SUFFICES ASSUME Listing', Relists', NEW q \in Relisted', Parent(q) = req'.path.key
               PROVE  FALSE
  BY DEF Excludes
<1>2. misfiled \subseteq misfiled' /\ TableSound(table)
  BY LateGrows DEF Sound, TablesSound
<1>3. UNCHANGED req => Listing
  BY <1>1, <1>2 DEF Listing
<1>4. CASE UNCHANGED mut
  <2>1. Relists /\ q \in Relisted
    BY <1>1, <1>4 DEF Relists, Relisted
  <2>2. CASE UNCHANGED req
    BY <1>1, <1>3, <2>1, <2>2 DEF Excludes
  <2>3. CASE req' # req /\ req # Idle
    BY <1>1, <2>1, <2>3, ListingGoesOn DEF Excludes
  <2>4. CASE req' # req /\ req = Idle
    <3>1. /\ req'.path = table.path[req'.ino] /\ table.path[req'.ino] # NoPath
          /\ mut.dirs \cap {req'.ino} = {} /\ req'.ino \in Ino
      BY <1>1, <2>4, ListingBegins
    <3>2. table.ino[req'.path.key] = req'.ino
      BY <1>2, <3>1, TableParts DEF TableAgrees
    <3>3. table.ino[Parent(q)] \in mut.dirs
      BY <2>1 DEF MutLocks
    <3> QED
      BY <1>1, <3>1, <3>2, <3>3
  <2> QED
    BY <2>2, <2>3, <2>4
<1>5. CASE /\ mut' # mut
           /\ ChangeTree \/ ChangeInodes \/ TombstonePath \/ PublishChange \/ InvalidateListings
  <2>1. Relists /\ Relisted' = Relisted /\ UNCHANGED req
    BY <1>1, <1>5, LocksKept
  <2> QED
    BY <1>1, <1>3, <2>1 DEF Excludes
<1>6. CASE /\ mut' # mut /\ ~ChangeTree /\ ~ChangeInodes /\ ~TombstonePath
           /\ ~PublishChange /\ ~InvalidateListings
  <2>1. /\ UNCHANGED req /\ table.ino[Parent(q)] \in mut'.dirs
        /\ req # Idle => req.dirs \cap mut'.dirs = {}
    BY <1>1, <1>6, BeginLocks
  <2>2. /\ Listing /\ req # Idle /\ table.path[req.ino] = req.path /\ req.dirs = {req.ino}
    BY <1>3, <2>1 DEF Listing, ReqLocks
  <2>3. req.ino \in Ino /\ req.path \in Spelled
    BY <2>2 DEF Sound, ReqSound, ReqRecord
  <2>4. req.path # NoPath
    BY <2>3, PathsAssumption DEF Spelled
  <2>5. table.ino[req.path.key] = req.ino
    BY <1>2, <2>2, <2>3, <2>4, TableParts DEF TableAgrees
  <2> QED
    BY <1>1, <2>1, <2>2, <2>5
<1> QED
  BY <1>4, <1>5, <1>6

\* Names that tell of a file go on telling of it, unless a change of it goes on.
LEMMA TellsOn ==
    ASSUME NoFullRename, LeavesSound, Next, NEW q \in Leaves, NEW names, ListTells(names, q),
           ~Unlisted(q)'
    PROVE  ListTells(names, q)'
<1>1. Sound /\ MutGoes /\ revived \subseteq revived' /\ Observe /\ q \notin Dirs
  BY LateGrows, LeafParts DEF LeavesSound, Next
<1>2. CASE tree'[q] = tree[q]
  BY <1>1, <1>2 DEF ListTells
<1>3. CASE tree'[q] # tree[q]
  <2>1. ChangeTree
    BY <1>3, Writers
  <2>2. q \in {mut.path.key, mut.to.key} /\ mut.step = "tree" /\ mut.kind \in MutKinds
    BY <1>1, <1>3, <2>1, LeafChanges, ChangeTreeParts
  <2>3. MutKept /\ mut'.step # "tree"
    <3>1. mut.kind \in {"create", "flush", "mkdir", "phantom", "unlink", "rmdir", "rename"}
      BY <2>2 DEF MutKinds
    <3> QED
      BY <1>1, <2>1, <3>1, MutFields
  <2>4. mut.kind # "rename" => q = mut.path.key
    <3>1. mut.kind # "rename" => mut.to.key = Root
      BY <1>1 DEF Sound, MutSound, RootPath
    <3>2. q # Root
      BY LeafParts, TwoLevels
    <3> QED
      BY <2>2, <3>1, <3>2
  <2>5. mut.kind = "rename" => mut.path.key \in Leaves
    BY <1>1, <2>2 DEF Sound, MutSound, Leaves
  <2>6. mut.kind \notin {"create", "unlink", "rename"}
    <3> SUFFICES ASSUME mut.kind \in {"create", "unlink", "rename"} PROVE FALSE
      OBVIOUS
    <3>1. Relists' /\ q \in Relisted'
      BY <2>2, <2>3, <2>4, <2>5 DEF MutKept, Relists, Relisted
    <3> QED
      BY <2>3, <3>1 DEF Unlisted
  <2>7. mut.kind = "flush" /\ q = mut.path.key
    BY <1>1, <2>2, <2>4, <2>6 DEF MutKinds, Sound, MutSound
  <2>8. mut'.step = "publish"
    BY <1>1, <2>1, <2>7, MutFields
  <2>9. tree[q] = "absent" => q \in revived'
    BY <1>1, <2>2, <2>7, <2>8 DEF Observe
  <2>10. tree'[q] # "absent"
    <3>1. mut.what = "written"
      BY <1>1, <2>7 DEF Sound, MutSound
    <3>2. tree'[q] = mut.what
      <4>1. q \in Paths /\ Target = mut.path /\ Puts
        BY <2>7, LeafParts DEF Target, Puts
      <4> QED
        BY <1>1, <2>1, <2>7, <4>1, ChangeTreeParts
    <3> QED
      BY <3>1, <3>2
  <2> QED
    BY <1>1, <2>9, <2>10 DEF ListTells
<1> QED
  BY <1>2, <1>3

\* A change of a file goes on until the listings of its directory have been dropped.
LEMMA UnlistedStays ==
    ASSUME NoFullRename, Sound, Next, NEW q \in Leaves, Unlisted(q), ~Unlisted(q)'
    PROVE  InvalidateListings
<1>1. mut' # mut /\ mut.step # "tree" /\ mut.kind \in {"create", "unlink", "rename"}
  BY DEF Unlisted, Relists, Relisted
<1>2. mut # NoChange
  BY <1>1 DEF NoChange
<1>3. ~ChangeTree
  BY <1>1 DEF ChangeTree
<1>4. ASSUME ChangeInodes \/ TombstonePath \/ PublishChange
      PROVE  Unlisted(q)'
  <2>1. MutKept /\ mut'.step # "tree"
    <3>1. CASE ChangeInodes \/ TombstonePath
      BY <1>1, <3>1, MutFields DEF MutKept
    <3>2. CASE PublishChange
      BY <1>1, <3>2, MutFields DEF MutKept
    <3> QED
      BY <1>4, <3>1, <3>2
  <2> QED
    BY <2>1 DEF MutKept, Unlisted, Relists, Relisted
<1> QED
  BY <1>1, <1>2, <1>3, <1>4, MutBegins

\* The listings that are dropped are those of the directories of the files.
LEMMA ListingsDropped ==
    ASSUME OneSpelling, Sound, InvalidateListings, NEW cache, NEW kept,
           (cache = entries /\ kept = entries') \/ (cache = blobs /\ kept = blobs'),
           NEW s \in SpelledDirs, kept[s] # NoListing
    PROVE  kept[s] = cache[s] /\ \A q \in Leaves : Unlisted(q) => Parent(q) # s.key
<1> DEFINE parents  == {ParentPath(mut.path)} \cup
                       (IF mut.kind = "rename" THEN {ParentPath(mut.to)} ELSE {})
           subtrees == IF mut.kind = "rmdir" THEN {mut.path}
                       ELSE IF mut.kind = "rename" /\ mut.what = "dir" THEN {mut.path, mut.to}
                       ELSE {}
           under    == Dropped(parents, subtrees)
<1>1. DropListings(under)
  BY DEF InvalidateListings
<1>2. DOMAIN entries = SpelledDirs /\ DOMAIN blobs = SpelledDirs
  BY DEF Sound, CachesSound
<1>3. under[s] <=> (\E d \in parents : SamePath(s, d)) \/ (\E d \in subtrees : BelowPath(s, d))
  BY <1>2 DEF Dropped
<1> HIDE DEF under
<1>4. ~under[s] /\ kept[s] = cache[s]
  <2>1. /\ entries'[s] = IF under[s] THEN NoListing ELSE entries[s]
        /\ blobs'[s] = IF under[s] THEN NoListing ELSE blobs[s]
    BY <1>1, <1>2 DEF DropListings
  <2> QED
    BY <2>1
<1>5. ASSUME NEW q \in Leaves, Unlisted(q), Parent(q) = s.key
      PROVE  FALSE
  <2>1. PICK t \in {mut.path, mut.to} : t.key = q /\ ParentPath(t) \in parents
    BY <1>5 DEF Unlisted, Relisted
  <2>2. t \in Spelled /\ s \in Spelled /\ q \in Paths
    BY <1>5, LeafParts DEF Sound, MutSound, MutRecord, SpelledDirs
  <2>3. ParentPath(t) \in Spelled /\ ParentPath(t).key = Parent(q)
    BY <2>1, <2>2, ParentPathParts
  <2>4. s.sp = ParentPath(t).sp
    BY <2>2, <2>3 DEF OneSpelling, Spelled
  <2>5. SamePath(s, ParentPath(t))
    BY <1>5, <2>3, <2>4 DEF SamePath
  <2> HIDE DEF parents
  <2> QED
    BY <1>3, <1>4, <2>1, <2>5
<1> QED
  BY <1>4, <1>5

LEMMA CachesToldStep ==
    ASSUME OneSpelling, NoFullRename, LeavesSound, CachesTold, ReqTold, Next
    PROVE  CachesTold'
<1>1. /\ Sound /\ misfiled \subseteq misfiled'
      /\ DOMAIN entries = SpelledDirs /\ DOMAIN blobs = SpelledDirs
      /\ entries = [s \in SpelledDirs |-> entries[s]] /\ blobs = [s \in SpelledDirs |-> blobs[s]]
  BY LateGrows DEF LeavesSound, Sound, CachesSound
<1> DEFINE after(names, q) ==
             /\ Name(q) \in names => tree'[q] # "absent"
             /\ tree'[q] # "absent" /\ q \notin revived' => Name(q) \in names
<1>2. SUFFICES ASSUME NEW cache, NEW kept,
                      (cache = entries /\ kept = entries') \/ (cache = blobs /\ kept = blobs'),
                      NEW s \in SpelledDirs, NEW q \in Leaves, s.key \notin misfiled',
                      kept[s] # NoListing, Parent(q) = s.key, ~Unlisted(q)'
               PROVE  after(kept[s], q)
  <2>1. ASSUME NEW s \in SpelledDirs, NEW q \in Leaves, s.key \notin misfiled',
              entries'[s] # NoListing, Parent(q) = s.key, ~Unlisted(q)'
       PROVE  after(entries'[s], q)
    <3> HIDE DEF after
    <3> QED
      BY <1>2, <2>1
  <2>2. ASSUME NEW s \in SpelledDirs, NEW q \in Leaves, s.key \notin misfiled',
              blobs'[s] # NoListing, Parent(q) = s.key, ~Unlisted(q)'
       PROVE  after(blobs'[s], q)
    <3> HIDE DEF after
    <3> QED
      BY <1>2, <2>2
  <2> QED
    BY <2>1, <2>2 DEF CachesTold, ListTells
<1>3. ASSUME NEW names, ListTells(names, q)
      PROVE  after(names, q)
  BY <1>2, <1>3, TellsOn DEF ListTells
<1>4. ASSUME kept[s] = cache[s]
      PROVE  after(kept[s], q)
  <2>1. ~Unlisted(q)
    <3> SUFFICES ASSUME Unlisted(q) PROVE FALSE
      OBVIOUS
    <3>1. InvalidateListings
      BY <1>1, <1>2, UnlistedStays
    <3> QED
      BY <1>1, <1>2, <3>1, ListingsDropped
  <2>2. ListTells(cache[s], q)
    BY <1>1, <1>2, <1>4, <2>1 DEF CachesTold
  <2> QED
    BY <1>4, <1>3, <2>2
<1>5. ASSUME kept[s] # cache[s]
      PROVE  /\ req # Idle /\ req.step \in {"keep", "blob"} /\ req.path = s
             /\ kept[s] = req.names
  <2>1. ~InvalidateListings
    BY <1>1, <1>2, <1>5, ListingsDropped
  <2>2. CASE cache = entries /\ kept = entries'
    <3>1. KeepEntries
      BY <1>5, <2>1, <2>2, Writers
    <3>2. req # Idle /\ req.step = "keep"
          /\ (UNCHANGED entries \/ entries' = [entries EXCEPT ![req.path] = req.names])
      BY <3>1 DEF KeepEntries
    <3> QED
      BY <1>1, <1>5, <2>2, <3>2
  <2>3. CASE cache = blobs /\ kept = blobs'
    <3>1. KeepBlob
      BY <1>5, <2>1, <2>3, Writers
    <3>2. req # Idle /\ req.step = "blob"
          /\ (UNCHANGED blobs \/ blobs' = [blobs EXCEPT ![req.path] = req.names])
      BY <3>1 DEF KeepBlob
    <3> QED
      BY <1>1, <1>5, <2>3, <3>2
  <2> QED
    BY <1>2, <2>2, <2>3
<1>6. ASSUME kept[s] # cache[s]
      PROVE  after(kept[s], q)
  <2>1. /\ req # Idle /\ req.step \in {"keep", "blob"} /\ req.path = s /\ kept[s] = req.names
    BY <1>6, <1>5
  <2>2. Listing
    BY <1>1, <1>2, <2>1, KindOfStep DEF Listing
  <2>3. ListTells(req.names, q)
    BY <1>2, <2>1, <2>2 DEF ReqTold
  <2> QED
    BY <1>3, <2>1, <2>3
<1> QED
  BY <1>4, <1>6

LEMMA ReqToldStep ==
    ASSUME NoFullRename, LeavesSound, Excludes, CachesTold, ReqTold, Excludes', Next
    PROVE  ReqTold'
<1>1. Sound /\ misfiled \subseteq misfiled'
  BY LateGrows DEF LeavesSound
<1> DEFINE after(names, q) ==
             /\ Name(q) \in names => tree'[q] # "absent"
             /\ tree'[q] # "absent" /\ q \notin revived' => Name(q) \in names
<1>2. SUFFICES ASSUME Listing', req'.step \in {"keep", "blob"}, NEW q \in Leaves,
                      Parent(q) = req'.path.key
               PROVE  after(req'.names, q)
  BY DEF ReqTold, ListTells
<1>3. ~Unlisted(q)'
  BY <1>2 DEF Excludes, Unlisted
<1>4. ASSUME NEW names, ListTells(names, q)
      PROVE  after(names, q)
  BY <1>3, <1>4, TellsOn DEF ListTells
<1> HIDE DEF after
<1>5. CASE UNCHANGED req
  <2>1. Listing
    BY <1>1, <1>2, <1>5 DEF Listing
  <2>2. ListTells(req.names, q)
    BY <1>2, <1>5, <2>1 DEF ReqTold
  <2> QED
    BY <1>4, <1>5, <2>2
<1>6. CASE req' # req /\ req = Idle
  BY <1>1, <1>2, <1>6, ListingBegins
<1>7. CASE req' # req /\ req # Idle
  <2>1. /\ CachedEntries \/ BuildEntries \/ KeepEntries \/ KeepBlob
        /\ Listing /\ req'.path = req.path /\ req.path \in SpelledDirs /\ req \in ReqRecord
    BY <1>1, <1>2, <1>7, ListingGoesOn DEF Sound, ReqSound
  <2>2. req.path.key \notin misfiled /\ Parent(q) = req.path.key
    BY <1>2, <2>1 DEF Listing
  <2>3. ASSUME entries[req.path] # NoListing
        PROVE  ListTells(entries[req.path], q)
    <3>1. ~Unlisted(q)
      BY <2>1, <2>2 DEF Excludes, Unlisted
    <3> QED
      BY <2>1, <2>2, <2>3, <3>1 DEF CachesTold
  <2>4. CASE CachedEntries
    <3>1. entries[req.path] # NoListing /\ req'.names = entries[req.path]
      BY <1>2, <2>1, <2>4 DEF CachedEntries, ReqRecord
    <3> QED
      BY <1>4, <2>3, <3>1
  <2>5. CASE BuildEntries
    <3>1. req'.names = {Name(c) : c \in Children(req.path.key)}
      <4>1. req' = [req EXCEPT !.step = "keep",
                               !.names = {Name(c) : c \in Children(req.path.key)}]
        <5>1. req'.step # "replied"
          BY <1>2
        <5> QED
          BY <1>1, <2>5, <5>1, BuildParts
      <4> QED
        BY <2>1, <4>1 DEF ReqRecord
    <3>2. q \in Paths
      BY LeafParts
    <3>3. \A c \in Paths : Parent(c) = Parent(q) /\ Name(c) = Name(q) => c = q
      BY <3>2, PathParts
    <3>4. Name(q) \in req'.names <=> tree[q] # "absent"
      <4>1. q \in Children(req.path.key) <=> tree[q] # "absent"
        BY <2>2, <3>2 DEF Children
      <4>2. \A c \in Children(req.path.key) : c \in Paths /\ Parent(c) = Parent(q)
        BY <2>2 DEF Children
      <4> QED
        BY <3>1, <3>3, <4>1, <4>2
    <3>5. ListTells(req'.names, q)
      BY <3>4 DEF ListTells
    <3> QED
      BY <1>4, <3>5
  <2>6. CASE KeepEntries
    <3>1. \/ entries[req.path] # NoListing /\ req'.names = entries[req.path]
          \/ req'.names = req.names /\ req.step = "keep"
      BY <2>1, <2>6 DEF KeepEntries, Step, ReqRecord
    <3>2. req.step = "keep" => ListTells(req.names, q)
      BY <2>1, <2>2 DEF ReqTold
    <3> QED
      BY <1>4, <2>3, <3>1, <3>2
  <2>7. CASE KeepBlob
    BY <1>2, <2>1, <2>7 DEF KeepBlob, ReqRecord
  <2> QED
    BY <2>1, <2>4, <2>5, <2>6, <2>7
<1> QED
  BY <1>5, <1>6, <1>7

ListedSound == DirsSound /\ ListingsSound

LEMMA InitListed == ASSUME Init PROVE ListedSound
<1>1. DirsSound
  BY InitDirs
<1>2. mut = NoChange /\ req = Idle
  BY DEF Init
<1>3. ~Relists /\ ~Listing
  BY <1>2 DEF Relists, Listing, NoChange
<1>4. entries = [s \in SpelledDirs |-> NoListing] /\ blobs = entries
  BY DEF Init
<1>5. CachesTold
  BY <1>4 DEF CachesTold
<1> QED
  BY <1>1, <1>3, <1>5 DEF ListedSound, ListingsSound, MutLocks, ReqLocks, Excludes, ReqTold

LEMMA ListedStep ==
    ASSUME OneSpelling, NoFullRename, ListedSound, [Next]_vars
    PROVE  ListedSound'
<1>1. CASE Next
  <2>1. DirsSound /\ LeavesSound /\ Sound /\ MutGoes /\ MutLocks /\ ReqLocks /\ Excludes
        /\ CachesTold /\ ReqTold
    BY DEF ListedSound, ListingsSound, DirsSound, LeavesSound
  <2>2. DirsSound'
    BY <2>1, DirsStep
  <2>3. MutLocks' /\ ReqLocks' /\ Excludes'
    BY <1>1, <2>1, MutLocksStep, ReqLocksStep, ExcludesStep
  <2>4. CachesTold' /\ ReqTold'
    BY <1>1, <2>1, <2>3, CachesToldStep, ReqToldStep
  <2> QED
    BY <2>2, <2>3, <2>4 DEF ListedSound, ListingsSound
<1>2. CASE UNCHANGED vars
  <2>1. DirsSound'
    BY <1>2, DirsStep DEF ListedSound
  <2>2. UNCHANGED <<tree, table, entries, blobs, mut, req, revived, misfiled>>
    BY <1>2 DEF vars, caches
  <2>3. Relists' = Relists /\ Relisted' = Relisted /\ Listing' = Listing
    BY <2>2 DEF Relists, Relisted, Listing
  <2>4. MutLocks' /\ ReqLocks' /\ Excludes'
    BY <2>2, <2>3 DEF ListedSound, ListingsSound, MutLocks, ReqLocks, Excludes
  <2>5. CachesTold' /\ ReqTold'
    BY <2>2, <2>3 DEF ListedSound, ListingsSound, CachesTold, ReqTold, ListTells, Unlisted
  <2> QED
    BY <2>1, <2>4, <2>5 DEF ListedSound, ListingsSound
<1> QED
  BY <1>1, <1>2

\* When nothing is being done, a cached listing has just the files that its directory has
\* in the tree, but for those a flush has brought back, and lookups find them: if no
\* directory is renamed that has files and no name is spelled in two ways.
THEOREM ListingsAgreeAtRest ==
    ASSUME OneSpelling, NoFullRename
    PROVE  Spec => []ListedFilesCurrent
<1>1. Init => ListedSound
  BY InitListed
<1>2. ListedSound /\ [Next]_vars => ListedSound'
  BY ListedStep
<1>3. ListedSound => ListedFilesCurrent
  <2> SUFFICES ASSUME ListedSound, mut = NoChange, NEW s \in SpelledDirs, blobs[s] # NoListing,
                      s.key \notin misfiled, NEW q \in Leaves, Parent(q) = s.key
               PROVE  /\ Name(q) \in blobs[s] => tree[q] # "absent"
                      /\ tree[q] # "absent" /\ q \notin revived => Name(q) \in blobs[s]
                      /\ Name(q) \in blobs[s] /\ q \notin Overtaken \cup Orphaned => Find(q) # 0
    BY DEF ListedFilesCurrent, AtRest
  <2>1. DirsSound /\ CachesTold
    BY DEF ListedSound, ListingsSound
  <2>2. ~Unlisted(q)
    BY DEF Unlisted, Relists, NoChange
  <2>3. ListTells(blobs[s], q)
    BY <2>1, <2>2 DEF CachesTold
  <2>4. tree[q] # "absent" /\ q \notin Overtaken \cup Orphaned => Find(q) # 0
    BY <2>1, ReachesLeaf
  <2> QED
    BY <2>3, <2>4 DEF ListTells
<1> QED
  BY <1>1, <1>2, <1>3, PTL DEF Spec
=============================================================================
