------------------------------ MODULE InodeTable ------------------------------
(***************************************************************************)
(* The inode numbers of the mounted file system: InodeTable                *)
(* (vfs/inodetable.cpp), two maps that have to be each other's inverse.    *)
(*                                                                         *)
(* A path is looked up by its normalized form, a sequence of names, and is *)
(* given back in the spelling it was first seen in.  Only the spelling of  *)
(* the first component is kept, as sp.  The table is a record, so that a   *)
(* handler can pass it through several calls made under one lock.          *)
(***************************************************************************)
EXTENDS Naturals, Sequences, FiniteSets, SequencesExt

CONSTANTS
    Paths,      \* normalized paths below the root
    Spellings,  \* ways to write the first component of a path
    NoPath,     \* no path, for an inode that has lost its name
    MaxIno      \* bound: inode numbers

Root   == << >>
AllPaths == Paths \cup {Root}
Parent(p) == Front(p)
Name(p)   == Last(p)

ASSUME PathsAssumption ==
    /\ IsFiniteSet(Paths)
    /\ \A p \in Paths : p # Root /\ Parent(p) \in AllPaths
    /\ Spellings # {}
    /\ MaxIno \in Nat /\ MaxIno >= 1
    /\ NoPath \notin AllPaths \cup [key : AllPaths, sp : Spellings]

Ino     == 1..MaxIno
Spelled == [key : AllPaths, sp : Spellings]

\* q is p or below p; the path p gets when the directory old becomes new.
Within(q, p)       == IsPrefix(p, q)
Moved(p, old, new) == new \o SubSeq(p, Len(old) + 1, Len(p))

Table == [ino : [AllPaths -> 0..MaxIno], path : [Ino -> Spelled \cup {NoPath}],
          next : Nat]

EmptyTable(sp) ==
    [ino  |-> [p \in AllPaths |-> IF p = Root THEN 1 ELSE 0],
     path |-> [i \in Ino |-> IF i = 1 THEN [key |-> Root, sp |-> sp] ELSE NoPath],
     next |-> 2]

\* Whether n more inode numbers are within the bound.
Room(t, n) == t.next + n <= MaxIno + 1

GetOrCreate(t, s) ==
    IF t.ino[s.key] # 0 THEN t
    ELSE [ino  |-> [t.ino EXCEPT ![s.key] = t.next],
          path |-> [t.path EXCEPT ![t.next] = s],
          next |-> t.next + 1]

\* The table after GetOrCreate of each path of a sequence, none of which has an inode
\* yet and no two of which are the same.
Numbered(t, paths) ==
    LET at(q) == {n \in DOMAIN paths : paths[n].key = q}
    IN  [ino  |-> [q \in AllPaths |-> IF at(q) = {} THEN t.ino[q]
                                      ELSE t.next - 1 + (CHOOSE n \in at(q) : TRUE)],
         path |-> [i \in Ino |-> IF i \in t.next..(t.next + Len(paths) - 1)
                                   THEN paths[i + 1 - t.next] ELSE t.path[i]],
         next |-> t.next + Len(paths)]

\* Mutant: the inode of a replaced destination keeps its path.
RenameInodeKeepsReplaced(t, old, new) ==
    LET moving == {p \in AllPaths : Within(p, old.key) /\ t.ino[p] # 0}
        source == [q \in {Moved(p, old.key, new.key) : p \in moving} |->
                      CHOOSE p \in moving : Moved(p, old.key, new.key) = q]
        inos   == {t.ino[p] : p \in moving}
    IN  [t EXCEPT
          !.ino = [q \in AllPaths |-> IF q \in DOMAIN source THEN t.ino[source[q]]
                                      ELSE IF q \in moving THEN 0 ELSE t.ino[q]],
          !.path = [i \in Ino |->
              IF i \in inos
                THEN [key |-> Moved(t.path[i].key, old.key, new.key), sp |-> new.sp]
                ELSE t.path[i]]]

\* The inodes of old and of everything below it move to new; an inode that had
\* one of the new names loses it.
RenameInode(t, old, new) ==
    LET moving == {p \in AllPaths : Within(p, old.key) /\ t.ino[p] # 0}
        source == [q \in {Moved(p, old.key, new.key) : p \in moving} |->
                      CHOOSE p \in moving : Moved(p, old.key, new.key) = q]
        inos   == {t.ino[p] : p \in moving}
        lost   == {t.ino[q] : q \in DOMAIN source} \ inos
    IN  [t EXCEPT
          !.ino = [q \in AllPaths |-> IF q \in DOMAIN source THEN t.ino[source[q]]
                                      ELSE IF q \in moving THEN 0 ELSE t.ino[q]],
          !.path = [i \in Ino |->
              IF i \in inos
                THEN [key |-> Moved(t.path[i].key, old.key, new.key), sp |-> new.sp]
              ELSE IF i \in lost THEN NoPath
              ELSE t.path[i]]]

\* The two maps agree: the number of a path leads back to the path, and a number
\* has a path only while that path has the number.
TableAgrees(t) ==
    /\ \A p \in AllPaths : t.ino[p] # 0 =>
          t.path[t.ino[p]] # NoPath /\ t.path[t.ino[p]].key = p
    /\ \A i \in Ino : t.path[i] # NoPath => t.ino[t.path[i].key] = i
=============================================================================
