------------------------- MODULE RuntimeIndex_proofs -------------------------
(***************************************************************************)
(* Lemmas about the operators of InodeTable and RuntimeIndex: the two maps *)
(* of the inode table stay each other's inverse, the two containers of the *)
(* negative cache stay alike, for any paths, inodes and sizes.             *)
(***************************************************************************)
EXTENDS RuntimeIndex, FiniteSetTheorems, SequenceTheorems, TLAPS

-----------------------------------------------------------------------------
(* Paths.                                                                   *)

LEMMA Beginning ==
    ASSUME NEW S, NEW s \in Seq(S), NEW n \in 0..Len(s)
    PROVE  /\ SubSeq(s, 1, n) \in Seq(S) /\ Len(SubSeq(s, 1, n)) = n
           /\ \A i \in 1..n : SubSeq(s, 1, n)[i] = s[i]
<1>1. \A i \in 1..n : s[i] \in S
  OBVIOUS
<1> QED
  BY <1>1, SubSeqProperties

LEMMA Ending ==
    ASSUME NEW S, NEW s \in Seq(S), NEW n \in 0..Len(s)
    PROVE  /\ SubSeq(s, n + 1, Len(s)) \in Seq(S) /\ Len(SubSeq(s, n + 1, Len(s))) = Len(s) - n
           /\ \A i \in 1..(Len(s) - n) : SubSeq(s, n + 1, Len(s))[i] = s[n + i]
<1>1. \A i \in (n + 1)..Len(s) : s[i] \in S
  OBVIOUS
<1> QED
  BY <1>1, SubSeqProperties

\* A path is its parent followed by its name.
LEMMA PathParts ==
    ASSUME NEW p \in Paths
    PROVE  /\ p \in Seq(Names) /\ p # Root /\ Len(p) \in Nat /\ Len(p) >= 1
           /\ Name(p) \in Names
           /\ Parent(p) \in Seq(Names) /\ Parent(p) \in AllPaths /\ Parent(p) # p
           /\ Len(Parent(p)) = Len(p) - 1
           /\ Append(Parent(p), Name(p)) = p
<1>1. p \in Seq(Names) /\ p # Root /\ Parent(p) \in AllPaths
  BY PathsAssumption, IndexAssumption
<1>2. Len(p) \in Nat /\ Len(p) >= 1
  BY <1>1 DEF Root
<1>3. /\ Parent(p) \in Seq(Names) /\ Len(Parent(p)) = Len(p) - 1
      /\ \A i \in 1..(Len(p) - 1) : Parent(p)[i] = p[i]
  <2>1. Len(p) - 1 \in 0..Len(p)
    BY <1>2
  <2> QED
    BY <1>1, <2>1, Beginning DEF Parent, Front
<1>4. Name(p) \in Names
  BY <1>1, <1>2 DEF Name, Last
<1>5. Append(Parent(p), Name(p)) = p
  BY <1>1, <1>2, <1>3, <1>4, AppendProperties DEF Name, Last
<1> QED
  BY <1>1, <1>2, <1>3, <1>4, <1>5

LEMMA ParentOfRoot == Parent(Root) = Root /\ Root \in Seq(Names) /\ Root \in AllPaths
BY SubSeqEmpty DEF Parent, Front, Root, AllPaths

LEMMA ChildParts ==
    ASSUME NEW p \in Seq(Names), NEW n \in Names
    PROVE  Parent(Append(p, n)) = p /\ Name(Append(p, n)) = n /\ Append(p, n) # Root
<1>1. /\ Append(p, n) \in Seq(Names) /\ Append(p, n) # <<>> /\ Len(Append(p, n)) = Len(p) + 1
      /\ \A i \in 1..Len(p) : Append(p, n)[i] = p[i]
      /\ Append(p, n)[Len(p) + 1] = n
  BY AppendProperties
<1>2. Name(Append(p, n)) = n
  BY <1>1 DEF Name, Last
<1>3. Parent(Append(p, n)) = p
  <2>1. \A i \in 1..Len(p) : Append(p, n)[i] \in Names
    BY <1>1
  <2>2. /\ SubSeq(Append(p, n), 1, Len(p)) \in Seq(Names)
        /\ Len(SubSeq(Append(p, n), 1, Len(p))) = Len(p)
        /\ \A i \in 1..Len(p) : SubSeq(Append(p, n), 1, Len(p))[i] = Append(p, n)[i]
    BY <2>1, SubSeqProperties
  <2>3. Parent(Append(p, n)) = SubSeq(Append(p, n), 1, Len(p))
    BY <1>1 DEF Parent, Front
  <2> QED
    BY <2>2, <2>3, <1>1
<1> QED
  BY <1>1, <1>2, <1>3 DEF Root

\* Two paths with the same parent and the same name are the same.
LEMMA SameParts ==
    ASSUME NEW p \in Paths, NEW q \in Paths, Parent(p) = Parent(q), Name(p) = Name(q)
    PROVE  p = q
BY PathParts

\* Two paths below a directory go to two paths.
LEMMA MovedInjective ==
    ASSUME NEW p \in Seq(Names), NEW q \in Seq(Names), NEW old \in Seq(Names),
           NEW new \in Seq(Names), Within(p, old), Within(q, old),
           Moved(p, old, new) = Moved(q, old, new)
    PROVE  p = q
<1> DEFINE L(r) == SubSeq(r, Len(old) + 1, Len(r))
<1>1. ASSUME NEW r \in Seq(Names), Within(r, old)
      PROVE  /\ L(r) \in Seq(Names) /\ Len(L(r)) = Len(r) - Len(old)
             /\ \A i \in 1..(Len(r) - Len(old)) : L(r)[i] = r[Len(old) + i]
             /\ \A i \in 1..Len(old) : r[i] = old[i]
             /\ Len(old) \in Nat /\ Len(r) \in Nat /\ Len(r) >= Len(old)
             /\ Moved(r, old, new) = new \o L(r)
  <2>1. Len(old) \in 0..Len(r) /\ SubSeq(old, 1, Len(old)) = SubSeq(r, 1, Len(old))
    BY <1>1 DEF Within, IsPrefix
  <2>2. \A i \in 1..Len(old) : r[i] = old[i]
    BY <1>1, <2>1, Beginning
  <2> QED
    BY <1>1, <2>1, <2>2, Ending DEF Moved
<1> HIDE DEF L
<1>2. Len(L(p)) = Len(L(q)) /\ \A i \in 1..Len(L(p)) : L(p)[i] = L(q)[i]
  <2>1. new \o L(p) = new \o L(q) /\ L(p) \in Seq(Names) /\ L(q) \in Seq(Names)
    BY <1>1
  <2>2. Len(new \o L(p)) = Len(new) + Len(L(p)) /\ Len(new \o L(q)) = Len(new) + Len(L(q))
    BY <2>1
  <2>3. Len(L(p)) = Len(L(q))
    BY <2>1, <2>2
  <2>4. ASSUME NEW i \in 1..Len(L(p)) PROVE L(p)[i] = L(q)[i]
    <3>1. (new \o L(p))[Len(new) + i] = L(p)[i] /\ (new \o L(q))[Len(new) + i] = L(q)[i]
      BY <2>1, <2>3
    <3> QED
      BY <3>1, <2>1
  <2> QED
    BY <2>3, <2>4
<1>3. Len(p) = Len(q)
  BY <1>1, <1>2
<1>4. ASSUME NEW i \in 1..Len(p) PROVE p[i] = q[i]
  <2>1. CASE i <= Len(old)
    BY <1>1, <2>1
  <2>2. CASE i > Len(old)
    <3>1. i - Len(old) \in 1..(Len(p) - Len(old))
      BY <1>1, <2>2
    <3>2. L(p)[i - Len(old)] = p[i] /\ L(q)[i - Len(old)] = q[i]
      BY <3>1, <1>1, <1>3, <2>2, SMTT(60)
    <3> QED
      BY <3>1, <3>2, <1>1, <1>2
  <2> QED
    BY <2>1, <2>2, <1>1
<1> QED
  BY <1>3, <1>4

-----------------------------------------------------------------------------
(* The inode table.                                                         *)

\* The table agrees with itself, and numbers from next on are not in use.
TableSound(t) ==
    /\ t \in Table /\ TableAgrees(t)
    /\ t.next >= 2 /\ t.next <= MaxIno + 1
    /\ \A i \in Ino : i >= t.next => t.path[i] = NoPath
    /\ t.ino[Root] = 1

LEMMA TableParts ==
    ASSUME NEW t, TableSound(t)
    PROVE  /\ t \in Table /\ TableAgrees(t) /\ t.next \in Nat
           /\ \A p \in AllPaths : t.ino[p] \in 0..MaxIno /\ t.ino[p] < t.next
           /\ \A i \in Ino : t.path[i] \in Spelled \cup {NoPath}
           /\ \A p \in AllPaths : t.ino[p] # 0 => t.ino[p] \in Ino
           /\ \A p, q \in AllPaths : t.ino[p] = t.ino[q] /\ t.ino[p] # 0 => p = q
           /\ 1 \in Ino /\ t.path[1] # NoPath /\ t.path[1].key = Root
<1>1. /\ t \in Table /\ TableAgrees(t) /\ t.next \in Nat
      /\ \A p \in AllPaths : t.ino[p] \in 0..MaxIno
      /\ \A i \in Ino : t.path[i] \in Spelled \cup {NoPath}
  BY DEF TableSound, Table
<1>2. \A p \in AllPaths : t.ino[p] # 0 => t.ino[p] \in Ino
  BY <1>1, PathsAssumption DEF Ino
<1>3. \A p \in AllPaths : t.ino[p] < t.next
  BY <1>1, <1>2 DEF TableSound, TableAgrees, Ino
<1>4. \A p, q \in AllPaths : t.ino[p] = t.ino[q] /\ t.ino[p] # 0 => p = q
  BY <1>1, <1>2 DEF TableAgrees
<1>5. 1 \in Ino /\ t.path[1] # NoPath /\ t.path[1].key = Root
  BY <1>1, PathsAssumption DEF TableSound, TableAgrees, AllPaths, Ino
<1> QED
  BY <1>1, <1>2, <1>3, <1>4, <1>5

\* GetOrCreate gives a path an inode and changes that of no other path.
LEMMA GetOrCreateSound ==
    ASSUME NEW t, TableSound(t), NEW s \in Spelled, t.ino[s.key] # 0 \/ Room(t, 1)
    PROVE  LET u == GetOrCreate(t, s)
           IN  /\ TableSound(u)
               /\ u.ino[s.key] \in Ino /\ u.path[u.ino[s.key]] # NoPath
               /\ u.path[u.ino[s.key]].key = s.key
               /\ \A p \in AllPaths : p # s.key => u.ino[p] = t.ino[p]
               /\ t.ino[s.key] # 0 => u = t
               /\ \A i \in Ino : i # t.next => u.path[i] = t.path[i]
               /\ t.next <= u.next /\ u.next <= t.next + 1
               /\ \A i \in Ino : t.path[i] # NoPath => u.path[i] = t.path[i]
<1> DEFINE u == GetOrCreate(t, s)
<1>1. s.key \in AllPaths /\ s # NoPath
  BY PathsAssumption DEF Spelled
<1>2. CASE t.ino[s.key] # 0
  BY <1>1, <1>2, TableParts DEF GetOrCreate, TableAgrees
<1>3. CASE t.ino[s.key] = 0
  <2>1. t.next \in Ino /\ t.path[t.next] = NoPath /\ t.next # 0
    BY <1>3, TableParts, PathsAssumption DEF Room, TableSound, Ino
  <2>2. /\ u.ino = [t.ino EXCEPT ![s.key] = t.next]
        /\ u.path = [t.path EXCEPT ![t.next] = s]
        /\ u.next = t.next + 1
        /\ u = [ino |-> u.ino, path |-> u.path, next |-> u.next]
    BY <1>3 DEF GetOrCreate
  <2>3. /\ \A p \in AllPaths : u.ino[p] = IF p = s.key THEN t.next ELSE t.ino[p]
        /\ \A i \in Ino : u.path[i] = IF i = t.next THEN s ELSE t.path[i]
    BY <2>1, <2>2, <1>1, TableParts DEF Table
  <2>4. u \in Table
    <3>1. u.ino \in [AllPaths -> 0..MaxIno]
      <4>1. t.ino \in [AllPaths -> 0..MaxIno] /\ t.next \in 0..MaxIno
        BY <2>1, TableParts, PathsAssumption DEF Table, Ino
      <4> QED
        BY <4>1, <2>2
    <3>2. u.path \in [Ino -> Spelled \cup {NoPath}]
      BY <2>1, <2>2, TableParts DEF Table
    <3> QED
      BY <3>1, <3>2, <2>2, TableParts DEF Table
  <2>5. TableAgrees(u)
    <3>1. ASSUME NEW p \in AllPaths, u.ino[p] # 0
          PROVE  u.path[u.ino[p]] # NoPath /\ u.path[u.ino[p]].key = p
      BY <3>1, <2>1, <2>3, <1>1, TableParts DEF TableAgrees
    <3>2. ASSUME NEW i \in Ino, u.path[i] # NoPath
          PROVE  u.ino[u.path[i].key] = i
      <4>1. CASE i = t.next
        BY <4>1, <2>3, <1>1
      <4>2. CASE i # t.next
        <5>1. t.path[i] # NoPath /\ t.path[i] \in Spelled /\ t.ino[t.path[i].key] = i
          BY <4>2, <3>2, <2>3, TableParts DEF TableAgrees
        <5>2. t.path[i].key \in AllPaths /\ t.path[i].key # s.key
          BY <5>1, <1>3 DEF Spelled, Ino
        <5> QED
          BY <5>1, <5>2, <4>2, <2>3
      <4> QED
        BY <4>1, <4>2
    <3> QED
      BY <3>1, <3>2 DEF TableAgrees
  <2>6. u.ino[Root] = 1
    <3>1. Root \in AllPaths /\ t.ino[Root] = 1
      BY DEF AllPaths, TableSound
    <3> QED
      BY <3>1, <2>3, <1>3
  <2>7. TableSound(u)
    BY <2>1, <2>2, <2>3, <2>4, <2>5, <2>6, TableParts, PathsAssumption DEF TableSound, Ino, Room
  <2> HIDE DEF u
  <2>8. u.ino[s.key] = t.next /\ u.path[t.next] = s /\ u.next = t.next + 1
    BY <2>1, <2>2, <2>3, <1>1
  <2> QED
    BY <2>1, <2>3, <2>7, <2>8, <1>1, <1>3, TableParts DEF u
<1> QED
  BY <1>2, <1>3

\* A rename into paths that are there keeps the two maps inverse of each other.
LEMMA RenameInodeSound ==
    ASSUME NEW t, TableSound(t), NEW old \in Spelled, NEW new \in Spelled,
           old.key \in Paths, new.key \in Paths,
           \A r \in Paths : Within(r, old.key) => Moved(r, old.key, new.key) \in Paths
    PROVE  LET u == RenameInode(t, old, new)
               moving == {p \in AllPaths : Within(p, old.key) /\ t.ino[p] # 0}
               to(p)  == Moved(p, old.key, new.key)
           IN  /\ TableSound(u) /\ u.next = t.next
               /\ \A p \in moving : /\ to(p) \in Paths /\ u.ino[to(p)] = t.ino[p]
                                    /\ u.path[t.ino[p]] = [key |-> to(p), sp |-> new.sp]
               /\ \A p \in moving : (\A q \in moving : to(q) # p) => u.ino[p] = 0
               /\ \A q \in AllPaths : q \notin moving /\ (\A p \in moving : to(p) # q) =>
                     u.ino[q] = t.ino[q]
               /\ \A i \in Ino : (\A p \in moving : t.ino[p] # i) =>
                     u.path[i] = IF \E p \in moving : t.ino[to(p)] = i THEN NoPath
                                 ELSE t.path[i]
<1> DEFINE moving == {p \in AllPaths : Within(p, old.key) /\ t.ino[p] # 0}
           to(p)  == Moved(p, old.key, new.key)
           source == [q \in {to(p) : p \in moving} |-> CHOOSE p \in moving : to(p) = q]
           inos   == {t.ino[p] : p \in moving}
           lost   == {t.ino[q] : q \in DOMAIN source} \ inos
           u      == RenameInode(t, old, new)
<1>1. /\ u = [ino |-> u.ino, path |-> u.path, next |-> t.next]
      /\ u.ino = [q \in AllPaths |-> IF q \in DOMAIN source THEN t.ino[source[q]]
                                     ELSE IF q \in moving THEN 0 ELSE t.ino[q]]
      /\ u.path = [i \in Ino |->
              IF i \in inos
                THEN [key |-> to(t.path[i].key), sp |-> new.sp]
              ELSE IF i \in lost THEN NoPath
              ELSE t.path[i]]
  <2>1. t = [ino |-> t.ino, path |-> t.path, next |-> t.next]
    BY TableParts DEF Table
  <2> DEFINE ino  == [q \in AllPaths |-> IF q \in DOMAIN source THEN t.ino[source[q]]
                                        ELSE IF q \in moving THEN 0 ELSE t.ino[q]]
             path == [i \in Ino |->
                        IF i \in inos
                          THEN [key |-> to(t.path[i].key), sp |-> new.sp]
                        ELSE IF i \in lost THEN NoPath
                        ELSE t.path[i]]
  <2>2. u = [t EXCEPT !.ino = ino, !.path = path]
    BY Zenon DEF RenameInode
  <2> HIDE DEF ino, path, u
  <2>3. u = [ino |-> ino, path |-> path, next |-> t.next]
    BY <2>1, <2>2
  <2>4. u.ino = ino /\ u.path = path /\ u = [ino |-> u.ino, path |-> u.path, next |-> t.next]
    BY <2>3
  <2> QED
    BY <2>4 DEF ino, path
<1>2. Root \notin moving /\ moving \subseteq Paths
  <2>1. Len(old.key) \in Nat /\ Len(old.key) >= 1 /\ Len(Root) = 0
    BY PathParts DEF Root
  <2>2. ~Within(Root, old.key)
    BY <2>1 DEF Within, IsPrefix
  <2> QED
    BY <2>2 DEF AllPaths
<1>3. \A p \in moving : to(p) \in Paths /\ to(p) \in AllPaths
  BY <1>2 DEF AllPaths
<1>4. \A p, q \in moving : to(p) = to(q) => p = q
  BY <1>2, PathParts, MovedInjective
<1> HIDE DEF moving, to
<1>5. /\ DOMAIN source = {to(p) : p \in moving}
      /\ \A p \in moving : to(p) \in DOMAIN source /\ source[to(p)] = p
  BY <1>4
<1>6. \A p \in moving : t.ino[p] \in Ino /\ t.ino[p] \in 0..MaxIno
  BY TableParts DEF moving
<1>7. DOMAIN source \subseteq Paths
  BY <1>3, <1>5
<1> HIDE DEF source, u
<1>8. u.ino \in [AllPaths -> 0..MaxIno]
  <2>1. ASSUME NEW q \in AllPaths PROVE u.ino[q] \in 0..MaxIno
    <3>1. CASE q \in DOMAIN source
      <4>1. PICK p \in moving : q = to(p)
        BY <3>1, <1>5
      <4> QED
        BY <4>1, <3>1, <1>1, <1>5, <1>6
    <3>2. CASE q \notin DOMAIN source
      BY <3>2, <1>1, TableParts, PathsAssumption
    <3> QED
      BY <3>1, <3>2
  <2> QED
    BY <2>1, <1>1
<1>9. \A i \in inos : \E p \in moving : i = t.ino[p] /\ t.path[i] # NoPath /\ t.path[i].key = p
  BY TableParts DEF moving, TableAgrees
<1>10. u.path \in [Ino -> Spelled \cup {NoPath}]
  <2>1. ASSUME NEW i \in Ino PROVE u.path[i] \in Spelled \cup {NoPath}
    <3>1. CASE i \in inos
      <4>1. PICK p \in moving : t.path[i].key = p
        BY <3>1, <1>9
      <4>2. u.path[i] = [key |-> to(p), sp |-> new.sp]
        BY <3>1, <4>1, <1>1
      <4> QED
        BY <4>2, <1>3 DEF Spelled
    <3>2. CASE i \notin inos
      BY <3>2, <1>1, TableParts
    <3> QED
      BY <3>1, <3>2
  <2> QED
    BY <2>1, <1>1
<1>11. \A p \in moving : u.ino[to(p)] = t.ino[p]
                         /\ u.path[t.ino[p]] = [key |-> to(p), sp |-> new.sp]
  <2> TAKE p \in moving
  <2>1. t.path[t.ino[p]].key = p /\ t.ino[p] \in Ino /\ t.ino[p] \in inos
    BY <1>6, TableParts DEF moving, TableAgrees
  <2> QED
    BY <2>1, <1>1, <1>3, <1>5
<1>12. \A q \in AllPaths : q \notin DOMAIN source =>
          u.ino[q] = IF q \in moving THEN 0 ELSE t.ino[q]
  BY <1>1
<1>13. \A i \in Ino : i \notin inos => u.path[i] = IF i \in lost THEN NoPath ELSE t.path[i]
  BY <1>1
<1>14. TableAgrees(u)
  <2>1. ASSUME NEW q \in AllPaths, u.ino[q] # 0
        PROVE  u.path[u.ino[q]] # NoPath /\ u.path[u.ino[q]].key = q
    <3>1. CASE q \in DOMAIN source
      <4>1. PICK p \in moving : q = to(p)
        BY <3>1, <1>5
      <4>2. [key |-> to(p), sp |-> new.sp] \in [key : AllPaths, sp : Spellings]
        BY <1>3 DEF Spelled
      <4>3. u.ino[q] = t.ino[p] /\ u.path[t.ino[p]] = [key |-> q, sp |-> new.sp]
        BY <4>1, <1>11
      <4> QED
        BY <4>1, <4>2, <4>3, PathsAssumption
    <3>2. CASE q \notin DOMAIN source
      <4>1. q \notin moving /\ u.ino[q] = t.ino[q] /\ t.ino[q] # 0
        BY <2>1, <3>2, <1>12
      <4>2. t.ino[q] \in Ino /\ t.path[t.ino[q]] # NoPath /\ t.path[t.ino[q]].key = q
        BY <4>1, TableParts DEF TableAgrees
      <4>3. t.ino[q] \notin inos
        BY <4>1, <4>2, <1>9
      <4>4. t.ino[q] \notin lost
        BY <4>1, <3>2, <1>7, TableParts DEF AllPaths
      <4> QED
        BY <4>1, <4>2, <4>3, <4>4, <1>13
    <3> QED
      BY <3>1, <3>2
  <2>2. ASSUME NEW i \in Ino, u.path[i] # NoPath
        PROVE  u.ino[u.path[i].key] = i
    <3>1. CASE i \in inos
      <4>1. PICK p \in moving : i = t.ino[p]
        BY <3>1
      <4>2. u.path[i] = [key |-> to(p), sp |-> new.sp] /\ u.ino[to(p)] = i
        BY <4>1, <1>11
      <4>3. u.path[i].key = to(p)
        BY <4>2
      <4> QED
        BY <4>2, <4>3
    <3>2. CASE i \notin inos
      <4>1. i \notin lost /\ u.path[i] = t.path[i]
        BY <2>2, <3>2, <1>13
      <4>2. /\ t.path[i] \in Spelled /\ t.path[i].key \in AllPaths
            /\ t.ino[t.path[i].key] = i
        BY <2>2, <4>1, TableParts DEF TableAgrees, Spelled
      <4>3. t.path[i].key \notin moving /\ t.path[i].key \notin DOMAIN source
        BY <3>2, <4>1, <4>2
      <4> QED
        BY <4>1, <4>2, <4>3, <1>12
    <3> QED
      BY <3>1, <3>2
  <2> QED
    BY <2>1, <2>2 DEF TableAgrees
<1>15. TableSound(u)
  <2>1. u \in Table
    BY <1>1, <1>8, <1>10, TableParts DEF Table
  <2>2. u.next = t.next
    BY <1>1
  <2>3. ASSUME NEW i \in Ino, i >= u.next PROVE u.path[i] = NoPath
    <3>1. t.path[i] = NoPath
      BY <2>2, <2>3 DEF TableSound
    <3>2. i \notin inos
      BY <3>1, <1>9
    <3> QED
      BY <3>1, <3>2, <1>13
  <2>4. u.ino[Root] = 1
    <3>1. Root \notin Paths /\ Root \in AllPaths /\ t.ino[Root] = 1
      BY PathsAssumption DEF AllPaths, TableSound
    <3> QED
      BY <3>1, <1>2, <1>7, <1>12
  <2> QED
    BY <2>1, <2>2, <2>3, <2>4, <1>14 DEF TableSound
<1>16. \A p \in moving : (\A q \in moving : to(q) # p) => u.ino[p] = 0
  BY <1>12, <1>5 DEF moving
<1>17. \A q \in AllPaths : q \notin moving /\ (\A p \in moving : to(p) # q) => u.ino[q] = t.ino[q]
  BY <1>12, <1>5
<1>18. \A i \in Ino : (\A p \in moving : t.ino[p] # i) =>
          u.path[i] = IF \E p \in moving : t.ino[to(p)] = i THEN NoPath ELSE t.path[i]
  BY <1>13, <1>5
<1>19. u.next = t.next
  BY <1>1
<1> QED
  BY <1>3, <1>11, <1>15, <1>16, <1>17, <1>18, <1>19, SMTT(60) DEF moving, to, u

LEMMA NumberedSound ==
    ASSUME NEW t, TableSound(t), NEW paths \in Seq(Spelled), t.next + Len(paths) <= MaxIno + 1,
           \A n \in DOMAIN paths : t.ino[paths[n].key] = 0,
           \A m, n \in DOMAIN paths : paths[m].key = paths[n].key => m = n
    PROVE  LET u == Numbered(t, paths)
           IN  /\ TableSound(u) /\ u.next = t.next + Len(paths)
               /\ \A n \in DOMAIN paths : u.ino[paths[n].key] = t.next - 1 + n
                                          /\ u.path[t.next - 1 + n] = paths[n]
               /\ \A p \in AllPaths : (\A n \in DOMAIN paths : paths[n].key # p) =>
                                          u.ino[p] = t.ino[p]
               /\ \A i \in Ino : i < t.next => u.path[i] = t.path[i]
<1> DEFINE u     == Numbered(t, paths)
           at(q) == {n \in DOMAIN paths : paths[n].key = q}
           first(q) == CHOOSE n \in at(q) : TRUE
<1>1. /\ Len(paths) \in Nat /\ DOMAIN paths = 1..Len(paths)
      /\ \A n \in DOMAIN paths : paths[n] \in Spelled /\ paths[n].key \in AllPaths
                                 /\ paths[n] # NoPath
  <2>1. \A n \in DOMAIN paths : paths[n] \in [key : AllPaths, sp : Spellings]
    <3>1. DOMAIN paths = 1..Len(paths) /\ \A n \in 1..Len(paths) : paths[n] \in Spelled
      OBVIOUS
    <3> QED
      BY <3>1 DEF Spelled
  <2>2. \A n \in DOMAIN paths : paths[n].key \in AllPaths
    BY <2>1
  <2> QED
    BY <2>1, <2>2, PathsAssumption DEF Spelled
<1>2. \A n \in DOMAIN paths : at(paths[n].key) # {} /\ first(paths[n].key) = n
  OBVIOUS
<1>3. \A q \in AllPaths : at(q) # {} => first(q) \in DOMAIN paths /\ paths[first(q)].key = q
  OBVIOUS
<1>4. /\ u.ino = [q \in AllPaths |-> IF at(q) = {} THEN t.ino[q] ELSE t.next - 1 + first(q)]
      /\ u.path = [i \in Ino |-> IF i \in t.next..(t.next + Len(paths) - 1)
                                  THEN paths[i + 1 - t.next] ELSE t.path[i]]
      /\ u.next = t.next + Len(paths)
      /\ u = [ino |-> u.ino, path |-> u.path, next |-> u.next]
  BY DEF Numbered
<1> HIDE DEF u, at, first
<1>5. t.next \in Nat /\ t.next >= 2
  BY TableParts DEF TableSound
<1>6. /\ \A n \in DOMAIN paths : /\ t.next - 1 + n \in Ino /\ t.next - 1 + n # 0
                                 /\ t.next - 1 + n \in 0..MaxIno
                                 /\ u.ino[paths[n].key] = t.next - 1 + n
      /\ \A n \in DOMAIN paths : u.path[t.next - 1 + n] = paths[n]
  <2>1. ASSUME NEW n \in DOMAIN paths
        PROVE  t.next - 1 + n \in Ino /\ t.next - 1 + n # 0 /\ t.next - 1 + n \in 0..MaxIno
    BY <1>1, <1>5, PathsAssumption DEF Ino
  <2>2. ASSUME NEW n \in DOMAIN paths
        PROVE  u.ino[paths[n].key] = t.next - 1 + n
    BY <1>1, <1>2, <1>4
  <2>3. ASSUME NEW n \in DOMAIN paths
        PROVE  u.path[t.next - 1 + n] = paths[n]
    <3>1. /\ t.next - 1 + n \in t.next..(t.next + Len(paths) - 1)
          /\ (t.next - 1 + n) + 1 - t.next = n
      BY <1>1, <1>5
    <3> QED
      BY <3>1, <2>1, <1>4
  <2> QED
    BY <2>1, <2>2, <2>3
<1>7. \A p \in AllPaths : (\A n \in DOMAIN paths : paths[n].key # p) => u.ino[p] = t.ino[p]
  BY <1>3, <1>4
<1>8. \A i \in Ino : i \notin t.next..(t.next + Len(paths) - 1) => u.path[i] = t.path[i]
  BY <1>4
<1>9. \A i \in Ino : i \in t.next..(t.next + Len(paths) - 1) =>
          \E n \in DOMAIN paths : i = t.next - 1 + n
  <2> TAKE i \in Ino
  <2> HAVE i \in t.next..(t.next + Len(paths) - 1)
  <2>1. i + 1 - t.next \in DOMAIN paths /\ i = t.next - 1 + (i + 1 - t.next)
    BY <1>1, <1>5, PathsAssumption DEF Ino
  <2> QED
    BY <2>1
<1>10. u \in Table
  <2>1. u.ino \in [AllPaths -> 0..MaxIno]
    <3>1. ASSUME NEW q \in AllPaths PROVE u.ino[q] \in 0..MaxIno
      BY <1>6, <1>7, TableParts
    <3> QED
      BY <3>1, <1>4
  <2>2. u.path \in [Ino -> Spelled \cup {NoPath}]
    <3>1. ASSUME NEW i \in Ino PROVE u.path[i] \in Spelled \cup {NoPath}
      BY <1>1, <1>6, <1>8, <1>9, TableParts
    <3> QED
      BY <3>1, <1>4
  <2>3. u.next \in Nat /\ u = [ino |-> u.ino, path |-> u.path, next |-> u.next]
    BY <1>1, <1>4, <1>5
  <2> QED
    BY <2>1, <2>2, <2>3 DEF Table
<1>11. TableAgrees(u)
  <2>1. ASSUME NEW p \in AllPaths, u.ino[p] # 0
        PROVE  u.path[u.ino[p]] # NoPath /\ u.path[u.ino[p]].key = p
    <3>1. CASE \E n \in DOMAIN paths : paths[n].key = p
      BY <3>1, <1>1, <1>6
    <3>2. CASE \A n \in DOMAIN paths : paths[n].key # p
      <4>1. u.ino[p] = t.ino[p] /\ t.ino[p] \in Ino /\ t.ino[p] < t.next
            /\ t.path[t.ino[p]] # NoPath /\ t.path[t.ino[p]].key = p
        BY <2>1, <3>2, <1>7, TableParts DEF TableAgrees
      <4>2. t.ino[p] \notin t.next..(t.next + Len(paths) - 1)
        BY <4>1, <1>1, <1>5 DEF Ino
      <4> QED
        BY <4>1, <4>2, <1>8
    <3> QED
      BY <3>1, <3>2
  <2>2. ASSUME NEW i \in Ino, u.path[i] # NoPath
        PROVE  u.ino[u.path[i].key] = i
    <3>1. CASE i \in t.next..(t.next + Len(paths) - 1)
      BY <3>1, <1>6, <1>9
    <3>2. CASE i \notin t.next..(t.next + Len(paths) - 1)
      <4>1. /\ u.path[i] = t.path[i] /\ t.path[i] \in Spelled /\ t.path[i].key \in AllPaths
            /\ t.ino[t.path[i].key] = i /\ i # 0
        BY <2>2, <3>2, <1>8, TableParts DEF TableAgrees, Spelled, Ino
      <4>2. \A n \in DOMAIN paths : paths[n].key # t.path[i].key
        BY <4>1
      <4> QED
        BY <4>1, <4>2, <1>7
    <3> QED
      BY <3>1, <3>2
  <2> QED
    BY <2>1, <2>2 DEF TableAgrees
<1>12. TableSound(u)
  <2>1. u.ino[Root] = 1
    <3>1. Root \in AllPaths /\ t.ino[Root] = 1
      BY DEF AllPaths, TableSound
    <3> QED
      BY <3>1, <1>7
  <2>2. ASSUME NEW i \in Ino, i >= u.next PROVE u.path[i] = NoPath
    BY <2>2, <1>1, <1>4, <1>5, <1>8 DEF Ino, TableSound
  <2> QED
    BY <2>1, <2>2, <1>1, <1>4, <1>5, <1>10, <1>11 DEF TableSound
<1>13. \A i \in Ino : i < t.next => u.path[i] = t.path[i]
  BY <1>8, <1>5, <1>1 DEF Ino
<1> QED
  BY <1>4, <1>6, <1>7, <1>12, <1>13 DEF u

\* A finite set as a sequence: each element once.
LEMMA SetToSeqParts ==
    ASSUME NEW S, IsFiniteSet(S)
    PROVE  LET s == SetToSeq(S)
           IN  /\ s \in Seq(S) /\ Len(s) = Cardinality(S) /\ Len(s) \in Nat
               /\ DOMAIN s = 1..Len(s)
               /\ \A e \in S : \E n \in DOMAIN s : s[n] = e
               /\ \A m, n \in DOMAIN s : s[m] = s[n] => m = n
<1> DEFINE s == SetToSeq(S)
<1>1. Cardinality(S) \in Nat /\ ExistsBijection(1..Cardinality(S), S)
  BY FS_CardinalityType
<1>2. \E f \in [1..Cardinality(S) -> S] : IsInjective(f)
  BY <1>1 DEF ExistsBijection, Bijection, Injection, IsInjective
<1>3. s \in [1..Cardinality(S) -> S] /\ IsInjective(s)
  BY <1>2 DEF SetToSeq
<1> HIDE DEF s
<1>4. s \in Injection(1..Cardinality(S), S)
  BY <1>3 DEF Injection, IsInjective
<1>5. IsFiniteSet(1..Cardinality(S)) /\ Cardinality(1..Cardinality(S)) = Cardinality(S)
  BY <1>1, FS_Interval
<1>6. s \in Surjection(1..Cardinality(S), S)
  BY <1>4, <1>5, FS_Injection
<1>7. s \in Seq(S) /\ Len(s) = Cardinality(S)
  BY <1>1, <1>3
<1> QED
  BY <1>1, <1>3, <1>6, <1>7 DEF Surjection, IsInjective, s

-----------------------------------------------------------------------------
(* The negative cache.                                                      *)

\* The two containers hold the same names, each once, and the bound is kept.
Alike(x) ==
    /\ x \in Index /\ x.expired <= Len(x.expiry) /\ Len(x.expiry) <= MaxNegative
    /\ x.negative = {x.expiry[n] : n \in DOMAIN x.expiry}
    /\ \A m, n \in DOMAIN x.expiry : x.expiry[m] = x.expiry[n] => m = n

IndexSound(b, x) ==
    /\ Alike(x)
    /\ \A k \in x.negative : k \notin x.tombstones /\ x.child[k] = 0 /\ b.child[k] = 0

LEMMA IndexParts ==
    ASSUME NEW x \in Index
    PROVE  /\ x.child \in [Key -> 0..MaxIno] /\ x.tombstones \in SUBSET Key
           /\ x.node \in [Ino -> Node \cup {NoNode}] /\ x.hidden \in SUBSET Ino
           /\ x.negative \in SUBSET Key /\ x.expiry \in Seq(Key) /\ x.expired \in Nat
           /\ Len(x.expiry) \in Nat /\ DOMAIN x.expiry = 1..Len(x.expiry)
           /\ \A n \in 1..Len(x.expiry) : x.expiry[n] \in Key
           /\ x = [child |-> x.child, tombstones |-> x.tombstones, node |-> x.node,
                   hidden |-> x.hidden, negative |-> x.negative, expiry |-> x.expiry,
                   expired |-> x.expired]
BY DEF Index

\* What NegativesAgree says of numbers follows from each name being there once.
LEMMA SoundAgrees ==
    ASSUME NEW b, NEW x, IndexSound(b, x)
    PROVE  NegativesAgree(b, x)
<1>1. x \in Index /\ DOMAIN x.expiry = 1..Len(x.expiry) /\ Len(x.expiry) \in Nat
  BY IndexParts DEF IndexSound, Alike
<1>2. Cardinality(x.negative) = Len(x.expiry)
  <2>1. x.expiry \in Bijection(1..Len(x.expiry), x.negative)
    <3>1. x.expiry \in [1..Len(x.expiry) -> x.negative]
      <4>1. x.expiry = [n \in 1..Len(x.expiry) |-> x.expiry[n]]
        BY <1>1, IndexParts
      <4> QED
        BY <4>1, <1>1 DEF IndexSound, Alike
    <3> QED
      BY <3>1, <1>1 DEF IndexSound, Alike, Bijection, Injection, Surjection, IsInjective
  <2> QED
    BY <2>1, <1>1, FS_CountingElements DEF ExistsBijection
<1> QED
  BY <1>2 DEF NegativesAgree, IndexSound, Alike

LEMMA RemoveAtParts ==
    ASSUME NEW S, NEW s \in Seq(S), NEW i \in 1..Len(s)
    PROVE  /\ RemoveAt(s, i) \in Seq(S) /\ Len(RemoveAt(s, i)) = Len(s) - 1
           /\ \A n \in 1..(Len(s) - 1) :
                 RemoveAt(s, i)[n] = IF n < i THEN s[n] ELSE s[n + 1]
<1> DEFINE a == SubSeq(s, 1, i - 1)
           b == SubSeq(s, i + 1, Len(s))
<1>1. /\ a \in Seq(S) /\ Len(a) = i - 1
      /\ \A n \in 1..(i - 1) : a[n] = s[n]
  <2>1. i - 1 \in 0..Len(s)
    OBVIOUS
  <2> QED
    BY <2>1, Beginning
<1>2. /\ b \in Seq(S) /\ Len(b) = Len(s) - i
      /\ \A n \in 1..(Len(s) - i) : b[n] = s[i + n]
  <2>1. i \in 0..Len(s)
    OBVIOUS
  <2> QED
    BY <2>1, Ending
<1>3. RemoveAt(s, i) = a \o b
  BY DEF RemoveAt
<1> HIDE DEF a, b
<1>4. a \o b \in Seq(S) /\ Len(a \o b) = Len(s) - 1
  <2>1. a \in Seq(S) /\ Len(a) = i - 1 /\ b \in Seq(S) /\ Len(b) = Len(s) - i
    BY <1>1, <1>2
  <2> QED
    BY <2>1
<1>5. ASSUME NEW n \in 1..(Len(s) - 1)
      PROVE  (a \o b)[n] = IF n < i THEN s[n] ELSE s[n + 1]
  <2>1. CASE n < i
    <3>1. n \in 1..Len(a) /\ a[n] = s[n]
      BY <2>1, <1>1
    <3> QED
      BY <2>1, <3>1, <1>1, <1>2
  <2>2. CASE ~(n < i)
    <3>1. n - (i - 1) \in 1..(Len(s) - i) /\ i + (n - (i - 1)) = n + 1
      BY <2>2
    <3>2. b[n - (i - 1)] = s[n + 1]
      BY <3>1, <1>2
    <3>3. (a \o b)[n] = b[n - (i - 1)]
      BY <3>1, <2>2, <1>1, <1>2
    <3> QED
      BY <2>2, <3>2, <3>3
  <2> QED
    BY <2>1, <2>2
<1> QED
  BY <1>3, <1>4, <1>5

\* What the operators leave alone, but for the negative cache.
SameNames(x, y) ==
    y.child = x.child /\ y.tombstones = x.tombstones /\ y.node = x.node /\ y.hidden = x.hidden

LEMMA EraseNegativeSound ==
    ASSUME NEW x, Alike(x), NEW k \in Key
    PROVE  LET y == EraseNegative(x, k)
           IN  /\ Alike(y) /\ SameNames(x, y) /\ y.negative = x.negative \ {k}
               /\ Len(y.expiry) <= Len(x.expiry)
<1> DEFINE y == EraseNegative(x, k)
<1>1. x \in Index
  BY DEF Alike
<1>2. CASE k \notin x.negative
  BY <1>1, <1>2, IndexParts DEF EraseNegative, SameNames
<1>3. CASE k \in x.negative
  <2> DEFINE at == CHOOSE n \in DOMAIN x.expiry : x.expiry[n] = k
  <2>1. at \in 1..Len(x.expiry) /\ x.expiry[at] = k
    BY <1>1, <1>3, IndexParts DEF Alike
  <2>2. y = [x EXCEPT !.negative = x.negative \ {k}, !.expiry = RemoveAt(x.expiry, at),
                      !.expired = IF at <= x.expired THEN x.expired - 1 ELSE x.expired]
    BY <1>3 DEF EraseNegative
  <2> HIDE DEF at, y
  <2>3. /\ RemoveAt(x.expiry, at) \in Seq(Key)
        /\ Len(RemoveAt(x.expiry, at)) = Len(x.expiry) - 1
        /\ \A n \in 1..(Len(x.expiry) - 1) :
              RemoveAt(x.expiry, at)[n] = IF n < at THEN x.expiry[n] ELSE x.expiry[n + 1]
    BY <2>1, <1>1, IndexParts, RemoveAtParts
  <2>4. x.negative \ {k} \in SUBSET Key
        /\ (IF at <= x.expired THEN x.expired - 1 ELSE x.expired) \in Nat
    BY <2>1, <1>1, IndexParts
  <2>7. /\ y \in Index /\ SameNames(x, y)
        /\ y.expiry = RemoveAt(x.expiry, at) /\ y.negative = x.negative \ {k}
        /\ y.expired = IF at <= x.expired THEN x.expired - 1 ELSE x.expired
    <3> DEFINE ng == x.negative \ {k}
               ex == RemoveAt(x.expiry, at)
               ed == IF at <= x.expired THEN x.expired - 1 ELSE x.expired
    <3>1. ng \in SUBSET Key /\ ex \in Seq(Key) /\ ed \in Nat
      BY <2>3, <2>4
    <3>2. y = [x EXCEPT !.negative = ng, !.expiry = ex, !.expired = ed]
      BY <2>2
    <3> HIDE DEF ng, ex, ed
    <3>3. /\ y \in Index /\ SameNames(x, y)
          /\ y.negative = ng /\ y.expiry = ex /\ y.expired = ed
      BY <3>1, <3>2, <1>1 DEF Index, SameNames
    <3> QED
      BY <3>3 DEF ng, ex, ed
  <2>5. /\ y.expiry \in Seq(Key) /\ Len(y.expiry) = Len(x.expiry) - 1
        /\ \A n \in 1..(Len(x.expiry) - 1) :
              y.expiry[n] = IF n < at THEN x.expiry[n] ELSE x.expiry[n + 1]
    BY <2>3, <2>7
  <2>6. DOMAIN y.expiry = 1..(Len(x.expiry) - 1)
    BY <2>5, <1>1, IndexParts
  <2>8. y.expired <= Len(y.expiry) /\ Len(y.expiry) <= MaxNegative
    BY <2>1, <2>7, <2>5, <1>1, IndexParts, IndexAssumption DEF Alike
  <2>9. \A m, n \in DOMAIN y.expiry : y.expiry[m] = y.expiry[n] => m = n
    <3> SUFFICES ASSUME NEW m \in 1..(Len(x.expiry) - 1), NEW n \in 1..(Len(x.expiry) - 1),
                        y.expiry[m] = y.expiry[n]
                 PROVE  m = n
      BY <2>6
    <3> DEFINE f(j) == IF j < at THEN j ELSE j + 1
    <3>1. f(m) \in DOMAIN x.expiry /\ f(n) \in DOMAIN x.expiry
      BY <2>1, <1>1, IndexParts
    <3>2. x.expiry[f(m)] = x.expiry[f(n)]
      BY <2>5
    <3>3. f(m) = f(n)
      BY <3>1, <3>2 DEF Alike
    <3> QED
      BY <3>3, <2>1
  <2>10. y.negative = {y.expiry[n] : n \in DOMAIN y.expiry}
    <3>1. ASSUME NEW e \in y.negative PROVE \E n \in DOMAIN y.expiry : e = y.expiry[n]
      <4>1. PICK j \in 1..Len(x.expiry) : e = x.expiry[j] /\ j # at
        BY <2>1, <2>7, <1>1, IndexParts, ZenonT(60) DEF Alike
      <4>2. CASE j < at
        <5>1. j \in DOMAIN y.expiry
          BY <4>1, <4>2, <2>1, <2>6, <1>1, IndexParts
        <5> QED
          BY <5>1, <4>1, <4>2, <2>5, <2>6
      <4>3. CASE ~(j < at)
        <5>1. j - 1 \in DOMAIN y.expiry /\ ~(j - 1 < at) /\ (j - 1) + 1 = j
          BY <4>1, <4>3, <2>1, <2>6
        <5> QED
          BY <5>1, <4>1, <2>5, <2>6
      <4> QED
        BY <4>2, <4>3
    <3>2. ASSUME NEW n \in DOMAIN y.expiry PROVE y.expiry[n] \in y.negative
      <4> DEFINE j == IF n < at THEN n ELSE n + 1
      <4>1. j \in DOMAIN x.expiry /\ j # at /\ y.expiry[n] = x.expiry[j]
        BY <2>1, <2>5, <2>6, <1>1, IndexParts
      <4>2. x.expiry[j] \in x.negative /\ x.expiry[j] # k
        BY <4>1, <2>1, <1>1, IndexParts DEF Alike
      <4> QED
        BY <4>1, <4>2, <2>7
    <3> QED
      BY <3>1, <3>2
  <2>11. Len(y.expiry) <= Len(x.expiry)
    BY <2>5, <1>1, IndexParts
  <2> QED
    BY <2>7, <2>8, <2>9, <2>10, <2>11 DEF Alike, y
<1> QED
  BY <1>2, <1>3

LEMMA DropFirstSound ==
    ASSUME NEW x, Alike(x), NEW n \in 0..Len(x.expiry)
    PROVE  LET y == DropFirst(x, n)
           IN  /\ Alike(y) /\ SameNames(x, y) /\ y.negative \subseteq x.negative
               /\ Len(y.expiry) = Len(x.expiry) - n
<1> DEFINE y == DropFirst(x, n)
<1>1. x \in Index
  BY DEF Alike
<1>2. y = [x EXCEPT !.negative = x.negative \ {x.expiry[i] : i \in 1..n},
                    !.expiry = SubSeq(x.expiry, n + 1, Len(x.expiry)),
                    !.expired = IF n <= x.expired THEN x.expired - n ELSE 0]
  BY DEF DropFirst
<1> HIDE DEF y
<1>3. /\ SubSeq(x.expiry, n + 1, Len(x.expiry)) \in Seq(Key)
      /\ Len(SubSeq(x.expiry, n + 1, Len(x.expiry))) = Len(x.expiry) - n
      /\ \A i \in 1..(Len(x.expiry) - n) :
            SubSeq(x.expiry, n + 1, Len(x.expiry))[i] = x.expiry[n + i]
  BY <1>1, IndexParts, Ending
<1>4. x.negative \ {x.expiry[i] : i \in 1..n} \in SUBSET Key
      /\ (IF n <= x.expired THEN x.expired - n ELSE 0) \in Nat
  BY <1>1, IndexParts
<1>5. /\ y \in Index /\ SameNames(x, y)
      /\ y.expiry = SubSeq(x.expiry, n + 1, Len(x.expiry))
      /\ y.negative = x.negative \ {x.expiry[i] : i \in 1..n}
      /\ y.expired = IF n <= x.expired THEN x.expired - n ELSE 0
  <2> DEFINE ng == x.negative \ {x.expiry[i] : i \in 1..n}
             ex == SubSeq(x.expiry, n + 1, Len(x.expiry))
             ed == IF n <= x.expired THEN x.expired - n ELSE 0
  <2>1. ng \in SUBSET Key /\ ex \in Seq(Key) /\ ed \in Nat
    BY <1>3, <1>4
  <2>2. y = [x EXCEPT !.negative = ng, !.expiry = ex, !.expired = ed]
    BY <1>2
  <2> HIDE DEF ng, ex, ed
  <2>3. /\ y \in Index /\ SameNames(x, y)
        /\ y.negative = ng /\ y.expiry = ex /\ y.expired = ed
    BY <2>1, <2>2, <1>1 DEF Index, SameNames
  <2> QED
    BY <2>3 DEF ng, ex, ed
<1>6. /\ DOMAIN y.expiry = 1..(Len(x.expiry) - n) /\ Len(y.expiry) = Len(x.expiry) - n
      /\ \A i \in 1..(Len(x.expiry) - n) : y.expiry[i] = x.expiry[n + i]
  BY <1>3, <1>5, <1>1, IndexParts
<1>7. y.expired <= Len(y.expiry) /\ Len(y.expiry) <= MaxNegative
  BY <1>5, <1>6, <1>1, IndexParts, IndexAssumption, SMTT(60) DEF Alike
<1>8. \A l, m \in DOMAIN y.expiry : y.expiry[l] = y.expiry[m] => l = m
  <2> SUFFICES ASSUME NEW l \in 1..(Len(x.expiry) - n), NEW m \in 1..(Len(x.expiry) - n),
                      y.expiry[l] = y.expiry[m]
               PROVE  l = m
    BY <1>6
  <2>1. n + l \in DOMAIN x.expiry /\ n + m \in DOMAIN x.expiry
    BY <1>1, IndexParts
  <2>2. n + l = n + m
    BY <2>1, <1>6 DEF Alike
  <2> QED
    BY <2>2
<1>9. y.negative = {y.expiry[i] : i \in DOMAIN y.expiry}
  <2>1. ASSUME NEW e \in y.negative PROVE \E i \in DOMAIN y.expiry : e = y.expiry[i]
    <3>1. PICK j \in 1..Len(x.expiry) : e = x.expiry[j] /\ j \notin 1..n
      BY <1>5, <1>1, IndexParts, SMTT(60) DEF Alike
    <3>2. j - n \in 1..(Len(x.expiry) - n) /\ n + (j - n) = j
      BY <3>1
    <3> QED
      BY <3>1, <3>2, <1>6
  <2>2. ASSUME NEW i \in DOMAIN y.expiry PROVE y.expiry[i] \in y.negative
    <3>1. n + i \in DOMAIN x.expiry /\ n + i \notin 1..n /\ y.expiry[i] = x.expiry[n + i]
      BY <1>6, <1>1, IndexParts
    <3>2. \A j \in 1..n : j \in DOMAIN x.expiry
      BY <1>1, IndexParts
    <3>3. x.expiry[n + i] \notin {x.expiry[j] : j \in 1..n}
      BY <3>1, <3>2 DEF Alike
    <3> QED
      BY <3>1, <3>3, <1>5 DEF Alike
  <2> QED
    BY <2>1, <2>2
<1> QED
  BY <1>5, <1>6, <1>7, <1>8, <1>9 DEF Alike, y

LEMMA PublishSound ==
    ASSUME NEW b, NEW x, IndexSound(b, x), NEW k \in Key, NEW ino \in Ino, NEW node \in Node
    PROVE  LET y == Publish(x, k, ino, node)
           IN  /\ IndexSound(b, y)
               /\ y.child = [x.child EXCEPT ![k] = ino] /\ y.tombstones = x.tombstones \ {k}
               /\ y.node = [x.node EXCEPT ![ino] = node] /\ y.hidden = x.hidden \ {ino}
               /\ y.negative = x.negative \ {k}
<1> DEFINE z == [x EXCEPT !.node[ino] = node, !.hidden = @ \ {ino}, !.child[k] = ino,
                          !.tombstones = @ \ {k}]
           y == Publish(x, k, ino, node)
<1>1. x \in Index /\ Alike(x)
  BY DEF IndexSound, Alike
<1>2. ino \in 0..MaxIno
  BY PathsAssumption DEF Ino
<1>3. /\ z.child = [x.child EXCEPT ![k] = ino] /\ z.tombstones = x.tombstones \ {k}
      /\ z.node = [x.node EXCEPT ![ino] = node] /\ z.hidden = x.hidden \ {ino}
      /\ z.negative = x.negative /\ z.expiry = x.expiry /\ z.expired = x.expired
  BY <1>1 DEF Index
<1>4. z \in Index
  <2>1. /\ [x.child EXCEPT ![k] = ino] \in [Key -> 0..MaxIno]
        /\ [x.node EXCEPT ![ino] = node] \in [Ino -> Node \cup {NoNode}]
    BY <1>1, <1>2, IndexParts
  <2>2. z = [x EXCEPT !.node = [x.node EXCEPT ![ino] = node], !.hidden = x.hidden \ {ino},
                      !.child = [x.child EXCEPT ![k] = ino],
                      !.tombstones = x.tombstones \ {k}]
    OBVIOUS
  <2> HIDE DEF z
  <2> QED
    BY <2>1, <2>2, <1>1 DEF Index
<1>5. y = EraseNegative(z, k)
  BY DEF Publish
<1> HIDE DEF y, z
<1>6. Alike(z)
  BY <1>1, <1>3, <1>4 DEF Alike
<1>7. Alike(y) /\ SameNames(z, y) /\ y.negative = z.negative \ {k}
  BY <1>5, <1>6, EraseNegativeSound
<1>8. \A l \in y.negative : l \notin y.tombstones /\ y.child[l] = 0 /\ b.child[l] = 0
  <2>1. ASSUME NEW l \in x.negative, l # k
        PROVE  l \notin z.tombstones /\ z.child[l] = 0 /\ b.child[l] = 0
    <3>1. l \in Key /\ l \notin x.tombstones /\ x.child[l] = 0 /\ b.child[l] = 0
      BY <1>1, IndexParts DEF IndexSound
    <3> QED
      BY <2>1, <3>1, <1>1, <1>3, IndexParts
  <2> QED
    BY <2>1, <1>3, <1>7 DEF SameNames
<1> QED
  BY <1>3, <1>7, <1>8 DEF IndexSound, SameNames, y

LEMMA TombstoneSound ==
    ASSUME NEW b, NEW x, IndexSound(b, x), NEW k \in Key, NEW ino \in 0..MaxIno
    PROVE  LET y == Tombstone(x, k, ino)
           IN  /\ IndexSound(b, y)
               /\ y.child = [x.child EXCEPT ![k] = 0] /\ y.tombstones = x.tombstones \cup {k}
               /\ ino = 0 => y.node = x.node /\ y.hidden = x.hidden
               /\ ino # 0 => /\ y.node = [x.node EXCEPT ![ino] = NoNode]
                             /\ y.hidden = x.hidden \cup {ino}
               /\ y.negative = x.negative \ {k}
<1> DEFINE z == [x EXCEPT !.tombstones = @ \cup {k}, !.child[k] = 0]
           w == EraseNegative(z, k)
           y == Tombstone(x, k, ino)
<1>1. x \in Index /\ Alike(x)
  BY DEF IndexSound, Alike
<1>2. ino = 0 \/ ino \in Ino
  BY PathsAssumption DEF Ino
<1>3. /\ z.child = [x.child EXCEPT ![k] = 0] /\ z.tombstones = x.tombstones \cup {k}
      /\ z.node = x.node /\ z.hidden = x.hidden
      /\ z.negative = x.negative /\ z.expiry = x.expiry /\ z.expired = x.expired
  BY <1>1 DEF Index
<1>4. z \in Index
  <2>1. [x.child EXCEPT ![k] = 0] \in [Key -> 0..MaxIno]
    BY <1>1, IndexParts, PathsAssumption
  <2>2. z = [x EXCEPT !.tombstones = x.tombstones \cup {k},
                      !.child = [x.child EXCEPT ![k] = 0]]
    OBVIOUS
  <2>3. x.tombstones \cup {k} \in SUBSET Key
    BY <1>1, IndexParts
  <2> HIDE DEF z
  <2> QED
    BY <2>1, <2>2, <2>3, <1>1 DEF Index
<1>5. y = IF ino = 0 THEN w ELSE [w EXCEPT !.hidden = @ \cup {ino}, !.node[ino] = NoNode]
  BY DEF Tombstone
<1> HIDE DEF y, z
<1>6. Alike(z)
  BY <1>1, <1>3, <1>4 DEF Alike
<1>7. Alike(w) /\ SameNames(z, w) /\ w.negative = z.negative \ {k}
  BY <1>6, EraseNegativeSound
<1> HIDE DEF w
<1>8. /\ w \in Index /\ Alike(w)
      /\ w.child = [x.child EXCEPT ![k] = 0] /\ w.tombstones = x.tombstones \cup {k}
      /\ w.node = x.node /\ w.hidden = x.hidden /\ w.negative = x.negative \ {k}
  BY <1>3, <1>7 DEF SameNames, Alike
<1>9. \A l \in w.negative : l \notin w.tombstones /\ w.child[l] = 0 /\ b.child[l] = 0
  <2>1. ASSUME NEW l \in x.negative, l # k
        PROVE  l \notin w.tombstones /\ w.child[l] = 0 /\ b.child[l] = 0
    <3>1. l \in Key /\ l \notin x.tombstones /\ x.child[l] = 0 /\ b.child[l] = 0
      BY <1>1, IndexParts DEF IndexSound
    <3> QED
      BY <2>1, <3>1, <1>1, <1>8, IndexParts
  <2> QED
    BY <2>1, <1>8
<1>10. CASE ino = 0
  BY <1>5, <1>8, <1>9, <1>10 DEF IndexSound, y
<1>11. CASE ino \in Ino
  <2>1. ino # 0
    BY <1>11 DEF Ino
  <2>2. y = [w EXCEPT !.hidden = w.hidden \cup {ino},
                      !.node = [w.node EXCEPT ![ino] = NoNode]]
    BY <1>5, <2>1
  <2>3. w.hidden \cup {ino} \in SUBSET Ino
        /\ [w.node EXCEPT ![ino] = NoNode] \in [Ino -> Node \cup {NoNode}]
    BY <1>8, <1>11, IndexParts
  <2>4. /\ y \in Index /\ y.child = w.child /\ y.tombstones = w.tombstones
        /\ y.hidden = w.hidden \cup {ino} /\ y.node = [w.node EXCEPT ![ino] = NoNode]
        /\ y.negative = w.negative /\ y.expiry = w.expiry /\ y.expired = w.expired
    BY <2>2, <2>3, <1>8 DEF Index
  <2>5. Alike(y)
    BY <2>4, <1>8 DEF Alike
  <2> QED
    BY <2>1, <2>4, <2>5, <1>8, <1>9 DEF IndexSound, y
<1> QED
  BY <1>2, <1>10, <1>11

LEMMA RecordNegativeSound ==
    ASSUME NEW b, NEW x, IndexSound(b, x), NEW k \in Key
    PROVE  LET y == RecordNegative(b, x, k)
           IN  /\ IndexSound(b, y) /\ SameNames(x, y)
               /\ y.negative \subseteq x.negative \cup {k}
<1> DEFINE y == RecordNegative(b, x, k)
<1>1. x \in Index /\ Alike(x)
  BY DEF IndexSound, Alike
<1>2. CASE k \in x.tombstones \/ x.child[k] # 0 \/ b.child[k] # 0
  <2>1. y = x
    BY <1>2 DEF RecordNegative
  <2> QED
    BY <2>1 DEF SameNames
<1>3. CASE ~(k \in x.tombstones \/ x.child[k] # 0 \/ b.child[k] # 0)
  <2> DEFINE u == DropFirst(x, x.expired)
             v == EraseNegative(u, k)
             z == IF Len(v.expiry) >= MaxNegative THEN DropFirst(v, 1) ELSE v
  <2>1. y = [z EXCEPT !.negative = @ \cup {k}, !.expiry = Append(@, k)]
    BY <1>3 DEF RecordNegative
  <2> HIDE DEF y
  <2>2. x.expired \in 0..Len(x.expiry)
    BY <1>1, IndexParts DEF Alike
  <2>3. Alike(u) /\ SameNames(x, u) /\ u.negative \subseteq x.negative
    BY <2>2, <1>1, DropFirstSound
  <2> HIDE DEF u
  <2>4. Alike(v) /\ SameNames(u, v) /\ v.negative = u.negative \ {k}
    BY <2>3, EraseNegativeSound
  <2> HIDE DEF v
  <2>5. v \in Index /\ Len(v.expiry) \in Nat /\ Len(v.expiry) <= MaxNegative
    BY <2>4, IndexParts DEF Alike
  <2>6. /\ Alike(z) /\ SameNames(v, z) /\ z.negative \subseteq v.negative
        /\ Len(z.expiry) < MaxNegative
    <3>1. CASE Len(v.expiry) >= MaxNegative
      <4>1. 1 \in 0..Len(v.expiry)
        BY <3>1, <2>5, IndexAssumption
      <4>2. /\ Alike(DropFirst(v, 1)) /\ SameNames(v, DropFirst(v, 1))
            /\ DropFirst(v, 1).negative \subseteq v.negative
            /\ Len(DropFirst(v, 1).expiry) = Len(v.expiry) - 1
        BY <4>1, <2>4, DropFirstSound
      <4> QED
        BY <4>2, <3>1, <2>5, IndexAssumption
    <3>2. CASE ~(Len(v.expiry) >= MaxNegative)
      BY <3>2, <2>4, <2>5, IndexAssumption DEF SameNames
    <3> QED
      BY <3>1, <3>2
  <2> HIDE DEF z
  <2>7. z \in Index /\ k \notin z.negative /\ z.negative \subseteq x.negative /\ SameNames(x, z)
    BY <2>3, <2>4, <2>6 DEF Alike, SameNames
  <2>8. /\ Append(z.expiry, k) \in Seq(Key) /\ Len(Append(z.expiry, k)) = Len(z.expiry) + 1
        /\ \A n \in 1..Len(z.expiry) : Append(z.expiry, k)[n] = z.expiry[n]
        /\ Append(z.expiry, k)[Len(z.expiry) + 1] = k
        /\ Len(z.expiry) \in Nat
    BY <2>7, IndexParts, AppendProperties
  <2>9. /\ y \in Index /\ SameNames(x, y) /\ y.expired = z.expired
        /\ y.negative = z.negative \cup {k} /\ y.expiry = Append(z.expiry, k)
    <3>1. y = [z EXCEPT !.negative = z.negative \cup {k}, !.expiry = Append(z.expiry, k)]
      BY <2>1
    <3>2. z.negative \cup {k} \in SUBSET Key
      BY <2>7, IndexParts
    <3>3. /\ y \in Index /\ y.child = z.child /\ y.tombstones = z.tombstones
          /\ y.node = z.node /\ y.hidden = z.hidden /\ y.expired = z.expired
          /\ y.negative = z.negative \cup {k} /\ y.expiry = Append(z.expiry, k)
      BY <3>1, <3>2, <2>7, <2>8 DEF Index
    <3> QED
      BY <3>3, <2>7 DEF SameNames
  <2>10. DOMAIN y.expiry = 1..(Len(z.expiry) + 1) /\ DOMAIN z.expiry = 1..Len(z.expiry)
    BY <2>7, <2>8, <2>9, IndexParts
  <2>11. y.expired <= Len(y.expiry) /\ Len(y.expiry) <= MaxNegative
    BY <2>6, <2>7, <2>8, <2>9, IndexParts, IndexAssumption DEF Alike
  <2>12. \A n \in 1..Len(z.expiry) : y.expiry[n] = z.expiry[n] /\ z.expiry[n] \in z.negative
    BY <2>6, <2>8, <2>9, <2>10 DEF Alike
  <2>13. y.expiry[Len(z.expiry) + 1] = k
    BY <2>8, <2>9
  <2>14. \A m, n \in DOMAIN y.expiry : y.expiry[m] = y.expiry[n] => m = n
    <3> SUFFICES ASSUME NEW m \in 1..(Len(z.expiry) + 1), NEW n \in 1..(Len(z.expiry) + 1),
                        y.expiry[m] = y.expiry[n]
                 PROVE  m = n
      BY <2>10
    <3>1. CASE m \in 1..Len(z.expiry) /\ n \in 1..Len(z.expiry)
      BY <3>1, <2>6, <2>10, <2>12 DEF Alike
    <3>2. CASE m = Len(z.expiry) + 1 \/ n = Len(z.expiry) + 1
      BY <3>2, <2>7, <2>8, <2>12, <2>13
    <3> QED
      BY <3>1, <3>2, <2>8
  <2>15. y.negative = {y.expiry[n] : n \in DOMAIN y.expiry}
    <3>1. ASSUME NEW e \in y.negative PROVE \E n \in DOMAIN y.expiry : e = y.expiry[n]
      <4>1. CASE e = k
        BY <4>1, <2>8, <2>10, <2>13
      <4>2. CASE e \in z.negative
        <5>1. PICK n \in 1..Len(z.expiry) : e = z.expiry[n]
          BY <4>2, <2>6, <2>10 DEF Alike
        <5> QED
          BY <5>1, <2>8, <2>10, <2>12
      <4> QED
        BY <4>1, <4>2, <2>9
    <3>2. ASSUME NEW n \in DOMAIN y.expiry PROVE y.expiry[n] \in y.negative
      BY <2>8, <2>9, <2>10, <2>12, <2>13
    <3> QED
      BY <3>1, <3>2
  <2>16. Alike(y)
    BY <2>9, <2>11, <2>14, <2>15 DEF Alike
  <2>17. \A l \in y.negative : l \notin y.tombstones /\ y.child[l] = 0 /\ b.child[l] = 0
    BY <2>7, <2>9, <1>3 DEF SameNames, IndexSound
  <2> QED
    BY <2>7, <2>9, <2>16, <2>17 DEF IndexSound, y
<1> QED
  BY <1>2, <1>3

LEMMA ExpireSound ==
    ASSUME NEW b, NEW x, IndexSound(b, x), x.expired < Len(x.expiry)
    PROVE  LET y == [x EXCEPT !.expired = @ + 1]
           IN  IndexSound(b, y) /\ SameNames(x, y) /\ y.negative = x.negative
<1> DEFINE y == [x EXCEPT !.expired = x.expired + 1]
<1>1. x \in Index /\ x.expired + 1 \in Nat
  BY IndexParts DEF IndexSound, Alike
<1>2. y \in Index /\ SameNames(x, y) /\ y.negative = x.negative /\ y.expiry = x.expiry
      /\ y.expired = x.expired + 1
  BY <1>1 DEF Index, SameNames
<1> HIDE DEF y
<1>3. Alike(y)
  BY <1>1, <1>2, IndexParts DEF Alike, IndexSound
<1> QED
  BY <1>2, <1>3 DEF IndexSound, SameNames, y
=============================================================================
