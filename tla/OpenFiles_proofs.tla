-------------------------- MODULE OpenFiles_proofs --------------------------
(***************************************************************************)
(* Proofs about OpenFiles, for any workers, files, handles and descriptors.*)
(***************************************************************************)
EXTENDS OpenFiles, FiniteSetTheorems, TLAPS

\* The types alone.
Types ==
    /\ provider \in [Files -> {"own", "staged"}]
    /\ fds \in [Fds -> Objects \cup {Closed}]
    /\ open_files \in [Handles -> OpenFile \cup {None}]
    /\ fd_lru_tick \in Nat
    /\ req \in [Workers -> Request]
    /\ \A w \in Workers : Idle(w) <=> req[w] = NoRequest

\* The requests that are about to prune.
Pruners == {w \in Workers : At(w, "prune")}

\* At most as many descriptors too many as there are such requests.
RetainedBounded == Cardinality(Retained) <= MAX_RETAINED_RO_FDS + Cardinality(Pruners)

\* An entry is for the file of its object; what can be written without a copy is the
\* target of writes, by an open descriptor.
EntrySound(h) ==
    LET e == open_files[h]
    IN  /\ e.object[1] = e.file
        /\ e.writable => e.fd # NoFd
        /\ e.writable /\ ~e.cow_pending => e.object = Target(e.file)

\* What a request knows of the entry it has copied, at each of its steps: the table may
\* have changed since, but not in what the rest of the request relies on.
RequestSound(w) ==
    LET r == req[w]
        e == open_files[r.h]
    IN  /\ r.fd # NoFd <=> r.at \in {"register", "retain", "close", "table", "swap"}
        /\ r.at = "register" =>
              /\ r.h \in Handles /\ open_files[r.h] = None
              /\ r.of \in OpenFile /\ r.of.fd = r.fd /\ r.of.writable
              /\ r.of.object[1] = r.of.file
              /\ ~r.of.cow_pending => r.of.object = Target(r.of.file)
        /\ r.at \notin {"idle", "register"} =>
              r.h \in Live /\ r.of \in OpenFile /\ e.file = r.of.file
        /\ r.at \in {"open", "retain", "touch", "prune"} => ~r.of.writable
        /\ r.at \in {"open", "retain"} /\ ~e.writable => e.object = r.of.object
        /\ r.at = "splice" /\ r.of.writable /\ ~r.of.cow_pending =>
              e.writable /\ ~e.cow_pending /\ e.fd = r.use /\ e.object = r.of.object
        /\ r.at \in {"cow", "close", "table"} => e.writable /\ e.cow_pending /\ e.fd = r.of.fd
        /\ r.at = "pwrite" => e.writable /\ ~e.cow_pending /\ e.fd = r.use
        /\ r.at = "resize" => e.object # Target(r.of.file)
        /\ r.at = "upgrade" => e.object = Target(r.of.file)
        /\ r.at = "swap" => ~e.writable
        /\ r.at = "ftruncate" => e.writable /\ e.object = Target(r.of.file)

\* The kernel's locks, and the values of fh.
LocksSound ==
    \A v, w \in Workers : Changing(v) /\ Changing(w) /\ req[v].of.file = req[w].of.file => v = w

\* A handle is registered by one request.
RegistersSound ==
    \A v, w \in Workers : At(v, "register") /\ At(w, "register") /\ req[v].h = req[w].h => v = w

\* Who may have a descriptor, the one it has, and what that is open on.
Parties == (Handles \X {"entry"}) \cup (Workers \X {"request"})

\* The descriptor of a party.
FdOf(x) == IF x[2] = "entry"
             THEN IF x[1] \in Live /\ ~Dangling(x[1]) THEN open_files[x[1]].fd ELSE NoFd
             ELSE req[x[1]].fd

\* What it has to be open on.
ObjectOf(x) == IF x[2] = "entry" THEN open_files[x[1]].object
               ELSE IF req[x[1]].at \in {"register", "retain"} THEN req[x[1]].of.object
               ELSE Target(req[x[1]].of.file)

\* Each open descriptor is one party's, and open on what that party expects.
FdsSound ==
    /\ \A x \in Parties : FdOf(x) # NoFd =>
          fds[FdOf(x)] = ObjectOf(x) /\ ObjectOf(x) # Closed
    /\ \A x, y \in Parties : FdOf(x) = FdOf(y) /\ FdOf(x) # NoFd => x = y
    /\ \A d \in Fds : fds[d] # Closed => \E x \in Parties : FdOf(x) = d

\* Entries, requests and descriptors agree with each other.
Sound ==
    /\ \A h \in Live : EntrySound(h)
    /\ \A w \in Workers : RequestSound(w)
    /\ LocksSound /\ RegistersSound /\ FdsSound

\* The inductive invariant.
Good == Types /\ RetainedBounded /\ Sound
-----------------------------------------------------------------------------
(* The descriptors.                                                         *)

\* A party of the same descriptor expects the same file of it.
KeepsFd(x) == FdOf(x)' = FdOf(x) /\ (FdOf(x) # NoFd => ObjectOf(x)' = ObjectOf(x))

\* Descriptor numbers tell the free ones from NoFd.
LEMMA FdTypes ==
  ASSUME Types
  PROVE  /\ NoFd \notin Fds
         /\ \A d \in Fds : fds[d] \in Objects \cup {Closed}
         /\ \A x \in Parties : FdOf(x) \in Fds \cup {NoFd}
         /\ \A x \in Parties : FdOf(x) # NoFd => FdOf(x) \in Fds
<1>1. NoFd \notin Fds
  BY OpenFilesAssumption DEF NoFd
<1>2. ASSUME NEW x \in Parties
      PROVE  FdOf(x) \in Fds \cup {NoFd}
  <2>1. CASE x[2] = "entry"
    <3>1. x[1] \in Live => open_files[x[1]] \in OpenFile
      BY DEF Types, Live
    <3>2. QED
      BY <2>1, <3>1 DEF FdOf, OpenFile
  <2>2. CASE x[2] # "entry"
    BY <2>2 DEF Parties, FdOf, Types, Request
  <2>3. QED
    BY <2>1, <2>2
<1>3. QED
  BY <1>1, <1>2 DEF Types

\* Descriptors are closed together with what their parties knew of them.
LEMMA FdsClosing ==
  ASSUME Types, FdsSound, NEW X,
         \A x \in Parties : IF x \in X THEN FdOf(x)' = NoFd ELSE KeepsFd(x),
         \A d \in Fds : fds'[d] = IF \E x \in X \cap Parties : FdOf(x) = d THEN Closed ELSE fds[d]
  PROVE  FdsSound'
<1>1. \A x \in Parties : FdOf(x)' # NoFd => x \notin X /\ FdOf(x)' = FdOf(x)
                                           /\ ObjectOf(x)' = ObjectOf(x)
  BY DEF KeepsFd
<1>2. ASSUME NEW x \in Parties, FdOf(x)' # NoFd
      PROVE  fds'[FdOf(x)'] = ObjectOf(x)' /\ ObjectOf(x)' # Closed
  <2>1. FdOf(x) \in Fds /\ fds[FdOf(x)] = ObjectOf(x) /\ ObjectOf(x) # Closed
    BY <1>1, <1>2, FdTypes DEF FdsSound
  <2>2. \A y \in X \cap Parties : FdOf(y) # FdOf(x)
    BY <1>1, <1>2 DEF FdsSound
  <2>3. QED
    BY <1>1, <1>2, <2>1, <2>2
<1>3. ASSUME NEW d \in Fds, fds'[d] # Closed
      PROVE  \E x \in Parties : FdOf(x)' = d
  <2>1. fds[d] # Closed /\ ~ \E x \in X \cap Parties : FdOf(x) = d
    BY <1>3
  <2>2. PICK x \in Parties : FdOf(x) = d
    BY <2>1 DEF FdsSound
  <2>3. QED
    BY <2>1, <2>2 DEF KeepsFd
<1>4. QED
  BY <1>1, <1>2, <1>3 DEF FdsSound, Parties

\* Nothing happens to a descriptor.
LEMMA FdsKept ==
  ASSUME Types, FdsSound, UNCHANGED fds, \A x \in Parties : KeepsFd(x)
  PROVE  FdsSound'
<1>1. \A x \in Parties : FdOf(x)' = FdOf(x)
  BY DEF KeepsFd
<1>2. QED
  BY <1>1 DEF FdsSound, KeepsFd, Parties

\* A free descriptor is opened for a party, and the one that it had before is closed.
LEMMA FdsOpening ==
  ASSUME Types, FdsSound, NEW x \in Parties, NEW d \in Fds, fds[d] = Closed,
         FdOf(x)' = d, ObjectOf(x)' \in Objects,
         \A y \in Parties \ {x} : KeepsFd(y),
         \A e \in Fds : fds'[e] = IF e = d THEN ObjectOf(x)'
                                  ELSE IF e = FdOf(x) THEN Closed ELSE fds[e]
  PROVE  FdsSound'
<1>1. \A y \in Parties : FdOf(y) # d
  BY FdTypes DEF FdsSound
<1>2. \A y \in Parties \ {x} : FdOf(y)' # NoFd =>
         FdOf(y)' = FdOf(y) /\ FdOf(y) \in Fds /\ ObjectOf(y)' = ObjectOf(y) /\ FdOf(y) # FdOf(x)
  BY FdTypes DEF KeepsFd, FdsSound
<1>3. ObjectOf(x)' # Closed
  BY OpenFilesAssumption DEF Objects
<1>4. ASSUME NEW y \in Parties, FdOf(y)' # NoFd
      PROVE  fds'[FdOf(y)'] = ObjectOf(y)' /\ ObjectOf(y)' # Closed
  <2>1. CASE y = x
    BY <1>3, <2>1
  <2>2. CASE y # x
    BY <1>1, <1>2, <1>4, <2>2 DEF FdsSound
  <2>3. QED
    BY <2>1, <2>2
<1>5. ASSUME NEW y \in Parties, NEW z \in Parties, FdOf(y)' = FdOf(z)', FdOf(y)' # NoFd
      PROVE  y = z
  BY <1>1, <1>2, <1>5 DEF FdsSound
<1>6. ASSUME NEW e \in Fds, fds'[e] # Closed
      PROVE  \E y \in Parties : FdOf(y)' = e
  <2>1. CASE e = d
    BY <2>1
  <2>2. CASE e # d
    <3>1. fds[e] # Closed /\ e # FdOf(x)
      BY <1>6, <2>2
    <3>2. PICK y \in Parties : FdOf(y) = e
      BY <3>1 DEF FdsSound
    <3>3. QED
      BY <3>1, <3>2 DEF KeepsFd
  <2>3. QED
    BY <2>1, <2>2
<1>7. QED
  BY <1>4, <1>5, <1>6 DEF FdsSound, Parties

\* A party hands its descriptor to another, and the one that had before is closed.
LEMMA FdsHanding ==
  ASSUME Types, FdsSound, NEW x \in Parties, NEW y \in Parties, x # y,
         FdOf(y) # NoFd, FdOf(y)' = NoFd, FdOf(x)' = FdOf(y), ObjectOf(x)' = ObjectOf(y),
         \A z \in Parties \ {x, y} : KeepsFd(z),
         \A e \in Fds : fds'[e] = IF e = FdOf(x) THEN Closed ELSE fds[e]
  PROVE  FdsSound'
<1>1. \A z \in Parties \ {x, y} : FdOf(z)' # NoFd =>
         /\ FdOf(z)' = FdOf(z) /\ FdOf(z) \in Fds /\ ObjectOf(z)' = ObjectOf(z)
         /\ FdOf(z) # FdOf(x) /\ FdOf(z) # FdOf(y)
  BY FdTypes DEF KeepsFd, FdsSound
<1>2. FdOf(y) \in Fds /\ FdOf(y) # FdOf(x) /\ fds[FdOf(y)] = ObjectOf(y) /\ ObjectOf(y) # Closed
  BY FdTypes DEF FdsSound
<1>3. ASSUME NEW z \in Parties, FdOf(z)' # NoFd
      PROVE  fds'[FdOf(z)'] = ObjectOf(z)' /\ ObjectOf(z)' # Closed
  <2>1. CASE z = x
    BY <1>2, <2>1
  <2>2. CASE z # x
    BY <1>1, <1>3, <2>2 DEF FdsSound
  <2>3. QED
    BY <2>1, <2>2
<1>4. ASSUME NEW u \in Parties, NEW z \in Parties, FdOf(u)' = FdOf(z)', FdOf(u)' # NoFd
      PROVE  u = z
  BY <1>1, <1>4 DEF FdsSound
<1>5. ASSUME NEW e \in Fds, fds'[e] # Closed
      PROVE  \E z \in Parties : FdOf(z)' = e
  <2>1. fds[e] # Closed /\ e # FdOf(x)
    BY <1>5
  <2>2. PICK z \in Parties : FdOf(z) = e
    BY <2>1 DEF FdsSound
  <2>3. CASE z = y
    BY <2>2, <2>3
  <2>4. CASE z # y
    BY <2>1, <2>2, <2>4 DEF KeepsFd
  <2>5. QED
    BY <2>3, <2>4
<1>6. QED
  BY <1>3, <1>4, <1>5 DEF FdsSound, Parties

-----------------------------------------------------------------------------
(* The requests.                                                            *)

\* An entry changes in nothing that a request that holds the inode lock relies on.
Mild(h) ==
    LET e == open_files[h]
        f == open_files'[h]
    IN  /\ f.file = e.file /\ f.object = e.object /\ f.writable = e.writable
        /\ f.cow_pending = e.cow_pending /\ (e.writable => f.fd = e.fd)

\* Nor, under the lock, in anything that a read relies on.
Firm(h) ==
    LET e == open_files[h]
        f == open_files'[h]
    IN  /\ f.file = e.file
        /\ ~f.writable => ~e.writable /\ f.object = e.object
        /\ e.writable /\ ~e.cow_pending =>
              f.writable /\ ~f.cow_pending /\ f.fd = e.fd /\ f.object = e.object

\* What a step of w may do to the entry of h.
EntryStep(w, h) ==
    \/ open_files'[h] = open_files[h]
    \/ /\ open_files[h] = None /\ h \in Live'
       /\ \A v \in Workers \ {w} : At(v, "register") => req[v].h # h
    \/ h \in Live /\ h \in Live' /\ Mild(h)
    \/ h \in Live /\ h \in Live' /\ Firm(h) /\ Changing(w) /\ req[w].h = h

\* The other requests still find what they rely on.
LEMMA OtherRequests ==
  ASSUME Types, Sound, NEW w \in Workers, NEW v \in Workers \ {w}, req'[v] = req[v],
         \A h \in Handles : EntryStep(w, h)
  PROVE  RequestSound(v)'
<1> DEFINE h == req[v].h
<1>1. RequestSound(v) /\ req[v] \in Request
  BY DEF Sound, Types
<1>2. CASE At(v, "idle")
  BY <1>1, <1>2 DEF RequestSound, At
<1>3. CASE At(v, "register")
  <2>1. h \in Handles /\ open_files[h] = None
    BY <1>1, <1>3 DEF RequestSound, At
  <2>2. open_files'[h] = None
    BY <1>3, <2>1 DEF EntryStep, Live
  <2>3. QED
    BY <1>1, <1>3, <2>2 DEF RequestSound, At
<1>4. CASE ~At(v, "idle") /\ ~At(v, "register")
  <2>1. h \in Live /\ open_files[h].file = req[v].of.file
    BY <1>1, <1>4 DEF RequestSound, At
  <2>2. h \in Handles /\ open_files[h] # None
    BY <2>1 DEF Live
  <2>3. CASE open_files'[h] = open_files[h]
    <3>1. h \in Live'
      BY <2>2, <2>3 DEF Live
    <3>2. QED
      BY <1>1, <1>4, <2>3, <3>1 DEF RequestSound, At
  <2>4. CASE h \in Live' /\ Mild(h)
    BY <1>1, <1>4, <2>4 DEF RequestSound, At, Mild
  <2>5. CASE h \in Live' /\ Firm(h) /\ Changing(w) /\ req[w].h = h
    <3>1. open_files[h].file = req[w].of.file
      <4>1. RequestSound(w)
        BY DEF Sound
      <4>2. QED
        BY <2>5, <4>1 DEF RequestSound, Changing
    <3>2. ~Changing(v)
      BY <2>1, <2>5, <3>1 DEF Sound, LocksSound
    <3>3. QED
      BY SMTT(30), <1>1, <1>4, <2>5, <3>2 DEF RequestSound, At, Firm, Changing
  <2>6. QED
    BY <2>2, <2>3, <2>4, <2>5 DEF EntryStep
<1>5. QED
  BY <1>2, <1>3, <1>4

\* One request goes a step: what it needs to show is about itself.
LEMMA OneRequest ==
  ASSUME Types, Sound, NEW w \in Workers, NEW r \in Request, req' = [req EXCEPT ![w] = r],
         \A h \in Handles : EntryStep(w, h),
         RequestSound(w)',
         Changing(w)' => \/ Changing(w) /\ r.of = req[w].of
                         \/ ~InodeLocked(r.of.file),
         At(w, "register")' => \A v \in Workers \ {w} : At(v, "register") => req[v].h # r.h
  PROVE  (\A v \in Workers : RequestSound(v)') /\ LocksSound' /\ RegistersSound'
<1>1. req'[w] = r /\ \A v \in Workers \ {w} : req'[v] = req[v]
  BY DEF Types
<1>2. \A v \in Workers : RequestSound(v)'
  BY <1>1, OtherRequests
<1>3. \A v \in Workers \ {w} : Changing(v)' = Changing(v) /\ At(v, "register")' = At(v, "register")
  BY <1>1 DEF Changing, At
<1>4. LocksSound'
  BY <1>1, <1>3 DEF LocksSound, Sound, InodeLocked
<1>5. RegistersSound'
  BY <1>1, <1>3 DEF RegistersSound, Sound
<1>6. QED
  BY <1>2, <1>4, <1>5

-----------------------------------------------------------------------------
(* What the steps have in common.                                           *)

\* The number of retained descriptors, by how the set changes.
LEMMA RetainedChanges ==
  ASSUME RetainedBounded
  PROVE  /\ Retained' \subseteq Retained /\ Pruners \subseteq Pruners' => RetainedBounded'
         /\ \A h, w : /\ Retained' \subseteq Retained \cup {h}
                      /\ w \in Workers \ Pruners /\ Pruners' = Pruners \cup {w}
                      => RetainedBounded'
         /\ Cardinality(Retained') <= MAX_RETAINED_RO_FDS => RetainedBounded'
<1>1. /\ IsFiniteSet(Retained) /\ IsFiniteSet(Retained')
      /\ IsFiniteSet(Pruners) /\ IsFiniteSet(Pruners')
  BY OpenFilesAssumption, FS_Subset DEF Retained, Live, Pruners
<1>2. /\ Cardinality(Retained) \in Nat /\ Cardinality(Retained') \in Nat
      /\ Cardinality(Pruners) \in Nat /\ Cardinality(Pruners') \in Nat
      /\ MAX_RETAINED_RO_FDS \in Nat
  BY <1>1, FS_CardinalityType, OpenFilesAssumption
<1>3. ASSUME Retained' \subseteq Retained, Pruners \subseteq Pruners'
      PROVE  RetainedBounded'
  <2>1. Cardinality(Retained') <= Cardinality(Retained)
    BY <1>1, <1>3, FS_Subset
  <2>2. Cardinality(Pruners) <= Cardinality(Pruners')
    BY <1>1, <1>3, FS_Subset
  <2>3. QED
    BY <1>2, <2>1, <2>2 DEF RetainedBounded
<1>4. ASSUME NEW h, NEW w, Retained' \subseteq Retained \cup {h},
             w \in Workers \ Pruners, Pruners' = Pruners \cup {w}
      PROVE  RetainedBounded'
  <2>1. /\ IsFiniteSet(Retained \cup {h}) /\ Cardinality(Retained \cup {h}) \in Nat
        /\ Cardinality(Retained \cup {h}) <= Cardinality(Retained) + 1
    <3>1. /\ IsFiniteSet(Retained \cup {h})
          /\ Cardinality(Retained \cup {h}) =
               IF h \in Retained THEN Cardinality(Retained) ELSE Cardinality(Retained) + 1
      BY <1>1, FS_AddElement
    <3>2. QED
      BY <1>2, <3>1
  <2>2. Cardinality(Retained') <= Cardinality(Retained \cup {h})
    BY <1>4, <2>1, FS_Subset
  <2>3. Cardinality(Pruners') = Cardinality(Pruners) + 1
    BY <1>1, <1>4, FS_AddElement
  <2>4. QED
    BY <1>2, <2>1, <2>2, <2>3 DEF RetainedBounded
<1>5. Cardinality(Retained') <= MAX_RETAINED_RO_FDS => RetainedBounded'
  BY <1>2 DEF RetainedBounded
<1>6. QED
  BY <1>3, <1>4, <1>5

\* A request other than w's keeps its descriptor; an entry does that keeps its descriptor
\* and object and is not in the middle of a copy before or after.
LEMMA PartiesKept ==
  ASSUME Types, NEW w \in Workers, NEW r, req' = [req EXCEPT ![w] = r]
  PROVE  /\ \A v \in Workers \ {w} : KeepsFd(<<v, "request">>)
         /\ \A h \in Handles : \/ ~At(w, "table") /\ r.at # "table"
                               \/ req[w].h # h /\ r.h # h
                => (Dangling(h)' <=> Dangling(h))
         /\ \A h \in Handles :
              /\ Dangling(h)' <=> Dangling(h)
              /\ \/ open_files'[h] = open_files[h]
                 \/ /\ h \in Live /\ h \in Live' /\ open_files'[h].fd = open_files[h].fd
                    /\ open_files'[h].object = open_files[h].object
              => KeepsFd(<<h, "entry">>)
<1>1. req'[w] = r /\ \A v \in Workers \ {w} : req'[v] = req[v]
  BY DEF Types
<1>2. \A v \in Workers \ {w} : KeepsFd(<<v, "request">>)
  BY <1>1 DEF KeepsFd, FdOf, ObjectOf
<1>3. ASSUME NEW h \in Handles,
             \/ ~At(w, "table") /\ r.at # "table"
             \/ req[w].h # h /\ r.h # h
      PROVE  Dangling(h)' <=> Dangling(h)
  <2>1. \A v \in Workers : (At(v, "table") /\ req[v].h = h)' <=> At(v, "table") /\ req[v].h = h
    BY <1>1, <1>3 DEF At
  <2>2. QED
    BY <2>1 DEF Dangling
<1>4. ASSUME NEW h \in Handles, Dangling(h)' <=> Dangling(h),
             \/ open_files'[h] = open_files[h]
             \/ /\ h \in Live /\ h \in Live' /\ open_files'[h].fd = open_files[h].fd
                /\ open_files'[h].object = open_files[h].object
      PROVE  KeepsFd(<<h, "entry">>)
  <2>1. h \in Live' <=> h \in Live
    BY <1>4 DEF Live
  <2> DEFINE x == <<h, "entry">>
  <2>2. FdOf(x) = IF h \in Live /\ ~Dangling(h) THEN open_files[h].fd ELSE NoFd
    BY DEF FdOf
  <2>3. FdOf(x)' = IF h \in Live' /\ ~Dangling(h)' THEN open_files'[h].fd ELSE NoFd
    BY DEF FdOf
  <2>4. ObjectOf(x) = open_files[h].object /\ ObjectOf(x)' = open_files'[h].object
    BY DEF ObjectOf
  <2>5. QED
    BY <1>4, <2>1, <2>2, <2>3, <2>4 DEF KeepsFd
<1>5. QED
  BY <1>2, <1>3, <1>4

\* The entry of a request that holds the inode lock is not in the middle of a copy, unless
\* by that request; nor is one that cannot be written, or that nobody uses.
LEMMA NotDangling ==
  ASSUME Sound, NEW h \in Handles
  PROVE  /\ \A w \in Workers : Changing(w) /\ req[w].h = h /\ ~At(w, "table") => ~Dangling(h)
         /\ ~open_files[h].writable \/ ~open_files[h].cow_pending => ~Dangling(h)
         /\ ~Used(h) => ~Dangling(h)
<1>1. ASSUME NEW w \in Workers, Changing(w), req[w].h = h, ~At(w, "table"), Dangling(h)
      PROVE  FALSE
  <2>1. PICK v \in Workers : At(v, "table") /\ req[v].h = h
    BY <1>1 DEF Dangling
  <2>2. RequestSound(v) /\ RequestSound(w)
    BY DEF Sound
  <2>3. req[v].of.file = open_files[h].file /\ req[w].of.file = open_files[h].file
    BY <1>1, <2>1, <2>2 DEF RequestSound, At, Changing
  <2>4. v = w
    BY <1>1, <2>1, <2>3 DEF Sound, LocksSound, Changing, At
  <2>5. QED
    BY <1>1, <2>1, <2>4
<1>2. ASSUME Dangling(h)
      PROVE  open_files[h].writable /\ open_files[h].cow_pending
  BY <1>2 DEF Dangling, Sound, RequestSound, At
<1>3. ASSUME ~Used(h)
      PROVE  ~Dangling(h)
  BY <1>3 DEF Dangling, Used
<1>4. QED
  BY <1>1, <1>2, <1>3

\* A step of a request that leaves the table and the descriptors alone.
LEMMA QuietStep ==
  ASSUME Good, NEW w \in Workers, NEW r \in Request, req' = [req EXCEPT ![w] = r],
         UNCHANGED <<fds, open_files>>, provider' \in [Files -> {"own", "staged"}],
         fd_lru_tick' \in Nat,
         req[w].fd = NoFd, r.fd = NoFd, ~At(w, "table"), ~At(w, "prune"), r.at # "table",
         r.at = "idle" <=> r = NoRequest,
         RequestSound(w)',
         Changing(w)' => \/ Changing(w) /\ r.of = req[w].of
                         \/ ~InodeLocked(r.of.file)
  PROVE  Good'
<1>1. Types /\ Sound /\ RetainedBounded
  BY DEF Good
<1>2. req'[w] = r /\ \A v \in Workers \ {w} : req'[v] = req[v]
  BY <1>1 DEF Types
<1>3. Types'
  BY <1>1, <1>2 DEF Types, Idle
<1>4. r.at # "register"
  BY <1>2 DEF RequestSound
<1>5. (\A v \in Workers : RequestSound(v)') /\ LocksSound' /\ RegistersSound'
  <2>1. \A h \in Handles : EntryStep(w, h)
    BY DEF EntryStep
  <2>2. ~At(w, "register")'
    BY <1>2, <1>4 DEF At
  <2>3. QED
    BY <1>1, <2>1, <2>2, OneRequest
<1>6. FdsSound'
  <2>1. \A x \in Parties : KeepsFd(x)
    <3>1. KeepsFd(<<w, "request">>)
      BY <1>2 DEF KeepsFd, FdOf
    <3>2. \A h \in Handles : KeepsFd(<<h, "entry">>)
      BY <1>1, PartiesKept
    <3>3. \A v \in Workers : KeepsFd(<<v, "request">>)
      BY <1>1, <3>1, PartiesKept
    <3>4. QED
      BY <3>2, <3>3 DEF Parties
  <2>2. QED
    BY <1>1, <2>1, FdsKept DEF Sound
<1>7. RetainedBounded'
  <2>1. Retained' = Retained
    BY DEF Retained, Live
  <2>2. Pruners \subseteq Pruners'
    BY <1>2 DEF Pruners, At
  <2>3. QED
    BY <1>1, <2>1, <2>2, RetainedChanges
<1>8. \A h \in Live' : EntrySound(h)'
  BY <1>1 DEF Sound, EntrySound, Live, Target
<1>9. QED
  BY <1>3, <1>5, <1>6, <1>7, <1>8 DEF Good, Sound

\* Requests begin, read, write, fail and end without changing the table.
LEMMA QuietRequests ==
  ASSUME Good, NEW w \in Workers,
         \/ \E h \in Handles : ReadBegins(w, h) \/ WriteBegins(w, h) \/ ResizeBegins(w, h)
         \/ ReadOpenFails(w) \/ Splices(w) \/ CopyOpenFails(w) \/ Writes(w) \/ ResizeFails(w)
         \/ Resizes(w)
  PROVE  Good'
<1>1. Types /\ Sound /\ RequestSound(w) /\ \A h \in Live : EntrySound(h) /\ open_files[h] \in OpenFile
  BY DEF Good, Sound, Types, Live
<1>2. NoRequest \in Request /\ NoRequest.at = "idle" /\ NoRequest.fd = NoFd
  BY DEF NoRequest, Request, Steps
<1>3. ASSUME NEW r \in Request, req' = [req EXCEPT ![w] = r]
      PROVE  req'[w] = r
  BY <1>1, <1>3 DEF Types
<1>4. ASSUME Idle(w), NEW h \in Live, UNCHANGED <<provider, fds, open_files, fd_lru_tick>>,
             NEW r \in Request, req' = [req EXCEPT ![w] = r],
             r.fd = NoFd, r.h = h, r.of = open_files[h], r.use = open_files[h].fd \/ r.at # "splice",
             \/ r.at = "open" /\ ~open_files[h].writable
             \/ r.at = "touch" /\ ~open_files[h].writable
             \/ r.at = "splice"
             \/ r.at = "cow" /\ open_files[h].writable /\ open_files[h].cow_pending
             \/ r.at = "pwrite" /\ open_files[h].writable /\ ~open_files[h].cow_pending
                /\ r.use = open_files[h].fd
             \/ r.at = "resize" /\ open_files[h].object # Target(open_files[h].file)
             \/ r.at = "upgrade" /\ open_files[h].object = Target(open_files[h].file),
             r.at \in {"cow", "pwrite", "resize", "upgrade"} => ~InodeLocked(open_files[h].file)
      PROVE  Good'
  <2>1. req'[w] = r /\ req[w].fd = NoFd
    BY <1>1, <1>2, <1>3, <1>4 DEF Types
  <2>2. h \in Handles /\ h \in Live' /\ open_files[h] \in OpenFile
    BY <1>1, <1>4 DEF Live
  <2>3. RequestSound(w)'
    BY <1>4, <2>1, <2>2 DEF RequestSound, Target
  <2>4. Changing(w)' => ~InodeLocked(r.of.file)
    BY <1>4, <2>1 DEF Changing
  <2>5. r.at # "idle" /\ r.at # "table"
    BY <1>4
  <2>6. r # NoRequest
    BY <1>2, <2>5
  <2>7. ~At(w, "table") /\ ~At(w, "prune")
    BY <1>4 DEF Idle, At
  <2>8. provider' \in [Files -> {"own", "staged"}] /\ fd_lru_tick' \in Nat
    BY <1>1, <1>4 DEF Types
  <2>9. QED
    BY <1>4, <2>1, <2>3, <2>4, <2>5, <2>6, <2>7, <2>8, QuietStep
<1>5. ASSUME UNCHANGED <<fds, open_files, fd_lru_tick>>, Reply(w),
             provider' \in [Files -> {"own", "staged"}],
             req[w].at \in {"open", "splice", "cow", "pwrite", "resize", "upgrade", "ftruncate"}
      PROVE  Good'
  <2>1. req' = [req EXCEPT ![w] = NoRequest] /\ req'[w] = NoRequest /\ req[w].fd = NoFd
    BY <1>1, <1>2, <1>3, <1>5 DEF Reply, RequestSound
  <2>2. RequestSound(w)' /\ ~Changing(w)'
    BY <1>2, <2>1 DEF RequestSound, Changing
  <2>3. ~At(w, "table") /\ ~At(w, "prune") /\ fd_lru_tick' \in Nat
    BY <1>1, <1>5 DEF At, Types
  <2>4. QED
    BY <1>2, <1>5, <2>1, <2>2, <2>3, QuietStep
<1>6. ASSUME NEW h \in Handles, ReadBegins(w, h)
      PROVE  Good'
  <2> DEFINE of == open_files[h]
             r  == [at |-> CASE of.fd = NoFd -> "open"
                             [] of.fd # NoFd /\ ~of.writable -> "touch"
                             [] OTHER -> "splice",
                    h |-> h, of |-> of, fd |-> NoFd, use |-> of.fd, tick |-> 0]
  <2>1. Idle(w) /\ h \in Live /\ UNCHANGED <<provider, fds, open_files, fd_lru_tick>>
        /\ req' = [req EXCEPT ![w] = r]
    BY <1>6 DEF ReadBegins
  <2>2. of \in OpenFile /\ of.fd \in Fds \cup {NoFd} /\ (of.writable => of.fd # NoFd)
    BY <1>1, <2>1 DEF OpenFile, EntrySound
  <2>3. r.at \in {"open", "touch", "splice"} /\ r.h = h /\ r.of = of /\ r.fd = NoFd /\ r.use = of.fd
        /\ (r.at = "open" => of.fd = NoFd) /\ (r.at = "touch" => ~of.writable)
    OBVIOUS
  <2>4. r \in Request
    BY <2>2, <2>3 DEF Request, Steps
  <2> HIDE DEF r
  <2>5. QED
    BY <1>4, <2>1, <2>2, <2>3, <2>4
<1>7. ASSUME NEW h \in Handles, WriteBegins(w, h)
      PROVE  Good'
  <2> DEFINE of == open_files[h]
             r  == [at |-> IF of.cow_pending THEN "cow" ELSE "pwrite",
                    h |-> h, of |-> of, fd |-> NoFd, use |-> of.fd, tick |-> 0]
  <2>1. Idle(w) /\ h \in Live /\ UNCHANGED <<provider, fds, open_files, fd_lru_tick>>
        /\ of.writable /\ ~InodeLocked(of.file) /\ req' = [req EXCEPT ![w] = r]
    BY <1>7 DEF WriteBegins
  <2>2. of \in OpenFile /\ of.fd \in Fds \cup {NoFd}
    BY <1>1, <2>1 DEF OpenFile
  <2>3. r.at = (IF of.cow_pending THEN "cow" ELSE "pwrite")
        /\ r.h = h /\ r.of = of /\ r.fd = NoFd /\ r.use = of.fd
    OBVIOUS
  <2>4. r \in Request
    BY <2>2, <2>3 DEF Request, Steps
  <2> HIDE DEF r
  <2>5. QED
    BY <1>4, <2>1, <2>2, <2>3, <2>4
<1>8. ASSUME NEW h \in Handles, ResizeBegins(w, h)
      PROVE  Good'
  <2> DEFINE of == open_files[h]
             r  == [at |-> IF of.object = Target(of.file) THEN "upgrade" ELSE "resize",
                    h |-> h, of |-> of, fd |-> NoFd, use |-> NoFd, tick |-> 0]
  <2>1. Idle(w) /\ h \in Live /\ UNCHANGED <<provider, fds, open_files, fd_lru_tick>>
        /\ ~InodeLocked(of.file) /\ req' = [req EXCEPT ![w] = r]
    BY <1>8 DEF ResizeBegins
  <2>2. of \in OpenFile
    BY <1>1, <2>1
  <2>3. r.at = (IF of.object = Target(of.file) THEN "upgrade" ELSE "resize")
        /\ r.h = h /\ r.of = of /\ r.fd = NoFd
    OBVIOUS
  <2>4. r \in Request
    BY <2>2, <2>3 DEF Request, Steps
  <2> HIDE DEF r
  <2>5. QED
    BY <1>4, <2>1, <2>2, <2>3, <2>4
<1>9. ASSUME ReadOpenFails(w) \/ Splices(w) \/ CopyOpenFails(w) \/ Writes(w) \/ ResizeFails(w)
      PROVE  Good'
  <2>1. provider' \in [Files -> {"own", "staged"}]
    BY <1>1, <1>9 DEF Types, ReadOpenFails, Splices, CopyOpenFails, Writes, ResizeFails
  <2>2. QED
    BY <1>5, <1>9, <2>1 DEF ReadOpenFails, Splices, CopyOpenFails, Writes, ResizeFails, At
<1>10. ASSUME Resizes(w)
       PROVE  Good'
  <2>1. provider' \in [Files -> {"own", "staged"}]
    BY <1>1, <1>10 DEF Types, Resizes, Target
  <2>2. QED
    BY <1>5, <1>10, <2>1 DEF Resizes, At
<1>11. QED
  BY <1>6, <1>7, <1>8, <1>9, <1>10

-----------------------------------------------------------------------------
(* The steps that change the table or the descriptors.                      *)

\* What a step of one request has to show.
LEMMA OneStep ==
  ASSUME Good, NEW w \in Workers, NEW r \in Request, req' = [req EXCEPT ![w] = r],
         r.at = "idle" <=> r = NoRequest,
         provider' \in [Files -> {"own", "staged"}], fd_lru_tick' \in Nat,
         fds' \in [Fds -> Objects \cup {Closed}],
         open_files' \in [Handles -> OpenFile \cup {None}],
         \A h \in Handles : EntryStep(w, h),
         \A h \in Live' : open_files'[h] = open_files[h] \/ EntrySound(h)',
         RequestSound(w)',
         Changing(w)' => \/ Changing(w) /\ r.of = req[w].of
                         \/ ~InodeLocked(r.of.file),
         r.at = "register" => \A v \in Workers \ {w} : At(v, "register") => req[v].h # r.h,
         RetainedBounded', FdsSound'
  PROVE  Good'
<1>1. Types /\ Sound
  BY DEF Good
<1>2. req'[w] = r /\ \A v \in Workers \ {w} : req'[v] = req[v]
  BY <1>1 DEF Types
<1>3. Types'
  BY <1>1, <1>2 DEF Types, Idle
<1>4. At(w, "register")' <=> r.at = "register"
  BY <1>2 DEF At
<1>5. (\A v \in Workers : RequestSound(v)') /\ LocksSound' /\ RegistersSound'
  BY <1>1, <1>4, OneRequest
<1>6. ASSUME NEW h \in Live'
      PROVE  EntrySound(h)'
  <2>1. CASE open_files'[h] = open_files[h]
    <3>1. h \in Live
      BY <1>6, <2>1 DEF Live
    <3>2. EntrySound(h)
      BY <1>1, <3>1 DEF Sound
    <3>3. QED
      BY <2>1, <3>2 DEF EntrySound, Target
  <2>2. QED
    BY <2>1
<1>7. QED
  BY <1>3, <1>5, <1>6 DEF Good, Sound

\* Entries and requests are the parties, and differ.
LEMMA PartyOf ==
  ASSUME NEW h \in Handles, NEW w \in Workers
  PROVE  /\ <<h, "entry">> \in Parties /\ <<w, "request">> \in Parties
         /\ <<h, "entry">> # <<w, "request">>
         /\ FdOf(<<w, "request">>) = req[w].fd /\ FdOf(<<w, "request">>)' = req'[w].fd
         /\ FdOf(<<h, "entry">>) = IF h \in Live /\ ~Dangling(h) THEN open_files[h].fd ELSE NoFd
         /\ FdOf(<<h, "entry">>)' = IF h \in Live' /\ ~Dangling(h)' THEN open_files'[h].fd ELSE NoFd
         /\ ObjectOf(<<h, "entry">>) = open_files[h].object
         /\ ObjectOf(<<h, "entry">>)' = open_files'[h].object
BY DEF Parties, FdOf, ObjectOf

\* A handle for reading is created.
LEMMA OpenForReadingGood ==
  ASSUME Good, NEW w \in Workers, NEW f \in Files, NEW h \in Handles, OpenForReading(w, f, h)
  PROVE  Good'
<1> DEFINE e == [file |-> f, object |-> <<f, provider[f]>>, fd |-> NoFd, writable |-> FALSE,
                 cow_pending |-> FALSE, last_read_tick |-> 0]
<1>1. Types /\ Sound /\ RetainedBounded
  BY DEF Good
<1>2. Idle(w) /\ IsNextHandle(h) /\ open_files' = [open_files EXCEPT ![h] = e]
      /\ UNCHANGED <<provider, fds, fd_lru_tick, req>>
  BY DEF OpenForReading
<1>3. e \in OpenFile /\ e.fd = NoFd /\ ~e.writable /\ e.object[1] = e.file
  BY <1>1 DEF Types, OpenFile, Objects
<1> HIDE DEF e
<1>4. req[w] \in Request /\ req' = [req EXCEPT ![w] = req[w]] /\ req[w] = NoRequest
  BY <1>1, <1>2 DEF Types
<1>5. /\ open_files' \in [Handles -> OpenFile \cup {None}] /\ open_files'[h] = e
      /\ \A g \in Handles \ {h} : open_files'[g] = open_files[g]
  BY <1>1, <1>2, <1>3 DEF Types
<1>6. open_files[h] = None /\ h \notin Live /\ h \in Live'
      /\ \A v \in Workers : At(v, "register") => req[v].h # h
  BY <1>2, <1>3, <1>5, NoneAssumption DEF IsNextHandle, Live
<1>7. \A g \in Handles : EntryStep(w, g)
  BY <1>5, <1>6 DEF EntryStep
<1>8. \A g \in Live' : open_files'[g] = open_files[g] \/ EntrySound(g)'
  BY <1>3, <1>5 DEF Live, EntrySound
<1>9. RequestSound(w)'
  BY <1>2, <1>4 DEF RequestSound, NoRequest
<1>10. FdsSound'
  <2>1. KeepsFd(<<h, "entry">>)
    BY <1>3, <1>5, <1>6, PartyOf DEF KeepsFd
  <2>2. \A g \in Handles \ {h} : KeepsFd(<<g, "entry">>)
    <3>1. \A g \in Handles : Dangling(g)' <=> Dangling(g)
      BY <1>2 DEF Dangling, At
    <3>2. QED
      BY <1>1, <1>4, <1>5, <3>1, PartiesKept
  <2>3. \A v \in Workers : KeepsFd(<<v, "request">>)
    BY <1>2 DEF KeepsFd, FdOf, ObjectOf, Target
  <2>4. \A x \in Parties : KeepsFd(x)
    BY <2>1, <2>2, <2>3 DEF Parties
  <2>5. QED
    BY <1>1, <1>2, <2>4, FdsKept DEF Sound
<1>11. RetainedBounded'
  <2>1. Retained' \subseteq Retained
    BY <1>3, <1>5 DEF Retained, Live
  <2>2. Pruners' = Pruners
    BY <1>2 DEF Pruners, At
  <2>3. QED
    BY <1>1, <2>1, <2>2, RetainedChanges
<1>12. ~Changing(w)' /\ req[w].at = "idle"
  BY <1>2, <1>4 DEF Changing, NoRequest
<1>13. provider' \in [Files -> {"own", "staged"}] /\ fd_lru_tick' \in Nat
       /\ fds' \in [Fds -> Objects \cup {Closed}]
  BY <1>1, <1>2 DEF Types
<1>14. QED
  BY <1>4, <1>5, <1>7, <1>8, <1>9, <1>10, <1>11, <1>12, <1>13, OneStep

\* A free descriptor is opened for a request that has none.
LEMMA RequestOpens ==
  ASSUME Good, NEW w \in Workers, NEW r \in Request, req' = [req EXCEPT ![w] = r],
         NEW d \in Fds, IsNextFd(d), NEW o \in Objects, fds' = [fds EXCEPT ![d] = o],
         UNCHANGED open_files, provider' \in [Files -> {"own", "staged"}], fd_lru_tick' \in Nat,
         req[w].fd = NoFd, r.fd = d, ~At(w, "table"), ~At(w, "prune"),
         r.at \in {"register", "retain", "close", "swap"},
         o = IF r.at \in {"register", "retain"} THEN r.of.object ELSE Target(r.of.file),
         RequestSound(w)',
         Changing(w)' => Changing(w) /\ r.of = req[w].of,
         r.at = "register" => \A v \in Workers \ {w} : At(v, "register") => req[v].h # r.h
  PROVE  Good'
<1>1. Types /\ Sound /\ RetainedBounded
  BY DEF Good
<1>2. req'[w] = r /\ \A v \in Workers \ {w} : req'[v] = req[v]
  BY <1>1 DEF Types
<1> DEFINE x == <<w, "request">>
<1>3. x \in Parties /\ FdOf(x) = NoFd /\ FdOf(x)' = d /\ ObjectOf(x)' = o
  <2>1. ObjectOf(x)' = IF req'[w].at \in {"register", "retain"} THEN req'[w].of.object
                       ELSE Target(req'[w].of.file)
    BY DEF ObjectOf, Target
  <2>2. QED
    BY <1>2, <2>1 DEF Parties, FdOf
<1> HIDE DEF x
<1>4. \A y \in Parties \ {x} : KeepsFd(y)
  <2>1. \A h \in Handles : KeepsFd(<<h, "entry">>)
    BY <1>1, PartiesKept
  <2>2. \A v \in Workers \ {w} : KeepsFd(<<v, "request">>)
    BY <1>1, PartiesKept
  <2>3. QED
    BY <2>1, <2>2 DEF Parties, x
<1>5. FdsSound'
  <2>1. fds[d] = Closed
    BY DEF IsNextFd, FreeFds
  <2>2. \A e \in Fds : fds'[e] = IF e = d THEN ObjectOf(x)'
                                 ELSE IF e = FdOf(x) THEN Closed ELSE fds[e]
    BY <1>1, <1>3, FdTypes DEF Types
  <2>3. QED
    BY <1>1, <1>3, <1>4, <2>1, <2>2, FdsOpening DEF Sound
<1>6. RetainedBounded'
  <2>1. Retained' = Retained
    BY DEF Retained, Live
  <2>2. Pruners \subseteq Pruners'
    BY <1>2 DEF Pruners, At
  <2>3. QED
    BY <1>1, <2>1, <2>2, RetainedChanges
<1>7. \A h \in Handles : EntryStep(w, h)
  BY DEF EntryStep
<1>8. r.at # "idle" /\ r # NoRequest
  BY DEF NoRequest
<1>9. fds' \in [Fds -> Objects \cup {Closed}] /\ open_files' \in [Handles -> OpenFile \cup {None}]
  BY <1>1 DEF Types
<1>10. QED
  BY <1>5, <1>6, <1>7, <1>8, <1>9, OneStep

\* The four steps that open one for their request.
LEMMA OpenForWritingGood ==
  ASSUME Good, NEW w \in Workers, NEW f \in Files, NEW h \in Handles, NEW truncate \in BOOLEAN,
         OpenForWriting(w, f, h, truncate)
  PROVE  Good'
<1> DEFINE object == IF <<f, provider[f]>> = Target(f) \/ truncate THEN Target(f)
                     ELSE <<f, provider[f]>>
           entry(d) == [file |-> f, object |-> object, fd |-> d, writable |-> TRUE,
                        cow_pending |-> object # Target(f), last_read_tick |-> 0]
           r(d) == [at |-> "register", h |-> h, fd |-> d, use |-> NoFd, tick |-> 0,
                    of |-> entry(d)]
<1>1. Types /\ Sound
  BY DEF Good
<1>2. /\ Idle(w) /\ IsNextHandle(h) /\ UNCHANGED <<open_files, fd_lru_tick>>
      /\ \E d \in Fds : /\ IsNextFd(d) /\ fds' = [fds EXCEPT ![d] = object]
                        /\ provider' = [provider EXCEPT ![f] = object[2]]
                        /\ req' = [req EXCEPT ![w] = r(d)]
  BY DEF OpenForWriting
<1>3. PICK d \in Fds : /\ IsNextFd(d) /\ fds' = [fds EXCEPT ![d] = object]
                       /\ provider' = [provider EXCEPT ![f] = object[2]]
                       /\ req' = [req EXCEPT ![w] = r(d)]
  BY <1>2
<1>4. object \in Objects /\ object[1] = f /\ object[2] \in {"own", "staged"}
  BY <1>1 DEF Objects, Target, Types
<1>5. /\ entry(d).file = f /\ entry(d).object = object /\ entry(d).fd = d /\ entry(d).writable
      /\ (~entry(d).cow_pending => object = Target(f))
  OBVIOUS
<1>6. entry(d) \in OpenFile
  <2> HIDE DEF object
  <2>1. QED
    BY <1>4 DEF OpenFile
<1>7. r(d).at = "register" /\ r(d).h = h /\ r(d).fd = d /\ r(d).of = entry(d)
  OBVIOUS
<1> HIDE DEF object, entry
<1>8. r(d) \in Request
  BY <1>6 DEF Request, Steps
<1> HIDE DEF r
<1>9. req'[w] = r(d) /\ req[w] = NoRequest
  BY <1>1, <1>2, <1>3 DEF Types
<1>10. open_files[h] = None /\ \A v \in Workers : At(v, "register") => req[v].h # h
  BY <1>2 DEF IsNextHandle
<1>11. RequestSound(w)'
  <2>1. d # NoFd
    BY OpenFilesAssumption DEF NoFd
  <2>2. QED
    BY <1>2, <1>4, <1>5, <1>6, <1>7, <1>9, <1>10, <2>1 DEF RequestSound, Target
<1>12. ~Changing(w)' /\ req[w].fd = NoFd /\ ~At(w, "table") /\ ~At(w, "prune")
  BY <1>7, <1>9 DEF Changing, NoRequest, At
<1>13. provider' \in [Files -> {"own", "staged"}] /\ fd_lru_tick' \in Nat
  BY <1>1, <1>2, <1>3, <1>4 DEF Types
<1>14. object = IF r(d).at \in {"register", "retain"} THEN r(d).of.object
                ELSE Target(r(d).of.file)
  BY <1>5, <1>7
<1>15. \A v \in Workers \ {w} : At(v, "register") => req[v].h # r(d).h
  BY <1>7, <1>10
<1>16. UNCHANGED open_files /\ r(d).fd = d /\ r(d).at = "register" /\ object \in Objects
  BY <1>2, <1>4, <1>7
<1>17. QED
  BY <1>3, <1>8, <1>11, <1>12, <1>13, <1>14, <1>15, <1>16, RequestOpens

\* A read whose descriptor was evicted opens the file again.
LEMMA ReadOpensGood ==
  ASSUME Good, NEW w \in Workers, ReadOpens(w)
  PROVE  Good'
<1>1. Types /\ Sound /\ RequestSound(w) /\ req[w] \in Request /\ req[w].at = "open"
  BY DEF Good, Sound, Types, ReadOpens, At
<1>2. PICK d \in Fds : /\ IsNextFd(d) /\ fds' = [fds EXCEPT ![d] = req[w].of.object]
                       /\ fd_lru_tick' = fd_lru_tick + 1
                       /\ req' = [req EXCEPT ![w].at = "retain", ![w].fd = d, ![w].use = d,
                                             ![w].tick = fd_lru_tick + 1]
  BY DEF ReadOpens
<1> DEFINE r == [req[w] EXCEPT !.at = "retain", !.fd = d, !.use = d, !.tick = fd_lru_tick + 1]
<1>3. req' = [req EXCEPT ![w] = r] /\ UNCHANGED <<provider, open_files>>
  BY <1>1, <1>2 DEF Types, ReadOpens
<1>4. r \in Request
  <2>1. fd_lru_tick + 1 \in Nat
    BY <1>1 DEF Types
  <2>2. QED
    BY <1>1, <2>1 DEF Request, Steps
<1>5. r.at = "retain" /\ r.fd = d /\ r.of = req[w].of /\ r.h = req[w].h
  BY <1>1 DEF Request
<1> HIDE DEF r
<1>6. req'[w] = r
  BY <1>1, <1>3 DEF Types
<1>7. req[w].fd = NoFd /\ req[w].h \in Live /\ req[w].of \in OpenFile
  BY <1>1 DEF RequestSound
<1>8. RequestSound(w)'
  <2>1. d # NoFd
    BY OpenFilesAssumption DEF NoFd
  <2>2. Live' = Live
    BY <1>3 DEF Live
  <2>3. QED
    BY <1>1, <1>3, <1>5, <1>6, <2>1, <2>2 DEF RequestSound
<1>9. req[w].of.object \in Objects
  BY <1>7 DEF OpenFile
<1>10. ~Changing(w)' /\ ~At(w, "table") /\ ~At(w, "prune")
  BY <1>1, <1>5, <1>6 DEF Changing, At
<1>11. provider' \in [Files -> {"own", "staged"}] /\ fd_lru_tick' \in Nat
  BY <1>1, <1>2, <1>3 DEF Types
<1>12. QED
  BY <1>2, <1>3, <1>4, <1>5, <1>7, <1>8, <1>9, <1>10, <1>11, RequestOpens

\* The first write opens the copy it has made.
LEMMA OpensCopyGood ==
  ASSUME Good, NEW w \in Workers, OpensCopy(w)
  PROVE  Good'
<1>1. Types /\ Sound /\ RequestSound(w) /\ req[w] \in Request /\ req[w].at = "cow"
  BY DEF Good, Sound, Types, OpensCopy, At
<1>2. PICK d \in Fds : /\ IsNextFd(d) /\ fds' = [fds EXCEPT ![d] = Target(req[w].of.file)]
                       /\ req' = [req EXCEPT ![w].at = "close", ![w].fd = d]
  BY DEF OpensCopy
<1> DEFINE r == [req[w] EXCEPT !.at = "close", !.fd = d]
<1>3. req' = [req EXCEPT ![w] = r] /\ UNCHANGED <<provider, open_files, fd_lru_tick>>
  BY <1>1, <1>2 DEF Types, OpensCopy
<1>4. r \in Request
  BY <1>1 DEF Request, Steps
<1>5. r.at = "close" /\ r.fd = d /\ r.of = req[w].of /\ r.h = req[w].h
  BY <1>1 DEF Request
<1> HIDE DEF r
<1>6. req'[w] = r
  BY <1>1, <1>3 DEF Types
<1>7. req[w].fd = NoFd /\ req[w].h \in Live /\ req[w].of \in OpenFile
  BY <1>1 DEF RequestSound
<1>8. RequestSound(w)'
  <2>1. d # NoFd
    BY OpenFilesAssumption DEF NoFd
  <2>2. Live' = Live
    BY <1>3 DEF Live
  <2>3. QED
    BY <1>1, <1>3, <1>5, <1>6, <2>1, <2>2 DEF RequestSound
<1>9. Target(req[w].of.file) \in Objects
  BY <1>7 DEF OpenFile, Objects, Target
<1>10. Changing(w) /\ ~At(w, "table") /\ ~At(w, "prune")
  BY <1>1 DEF Changing, At
<1>11. provider' \in [Files -> {"own", "staged"}] /\ fd_lru_tick' \in Nat
  BY <1>1, <1>3 DEF Types
<1>12. QED
  BY <1>2, <1>3, <1>4, <1>5, <1>7, <1>8, <1>9, <1>10, <1>11, RequestOpens

\* A resize opens for writing what was open for reading.
LEMMA ResizeUpgradesGood ==
  ASSUME Good, NEW w \in Workers, ResizeUpgrades(w)
  PROVE  Good'
<1>1. Types /\ Sound /\ RequestSound(w) /\ req[w] \in Request /\ req[w].at = "upgrade"
      /\ UNCHANGED <<provider, open_files, fd_lru_tick>>
  BY DEF Good, Sound, Types, ResizeUpgrades, At
<1>2. /\ req[w].fd = NoFd /\ req[w].h \in Live /\ req[w].of \in OpenFile
      /\ EntrySound(req[w].h) /\ Live' = Live
  BY <1>1 DEF RequestSound, Sound, Live
<1>3. Changing(w) /\ ~At(w, "table") /\ ~At(w, "prune")
  BY <1>1 DEF Changing, At
<1>4. provider' \in [Files -> {"own", "staged"}] /\ fd_lru_tick' \in Nat
  BY <1>1 DEF Types
<1>5. CASE open_files[req[w].h].writable /\ open_files[req[w].h].fd # NoFd
  <2> DEFINE r == [req[w] EXCEPT !.at = "ftruncate"]
  <2>1. req' = [req EXCEPT ![w] = r] /\ UNCHANGED fds
    BY <1>1, <1>5 DEF Types, ResizeUpgrades, Goto
  <2>2. r \in Request
    BY <1>1 DEF Request, Steps
  <2>3. r.at = "ftruncate" /\ r.fd = NoFd /\ r.of = req[w].of /\ r.h = req[w].h
    BY <1>1, <1>2 DEF Request
  <2> HIDE DEF r
  <2>4. req'[w] = r
    BY <1>1, <2>1 DEF Types
  <2>5. RequestSound(w)'
    BY <1>1, <1>2, <1>5, <2>3, <2>4 DEF RequestSound, Target
  <2>6. r # NoRequest
    BY <2>3 DEF NoRequest
  <2>7. QED
    BY <1>1, <1>2, <1>3, <1>4, <2>1, <2>2, <2>3, <2>5, <2>6, QuietStep
<1>6. CASE ~(open_files[req[w].h].writable /\ open_files[req[w].h].fd # NoFd)
  <2>1. PICK d \in Fds : /\ IsNextFd(d) /\ fds' = [fds EXCEPT ![d] = Target(req[w].of.file)]
                         /\ req' = [req EXCEPT ![w].at = "swap", ![w].fd = d]
    BY <1>6 DEF ResizeUpgrades
  <2>2. ~open_files[req[w].h].writable
    BY <1>2, <1>6 DEF EntrySound
  <2> DEFINE r == [req[w] EXCEPT !.at = "swap", !.fd = d]
  <2>3. req' = [req EXCEPT ![w] = r]
    BY <1>1, <2>1 DEF Types
  <2>4. r \in Request
    BY <1>1 DEF Request, Steps
  <2>5. r.at = "swap" /\ r.fd = d /\ r.of = req[w].of /\ r.h = req[w].h
    BY <1>1 DEF Request
  <2> HIDE DEF r
  <2>6. req'[w] = r
    BY <1>1, <2>3 DEF Types
  <2>7. RequestSound(w)'
    <3>1. d # NoFd
      BY OpenFilesAssumption DEF NoFd
    <3>2. QED
      BY <1>1, <1>2, <2>2, <2>5, <2>6, <3>1 DEF RequestSound
  <2>8. Target(req[w].of.file) \in Objects
    BY <1>2 DEF OpenFile, Objects, Target
  <2>9. QED
    BY <1>1, <1>2, <1>3, <1>4, <2>1, <2>3, <2>4, <2>5, <2>7, <2>8, RequestOpens
<1>7. QED
  BY <1>5, <1>6

\* Neither the request that goes a step nor the entry that it changes.
LEMMA OtherParties ==
  ASSUME Types, NEW w \in Workers, NEW r, req' = [req EXCEPT ![w] = r], NEW h \in Handles,
         \A g \in Handles \ {h} : open_files'[g] = open_files[g],
         \/ ~At(w, "table") /\ r.at # "table"
         \/ req[w].h = h /\ r.h = h
  PROVE  \A z \in Parties \ {<<h, "entry">>, <<w, "request">>} : KeepsFd(z)
<1>1. \A g \in Handles \ {h} : KeepsFd(<<g, "entry">>)
  BY PartiesKept
<1>2. \A v \in Workers \ {w} : KeepsFd(<<v, "request">>)
  BY PartiesKept
<1>3. QED
  BY <1>1, <1>2 DEF Parties

\* A request hands its descriptor to the entry of its handle, or opens one for it; what
\* the entry had is closed.
LEMMA EntryGets ==
  ASSUME Good, NEW w \in Workers, NEW r \in Request, req' = [req EXCEPT ![w] = r],
         NEW h \in Handles, NEW e \in OpenFile, open_files' = [open_files EXCEPT ![h] = e],
         provider' \in [Files -> {"own", "staged"}], fd_lru_tick' \in Nat,
         fds' \in [Fds -> Objects \cup {Closed}],
         r.at = "idle" <=> r = NoRequest,
         EntryStep(w, h), EntrySound(h)',
         RequestSound(w)',
         Changing(w)' => Changing(w) /\ r.of = req[w].of,
         r.at # "register",
         RetainedBounded', FdsSound'
  PROVE  Good'
<1>1. Types
  BY DEF Good
<1>2. /\ open_files' \in [Handles -> OpenFile \cup {None}]
      /\ \A g \in Handles \ {h} : open_files'[g] = open_files[g]
  BY <1>1 DEF Types
<1>3. \A g \in Handles : EntryStep(w, g)
  BY <1>2 DEF EntryStep
<1>4. \A g \in Live' : open_files'[g] = open_files[g] \/ EntrySound(g)'
  BY <1>2 DEF Live
<1>5. QED
  BY <1>2, <1>3, <1>4, OneStep

\* A request for a new handle enters what it has opened in the table.
LEMMA RegisterGood ==
  ASSUME Good, NEW w \in Workers, Register(w)
  PROVE  Good'
<1>1. Types /\ Sound /\ RequestSound(w) /\ req[w] \in Request /\ req[w].at = "register"
      /\ UNCHANGED <<provider, fds, fd_lru_tick>> /\ RetainedBounded
  BY DEF Good, Sound, Types, Register, At
<1>h. PICK h \in Handles : req[w].h = h
  BY <1>1 DEF RequestSound
<1> DEFINE e == req[w].of
           x == <<h, "entry">>
           y == <<w, "request">>
<1>2. /\ h \in Handles /\ open_files[h] = None /\ e \in OpenFile /\ e.fd = req[w].fd
      /\ e.writable /\ e.object[1] = e.file /\ e.fd # NoFd
      /\ ~e.cow_pending => e.object = Target(e.file)
  BY <1>1, <1>h DEF RequestSound
<1>3. open_files' = [open_files EXCEPT ![h] = e] /\ req' = [req EXCEPT ![w] = NoRequest]
  BY <1>h DEF Register, Reply
<1>4. NoRequest \in Request /\ NoRequest.at = "idle" /\ NoRequest.fd = NoFd
  BY DEF NoRequest, Request, Steps
<1>5. /\ open_files'[h] = e /\ req'[w] = NoRequest
      /\ \A g \in Handles \ {h} : open_files'[g] = open_files[g]
  BY <1>1, <1>2, <1>3 DEF Types
<1>6. h \notin Live /\ h \in Live'
  BY <1>2, <1>5, NoneAssumption DEF Live
<1>7. EntryStep(w, h)
  BY <1>1, <1>h, <1>2, <1>6 DEF EntryStep, Sound, RegistersSound, At
<1>8. EntrySound(h)'
  BY <1>2, <1>5 DEF EntrySound, Target
<1>9. RequestSound(w)' /\ ~Changing(w)'
  BY <1>4, <1>5 DEF RequestSound, Changing
<1>10. FdsSound'
  <2>1. ~Dangling(h)'
    <3>1. ASSUME NEW v \in Workers, At(v, "table")', req'[v].h = h
          PROVE  FALSE
      <4>1. v # w /\ req'[v] = req[v]
        BY <1>1, <1>3, <1>4, <1>5, <3>1 DEF At, Types
      <4>2. h \in Live
        BY <3>1, <4>1, <1>1 DEF Sound, RequestSound, At
      <4>3. QED
        BY <4>2, <1>6
    <3>2. QED
      BY <3>1 DEF Dangling
  <2>2. /\ x \in Parties /\ y \in Parties /\ x # y
        /\ FdOf(y) = e.fd /\ FdOf(y)' = NoFd /\ FdOf(x) = NoFd /\ FdOf(x)' = e.fd
        /\ ObjectOf(x)' = e.object
    BY <1>2, <1>4, <1>5, <1>6, <2>1, PartyOf
  <2>3. ObjectOf(y) = e.object
    BY <1>1 DEF ObjectOf
  <2>4. \A z \in Parties \ {x, y} : KeepsFd(z)
    <3>1. ~At(w, "table") /\ NoRequest.at # "table"
      BY <1>1, <1>4 DEF At
    <3>2. QED
      BY <1>1, <1>2, <1>3, <1>5, <3>1, OtherParties
  <2> HIDE DEF x, y, e
  <2>5. \A d \in Fds : fds'[d] = IF d = FdOf(x) THEN Closed ELSE fds[d]
    BY <1>1, <2>2, FdTypes
  <2>6. QED
    BY <1>1, <1>2, <2>2, <2>3, <2>4, <2>5, FdsHanding DEF Sound
<1>11. RetainedBounded'
  <2>1. Retained' \subseteq Retained
    BY <1>2, <1>5 DEF Retained, Live
  <2>2. Pruners \subseteq Pruners'
    BY <1>1, <1>3 DEF Pruners, At, Types
  <2>3. QED
    BY <1>1, <2>1, <2>2, RetainedChanges
<1>12. provider' \in [Files -> {"own", "staged"}] /\ fd_lru_tick' \in Nat
       /\ fds' \in [Fds -> Objects \cup {Closed}]
  BY <1>1 DEF Types
<1> HIDE DEF x, y, e
<1>13. QED
  BY <1>2, <1>3, <1>4, <1>7, <1>8, <1>9, <1>10, <1>11, <1>12, EntryGets

\* A read hands its descriptor to the entry.
LEMMA RetainsGood ==
  ASSUME Good, NEW w \in Workers, Retains(w)
  PROVE  Good'
<1>1. Types /\ Sound /\ RequestSound(w) /\ req[w] \in Request /\ req[w].at = "retain"
      /\ UNCHANGED <<provider, fds, fd_lru_tick>> /\ RetainedBounded
  BY DEF Good, Sound, Types, Retains, At
<1>h. PICK h \in Handles : req[w].h = h
  BY <1>1 DEF RequestSound, Live
<1> DEFINE o == open_files[h]
           e == [open_files[h] EXCEPT !.fd = req[w].fd, !.last_read_tick = req[w].tick]
           r == [req[w] EXCEPT !.at = "prune", !.fd = NoFd]
           x == <<h, "entry">>
           y == <<w, "request">>
<1>2. /\ h \in Live /\ h \in Handles /\ o \in OpenFile /\ o.fd = NoFd /\ ~o.writable
      /\ req[w].of \in OpenFile /\ o.file = req[w].of.file /\ o.object = req[w].of.object
      /\ ~req[w].of.writable /\ req[w].fd # NoFd /\ EntrySound(h)
  BY <1>1, <1>h DEF RequestSound, Sound, Live, Types, Retains
<1>3. open_files' = [open_files EXCEPT ![h] = e] /\ req' = [req EXCEPT ![w] = r]
  BY <1>1, <1>h, <1>2 DEF Retains, Types
<1>4. r \in Request /\ e \in OpenFile
  BY ZenonT(60), <1>1, <1>2 DEF Request, Steps, OpenFile
<1>5. /\ r.at = "prune" /\ r.fd = NoFd /\ r.of = req[w].of /\ r.h = h
      /\ e.file = o.file /\ e.object = o.object /\ e.writable = o.writable
      /\ e.cow_pending = o.cow_pending /\ e.fd = req[w].fd
  BY <1>1, <1>h, <1>2 DEF Request, OpenFile
<1> HIDE DEF r, e
<1>6. /\ open_files'[h] = e /\ req'[w] = r
      /\ \A g \in Handles \ {h} : open_files'[g] = open_files[g]
  BY <1>1, <1>2, <1>3 DEF Types
<1>7. h \in Live'
  BY <1>2, <1>4, <1>6, NoneAssumption DEF Live
<1>8. EntryStep(w, h)
  BY <1>2, <1>5, <1>6, <1>7 DEF EntryStep, Mild
<1>9. EntrySound(h)'
  BY <1>2, <1>5, <1>6 DEF EntrySound, Target
<1>10. RequestSound(w)' /\ ~Changing(w)'
  BY <1>2, <1>5, <1>6, <1>7 DEF RequestSound, Changing
<1>11. FdsSound'
  <2>1. ~At(w, "table") /\ r.at # "table"
    BY <1>1, <1>5 DEF At
  <2>2. ~Dangling(h) /\ ~Dangling(h)'
    BY <1>1, <1>2, <1>3, <2>1, NotDangling, PartiesKept
  <2>3. /\ x \in Parties /\ y \in Parties /\ x # y
        /\ FdOf(y) = req[w].fd /\ FdOf(y)' = NoFd /\ FdOf(x) = NoFd /\ FdOf(x)' = req[w].fd
        /\ ObjectOf(x)' = o.object
    BY <1>2, <1>5, <1>6, <1>7, <2>2, PartyOf
  <2>4. ObjectOf(y) = o.object
    BY <1>1, <1>2 DEF ObjectOf
  <2>5. \A z \in Parties \ {x, y} : KeepsFd(z)
    BY <1>1, <1>2, <1>3, <1>6, <2>1, OtherParties
  <2> HIDE DEF x, y, o
  <2>6. \A d \in Fds : fds'[d] = IF d = FdOf(x) THEN Closed ELSE fds[d]
    BY <1>1, <2>3, FdTypes
  <2>7. QED
    BY <1>1, <1>2, <2>3, <2>4, <2>5, <2>6, FdsHanding DEF Sound
<1>12. RetainedBounded'
  <2>1. Retained' \subseteq Retained \cup {h}
    BY <1>6 DEF Retained, Live
  <2>2. w \in Workers \ Pruners /\ Pruners' = Pruners \cup {w}
    BY <1>1, <1>3, <1>5, <1>6 DEF Pruners, At, Types
  <2>3. QED
    BY <1>1, <2>1, <2>2, RetainedChanges
<1>13. provider' \in [Files -> {"own", "staged"}] /\ fd_lru_tick' \in Nat
       /\ fds' \in [Fds -> Objects \cup {Closed}]
  BY <1>1 DEF Types
<1>14. r # NoRequest
  BY <1>5 DEF NoRequest
<1> HIDE DEF x, y, o
<1>15. QED
  BY <1>2, <1>3, <1>4, <1>5, <1>8, <1>9, <1>10, <1>11, <1>12, <1>13, <1>14, EntryGets

\* A read whose descriptor the entry does not take closes it.
LEMMA ReadRefusedGood ==
  ASSUME Good, NEW w \in Workers, ReadRefused(w)
  PROVE  Good'
<1>1. Types /\ Sound /\ RequestSound(w) /\ req[w] \in Request /\ req[w].at = "retain"
      /\ UNCHANGED <<provider, open_files, fd_lru_tick>> /\ RetainedBounded
  BY DEF Good, Sound, Types, ReadRefused, At
<1> DEFINE y == <<w, "request">>
<1>2. fds' = [fds EXCEPT ![req[w].fd] = Closed] /\ req' = [req EXCEPT ![w] = NoRequest]
  BY DEF ReadRefused, Reply
<1>3. NoRequest \in Request /\ NoRequest.at = "idle" /\ NoRequest.fd = NoFd
  BY DEF NoRequest, Request, Steps
<1>4. req'[w] = NoRequest /\ req[w].fd \in Fds
  BY <1>1, <1>2 DEF Types, RequestSound, Request
<1>5. RequestSound(w)' /\ ~Changing(w)'
  BY <1>3, <1>4 DEF RequestSound, Changing
<1>6. FdsSound'
  <2>1. y \in Parties /\ FdOf(y) = req[w].fd /\ FdOf(y)' = NoFd
    BY <1>3, <1>4 DEF Parties, FdOf
  <2>2. ~At(w, "table") /\ NoRequest.at # "table"
    BY <1>1, <1>3 DEF At
  <2>3. \A z \in Parties \ {y} : KeepsFd(z)
    <3>1. \A h \in Handles : KeepsFd(<<h, "entry">>)
      BY <1>1, <1>2, <2>2, PartiesKept
    <3>2. \A v \in Workers \ {w} : KeepsFd(<<v, "request">>)
      BY <1>1, <1>2, PartiesKept
    <3>3. QED
      BY <3>1, <3>2 DEF Parties
  <2> HIDE DEF y
  <2>4. \A z \in Parties : IF z \in {y} THEN FdOf(z)' = NoFd ELSE KeepsFd(z)
    BY <2>1, <2>3
  <2>5. \A d \in Fds : fds'[d] = IF \E z \in {y} \cap Parties : FdOf(z) = d THEN Closed ELSE fds[d]
    BY <1>1, <1>2, <2>1 DEF Types
  <2>6. QED
    BY <1>1, <2>4, <2>5, FdsClosing DEF Sound
<1>7. RetainedBounded'
  <2>1. Retained' = Retained
    BY <1>1 DEF Retained, Live
  <2>2. Pruners \subseteq Pruners'
    BY <1>1, <1>2 DEF Pruners, At, Types
  <2>3. QED
    BY <1>1, <2>1, <2>2, RetainedChanges
<1>8. \A h \in Handles : EntryStep(w, h) /\ open_files'[h] = open_files[h]
  BY <1>1 DEF EntryStep
<1>9. \A h \in Live' : open_files'[h] = open_files[h] \/ EntrySound(h)'
  BY <1>1
<1>10. /\ provider' \in [Files -> {"own", "staged"}] /\ fd_lru_tick' \in Nat
       /\ fds' \in [Fds -> Objects \cup {Closed}]
       /\ open_files' \in [Handles -> OpenFile \cup {None}]
  BY <1>1, <1>2 DEF Types
<1>11. QED
  BY <1>2, <1>3, <1>5, <1>6, <1>7, <1>8, <1>9, <1>10, OneStep

\* The descriptors of the victims are closed, and no more than the limit stay.
LEMMA PrunesGood ==
  ASSUME Good, NEW w \in Workers, Prunes(w)
  PROVE  Good'
<1>1. Types /\ Sound /\ RequestSound(w) /\ req[w] \in Request /\ req[w].at = "prune"
      /\ UNCHANGED <<provider, fd_lru_tick>> /\ RetainedBounded
  BY DEF Good, Sound, Types, Prunes, At
<1>2. PICK V \in SUBSET Handles : IsVictims(V) /\ CloseVictims(V)
  BY DEF Prunes
<1> DEFINE r == [req[w] EXCEPT !.at = "splice"]
           e(h) == [open_files[h] EXCEPT !.fd = NoFd]
           X == {<<h, "entry">> : h \in V}
<1>3. req' = [req EXCEPT ![w] = r]
  BY <1>1 DEF Prunes, Goto, Types
<1>4. r \in Request
  BY <1>1 DEF Request, Steps
<1>5. r.at = "splice" /\ r.fd = NoFd /\ r.of = req[w].of /\ r.h = req[w].h
  BY <1>1 DEF Request, RequestSound
<1> HIDE DEF r
<1>6. req'[w] = r
  BY <1>1, <1>3 DEF Types
<1>7. ASSUME NEW h \in V
      PROVE  /\ h \in Handles /\ h \in Live /\ open_files[h] \in OpenFile /\ ~open_files[h].writable
             /\ open_files[h].fd # NoFd /\ ~Dangling(h) /\ EntrySound(h)
  BY <1>1, <1>2, NotDangling DEF IsVictims, Retained, Live, Types, Sound
<1>8. ASSUME NEW h \in V
      PROVE  /\ e(h) \in OpenFile /\ e(h).fd = NoFd /\ e(h).file = open_files[h].file
             /\ e(h).object = open_files[h].object /\ e(h).writable = open_files[h].writable
             /\ e(h).cow_pending = open_files[h].cow_pending
  BY <1>7 DEF OpenFile
<1>9. \A h \in Handles : open_files'[h] = IF h \in V THEN e(h) ELSE open_files[h]
  BY <1>2 DEF CloseVictims
<1>10. open_files' \in [Handles -> OpenFile \cup {None}]
  <2>1. open_files' = [h \in Handles |-> IF h \in V THEN e(h) ELSE open_files[h]]
    BY <1>2 DEF CloseVictims
  <2> HIDE DEF e
  <2>2. QED
    BY <1>1, <1>8, <2>1 DEF Types
<1> HIDE DEF e
<1>11. \A h \in V : h \in Live'
  BY <1>7, <1>8, <1>9, NoneAssumption DEF Live
<1>12. \A h \in Handles : EntryStep(w, h)
  <2>1. ASSUME NEW h \in V
        PROVE  EntryStep(w, h)
    <3>1. Mild(h)
      BY <1>7, <1>8, <1>9 DEF Mild
    <3>2. QED
      BY <1>7, <1>11, <3>1 DEF EntryStep
  <2>2. \A h \in Handles \ V : EntryStep(w, h)
    BY <1>9 DEF EntryStep
  <2>3. QED
    BY <2>1, <2>2
<1>13. \A h \in Live' : open_files'[h] = open_files[h] \/ EntrySound(h)'
  <2>1. \A h \in V : EntrySound(h)'
    BY <1>7, <1>8, <1>9 DEF EntrySound, Target
  <2>2. QED
    BY <1>9, <2>1 DEF Live
<1>14. RequestSound(w)' /\ ~Changing(w)'
  <2>1. /\ req[w].h \in Live /\ req[w].of \in OpenFile /\ ~req[w].of.writable
        /\ open_files[req[w].h].file = req[w].of.file /\ req[w].h \in Handles
    BY <1>1 DEF RequestSound, Live
  <2>2. req[w].h \in Live' /\ open_files'[req[w].h].file = req[w].of.file
    BY <1>8, <1>9, <1>11, <2>1 DEF Live
  <2>3. QED
    BY <1>5, <1>6, <2>1, <2>2 DEF RequestSound, Changing
<1>15. FdsSound'
  <2>1. ~At(w, "table") /\ r.at # "table"
    BY <1>1, <1>5 DEF At
  <2>2. \A h \in Handles : Dangling(h)' <=> Dangling(h)
    BY <1>1, <1>3, <2>1, PartiesKept
  <2>3. \A h \in Handles \ V : KeepsFd(<<h, "entry">>)
    BY <1>1, <1>3, <1>9, <2>2, PartiesKept
  <2>4. \A v \in Workers : KeepsFd(<<v, "request">>)
    <3>1. KeepsFd(<<w, "request">>)
      BY <1>1, <1>5, <1>6 DEF KeepsFd, FdOf, RequestSound
    <3>2. QED
      BY <1>1, <1>3, <3>1, PartiesKept
  <2>5. \A h \in V : FdOf(<<h, "entry">>) = open_files[h].fd /\ FdOf(<<h, "entry">>)' = NoFd
    BY <1>7, <1>8, <1>9 DEF FdOf
  <2>6. \A z \in Parties : IF z \in X THEN FdOf(z)' = NoFd ELSE KeepsFd(z)
    <3>1. \A h \in Handles : IF <<h, "entry">> \in X THEN FdOf(<<h, "entry">>)' = NoFd
                             ELSE KeepsFd(<<h, "entry">>)
      BY <2>3, <2>5
    <3>2. \A v \in Workers : <<v, "request">> \notin X
      OBVIOUS
    <3> HIDE DEF X
    <3>3. QED
      BY <2>4, <3>1, <3>2 DEF Parties
  <2>7. \A d \in Fds : (\E z \in X \cap Parties : FdOf(z) = d) <=> (\E h \in V : open_files[h].fd = d)
    <3>1. X \cap Parties = X
      BY <1>7 DEF Parties
    <3>2. QED
      BY <2>5, <3>1
  <2> HIDE DEF X
  <2>8. \A d \in Fds : fds'[d] = IF \E z \in X \cap Parties : FdOf(z) = d THEN Closed ELSE fds[d]
    BY <1>2, <2>7 DEF CloseVictims
  <2>9. QED
    BY <1>1, <2>6, <2>8, FdsClosing DEF Sound
<1>16. RetainedBounded'
  <2>1. Retained' = Retained \ V
    <3>1. \A h \in V : h \notin Retained'
      BY <1>8, <1>9, <1>7 DEF Retained
    <3>2. \A h \in Handles \ V : h \in Retained' <=> h \in Retained
      BY <1>9 DEF Retained, Live
    <3>3. QED
      BY <3>1, <3>2 DEF Retained, Live
  <2>2. IsFiniteSet(Retained)
    BY OpenFilesAssumption, FS_Subset DEF Retained, Live
  <2>3. Cardinality(Retained) \in Nat /\ MAX_RETAINED_RO_FDS \in Nat
    BY <2>2, FS_CardinalityType, OpenFilesAssumption
  <2>4. Cardinality(Retained \ V) <= MAX_RETAINED_RO_FDS
    BY <1>2, <2>3 DEF IsVictims
  <2>5. QED
    BY <1>1, <2>1, <2>4, RetainedChanges
<1>17. /\ provider' \in [Files -> {"own", "staged"}] /\ fd_lru_tick' \in Nat
       /\ fds' \in [Fds -> Objects \cup {Closed}]
  BY <1>1, <1>2 DEF Types, CloseVictims
<1>18. r # NoRequest /\ r.at # "idle" /\ r.at # "register"
  BY <1>5 DEF NoRequest
<1>19. QED
  BY <1>3, <1>4, <1>10, <1>12, <1>13, <1>14, <1>15, <1>16, <1>17, <1>18, OneStep

\* A later read renews the entry's place in the order.
LEMMA TouchesGood ==
  ASSUME Good, NEW w \in Workers, Touches(w)
  PROVE  Good'
<1>1. Types /\ Sound /\ RequestSound(w) /\ req[w] \in Request /\ req[w].at = "touch"
      /\ UNCHANGED <<provider, fds>> /\ RetainedBounded
  BY DEF Good, Sound, Types, Touches, At
<1>h. PICK h \in Handles : req[w].h = h
  BY <1>1 DEF RequestSound, Live
<1> DEFINE o == open_files[h]
           e == [open_files[h] EXCEPT !.last_read_tick = fd_lru_tick + 1]
           r == [req[w] EXCEPT !.at = "splice"]
<1>2. /\ h \in Live /\ o \in OpenFile /\ req[w].of \in OpenFile /\ o.file = req[w].of.file
      /\ ~req[w].of.writable /\ req[w].fd = NoFd /\ EntrySound(h) /\ fd_lru_tick + 1 \in Nat
  BY <1>1, <1>h DEF RequestSound, Sound, Live, Types
<1>3. open_files' = [open_files EXCEPT ![h] = e] /\ req' = [req EXCEPT ![w] = r]
      /\ fd_lru_tick' = fd_lru_tick + 1
  BY <1>1, <1>h, <1>2 DEF Touches, Goto, Types
<1>4. r \in Request /\ e \in OpenFile
  BY <1>1, <1>2 DEF Request, Steps, OpenFile
<1>5. /\ r.at = "splice" /\ r.fd = NoFd /\ r.of = req[w].of /\ r.h = h
      /\ e.file = o.file /\ e.object = o.object /\ e.writable = o.writable
      /\ e.cow_pending = o.cow_pending /\ e.fd = o.fd
  BY <1>1, <1>h, <1>2 DEF Request, OpenFile
<1> HIDE DEF r, e
<1>6. /\ open_files'[h] = e /\ req'[w] = r
      /\ \A g \in Handles \ {h} : open_files'[g] = open_files[g]
  BY <1>1, <1>3 DEF Types
<1>7. h \in Live'
  BY <1>4, <1>6, NoneAssumption DEF Live
<1>8. EntryStep(w, h)
  <2>1. Mild(h)
    BY <1>5, <1>6 DEF Mild
  <2>2. QED
    BY <1>2, <1>7, <2>1 DEF EntryStep
<1>9. EntrySound(h)'
  BY <1>2, <1>5, <1>6 DEF EntrySound, Target
<1>10. RequestSound(w)' /\ ~Changing(w)'
  BY <1>2, <1>5, <1>6, <1>7 DEF RequestSound, Changing
<1>11. FdsSound'
  <2>1. ~At(w, "table") /\ r.at # "table"
    BY <1>1, <1>5 DEF At
  <2>2. \A g \in Handles : Dangling(g)' <=> Dangling(g)
    BY <1>1, <1>3, <2>1, PartiesKept
  <2>3. \A g \in Handles : KeepsFd(<<g, "entry">>)
    <3>1. \A g \in Handles : \/ open_files'[g] = open_files[g]
                             \/ /\ g \in Live /\ g \in Live'
                                /\ open_files'[g].fd = open_files[g].fd
                                /\ open_files'[g].object = open_files[g].object
      BY <1>2, <1>5, <1>6, <1>7
    <3>2. QED
      BY <1>1, <1>3, <2>2, <3>1, PartiesKept
  <2>4. \A v \in Workers : KeepsFd(<<v, "request">>)
    <3>1. KeepsFd(<<w, "request">>)
      BY <1>2, <1>5, <1>6 DEF KeepsFd, FdOf
    <3>2. QED
      BY <1>1, <1>3, <3>1, PartiesKept
  <2>5. \A z \in Parties : KeepsFd(z)
    BY <2>3, <2>4 DEF Parties
  <2>6. QED
    BY <1>1, <2>5, FdsKept DEF Sound
<1>12. RetainedBounded'
  <2>1. Retained' \subseteq Retained
    BY <1>2, <1>5, <1>6 DEF Retained, Live
  <2>2. Pruners \subseteq Pruners'
    BY <1>1, <1>3 DEF Pruners, At, Types
  <2>3. QED
    BY <1>1, <2>1, <2>2, RetainedChanges
<1>13. provider' \in [Files -> {"own", "staged"}] /\ fd_lru_tick' \in Nat
       /\ fds' \in [Fds -> Objects \cup {Closed}]
  BY <1>1, <1>2, <1>3 DEF Types
<1>14. r # NoRequest /\ r.at # "idle" /\ r.at # "register"
  BY <1>5 DEF NoRequest
<1> HIDE DEF o
<1>15. QED
  BY <1>3, <1>4, <1>8, <1>9, <1>10, <1>11, <1>12, <1>13, <1>14, EntryGets

\* The descriptor of the source is closed while the entry still has it.
LEMMA ClosesSourceGood ==
  ASSUME Good, NEW w \in Workers, ClosesSource(w)
  PROVE  Good'
<1>1. Types /\ Sound /\ RequestSound(w) /\ req[w] \in Request /\ req[w].at = "close"
      /\ UNCHANGED <<provider, open_files, fd_lru_tick>> /\ RetainedBounded
  BY DEF Good, Sound, Types, ClosesSource, At
<1>h. PICK h \in Handles : req[w].h = h
  BY <1>1 DEF RequestSound, Live
<1> DEFINE r == [req[w] EXCEPT !.at = "table"]
           x == <<h, "entry">>
<1>2. /\ h \in Live /\ open_files[h] \in OpenFile /\ req[w].of \in OpenFile
      /\ open_files[h].fd = req[w].of.fd /\ open_files[h].writable /\ open_files[h].cow_pending
      /\ open_files[h].file = req[w].of.file /\ EntrySound(h) /\ req[w].fd # NoFd
      /\ open_files[h].fd \in Fds
  BY <1>1, <1>h DEF RequestSound, Sound, Live, Types, EntrySound, OpenFile
<1>3. /\ req' = [req EXCEPT ![w] = r] /\ fds' = [fds EXCEPT ![open_files[h].fd] = Closed]
  BY <1>1, <1>2 DEF ClosesSource, Goto, Types
<1>4. r \in Request
  BY <1>1 DEF Request, Steps
<1>5. r.at = "table" /\ r.fd = req[w].fd /\ r.of = req[w].of /\ r.h = h
  BY <1>1, <1>h DEF Request
<1> HIDE DEF r
<1>6. req'[w] = r /\ Live' = Live
  BY <1>1, <1>3 DEF Types, Live
<1>7. RequestSound(w)'
  BY <1>1, <1>2, <1>5, <1>6 DEF RequestSound
<1>8. Changing(w)
  BY <1>1 DEF Changing
<1>9. FdsSound'
  <2>1. ~Dangling(h) /\ Dangling(h)'
    <3>1. ~Dangling(h)
      BY <1>1, <1>h, <1>8, NotDangling DEF At
    <3>2. At(w, "table")' /\ req'[w].h = h
      BY <1>5, <1>6 DEF At
    <3>3. QED
      BY <3>1, <3>2 DEF Dangling
  <2>2. x \in Parties /\ FdOf(x) = open_files[h].fd /\ FdOf(x)' = NoFd
    BY <1>2, <2>1, PartyOf
  <2>3. KeepsFd(<<w, "request">>)
    BY <1>1, <1>5, <1>6 DEF KeepsFd, FdOf, ObjectOf, Target
  <2>4. \A z \in Parties \ {x, <<w, "request">>} : KeepsFd(z)
    BY <1>1, <1>h, <1>3, <1>5, OtherParties
  <2> HIDE DEF x
  <2>5. \A z \in Parties : IF z \in {x} THEN FdOf(z)' = NoFd ELSE KeepsFd(z)
    BY <2>2, <2>3, <2>4
  <2>6. \A d \in Fds : fds'[d] = IF \E z \in {x} \cap Parties : FdOf(z) = d THEN Closed ELSE fds[d]
    BY <1>1, <1>3, <2>2 DEF Types
  <2>7. QED
    BY <1>1, <2>5, <2>6, FdsClosing DEF Sound
<1>10. RetainedBounded'
  <2>1. Retained' = Retained
    BY <1>1 DEF Retained, Live
  <2>2. Pruners \subseteq Pruners'
    BY <1>1, <1>3 DEF Pruners, At, Types
  <2>3. QED
    BY <1>1, <2>1, <2>2, RetainedChanges
<1>11. \A g \in Handles : EntryStep(w, g) /\ open_files'[g] = open_files[g]
  BY <1>1 DEF EntryStep
<1>12. \A g \in Live' : open_files'[g] = open_files[g] \/ EntrySound(g)'
  BY <1>1
<1>13. /\ provider' \in [Files -> {"own", "staged"}] /\ fd_lru_tick' \in Nat
       /\ fds' \in [Fds -> Objects \cup {Closed}]
       /\ open_files' \in [Handles -> OpenFile \cup {None}]
  BY <1>1, <1>3 DEF Types
<1>14. r # NoRequest /\ r.at # "idle" /\ r.at # "register"
  BY <1>5 DEF NoRequest
<1>15. QED
  BY <1>3, <1>4, <1>5, <1>7, <1>8, <1>10, <1>9, <1>11, <1>12, <1>13, <1>14, OneStep

\* The entry gets the copy instead.
LEMMA StoresCopyGood ==
  ASSUME Good, NEW w \in Workers, StoresCopy(w)
  PROVE  Good'
<1>1. Types /\ Sound /\ RequestSound(w) /\ req[w] \in Request /\ req[w].at = "table"
      /\ UNCHANGED <<fds, fd_lru_tick>> /\ RetainedBounded
  BY DEF Good, Sound, Types, StoresCopy, At
<1>h. PICK h \in Handles : req[w].h = h
  BY <1>1 DEF RequestSound, Live
<1> DEFINE o == open_files[h]
           t == Target(req[w].of.file)
           e == [open_files[h] EXCEPT !.fd = req[w].fd, !.object = t, !.cow_pending = FALSE]
           r == [req[w] EXCEPT !.at = "pwrite", !.use = req[w].fd, !.fd = NoFd]
           x == <<h, "entry">>
           y == <<w, "request">>
<1>2. /\ h \in Live /\ o \in OpenFile /\ o.writable /\ o.cow_pending
      /\ req[w].of \in OpenFile /\ o.file = req[w].of.file /\ req[w].fd # NoFd
      /\ req[w].fd \in Fds /\ req[w].of.file \in Files
  BY <1>1, <1>h DEF RequestSound, Live, Types, Request, OpenFile
<1>3. /\ open_files' = [open_files EXCEPT ![h] = e] /\ req' = [req EXCEPT ![w] = r]
      /\ provider' = [provider EXCEPT ![req[w].of.file] = "staged"]
  BY <1>1, <1>h, <1>2 DEF StoresCopy, Types
<1>4. t \in Objects /\ t[1] = req[w].of.file
  BY <1>2 DEF Objects, Target
<1>5. r \in Request /\ e \in OpenFile
  <2> HIDE DEF t
  <2>1. QED
    BY <1>1, <1>2, <1>4 DEF Request, Steps, OpenFile
<1>6. /\ r.at = "pwrite" /\ r.fd = NoFd /\ r.of = req[w].of /\ r.h = h /\ r.use = req[w].fd
      /\ e.file = o.file /\ e.object = t /\ e.writable = o.writable
      /\ ~e.cow_pending /\ e.fd = req[w].fd
  BY <1>1, <1>h, <1>2 DEF Request, OpenFile
<1> HIDE DEF r, e
<1>7. /\ open_files'[h] = e /\ req'[w] = r
      /\ \A g \in Handles \ {h} : open_files'[g] = open_files[g]
      /\ \A v \in Workers \ {w} : req'[v] = req[v]
  BY <1>1, <1>3 DEF Types
<1>8. h \in Live' /\ e.writable
  BY <1>2, <1>5, <1>6, <1>7, NoneAssumption DEF Live
<1>9. Changing(w)
  BY <1>1 DEF Changing
<1>10. EntryStep(w, h)
  <2>1. Firm(h)
    BY <1>2, <1>6, <1>7, <1>8 DEF Firm
  <2>2. QED
    BY <1>h, <1>2, <1>8, <1>9, <2>1 DEF EntryStep
<1>11. EntrySound(h)'
  BY <1>2, <1>4, <1>6, <1>7 DEF EntrySound, Target
<1>12. RequestSound(w)'
  BY <1>2, <1>6, <1>7, <1>8 DEF RequestSound
<1>13. FdsSound'
  <2>1. Dangling(h)
    BY <1>1, <1>h DEF Dangling, At
  <2>2. ~Dangling(h)'
    <3>1. ASSUME NEW v \in Workers, At(v, "table")', req'[v].h = h
          PROVE  FALSE
      <4>1. v # w /\ req'[v] = req[v] /\ At(v, "table")
        BY <1>6, <1>7, <3>1 DEF At
      <4>2. req[v].of.file = o.file
        BY <1>1, <3>1, <4>1 DEF Sound, RequestSound, At
      <4>3. QED
        BY <1>1, <1>2, <1>9, <4>1, <4>2 DEF Sound, LocksSound, Changing, At
    <3>2. QED
      BY <3>1 DEF Dangling
  <2>3. /\ x \in Parties /\ y \in Parties /\ x # y
        /\ FdOf(y) = req[w].fd /\ FdOf(y)' = NoFd /\ FdOf(x) = NoFd /\ FdOf(x)' = req[w].fd
        /\ ObjectOf(x)' = t
    BY <1>2, <1>6, <1>7, <1>8, <2>1, <2>2, PartyOf
  <2>4. ObjectOf(y) = t
    BY <1>1, <1>2 DEF ObjectOf
  <2>5. \A z \in Parties \ {x, y} : KeepsFd(z)
    BY <1>1, <1>h, <1>2, <1>3, <1>6, <1>7, OtherParties
  <2> HIDE DEF x, y, o, t
  <2>6. \A d \in Fds : fds'[d] = IF d = FdOf(x) THEN Closed ELSE fds[d]
    BY <1>1, <2>3, FdTypes
  <2>7. QED
    BY <1>1, <1>2, <2>3, <2>4, <2>5, <2>6, FdsHanding DEF Sound
<1>14. RetainedBounded'
  <2>1. Retained' \subseteq Retained
    BY <1>7, <1>8 DEF Retained, Live
  <2>2. Pruners \subseteq Pruners'
    BY <1>1, <1>3 DEF Pruners, At, Types
  <2>3. QED
    BY <1>1, <2>1, <2>2, RetainedChanges
<1>15. provider' \in [Files -> {"own", "staged"}] /\ fd_lru_tick' \in Nat
       /\ fds' \in [Fds -> Objects \cup {Closed}]
  BY <1>1, <1>3 DEF Types
<1>16. r # NoRequest /\ r.at # "idle" /\ r.at # "register"
  BY <1>6 DEF NoRequest
<1> HIDE DEF x, y, o, t
<1>17. QED
  BY <1>3, <1>5, <1>6, <1>9, <1>10, <1>11, <1>12, <1>13, <1>14, <1>15, <1>16, EntryGets

\* What both steps of a resize do with the entry.
LEMMA SwappedEntry ==
  ASSUME Good, NEW w \in Workers, req[w].at \in {"resize", "swap"}, NEW h \in Handles, req[w].h = h,
         NEW d \in Fds, SwapsIn(h, d, Target(req[w].of.file))
  PROVE  /\ h \in Live /\ h \in Live' /\ Firm(h) /\ EntrySound(h)' /\ EntryStep(w, h)
         /\ open_files'[h].writable /\ ~open_files'[h].cow_pending
         /\ open_files'[h].object = Target(req[w].of.file) /\ open_files'[h].fd = d
         /\ open_files'[h].file = req[w].of.file
         /\ \E e \in OpenFile : open_files' = [open_files EXCEPT ![h] = e]
         /\ \A g \in Handles \ {h} : open_files'[g] = open_files[g]
         /\ fds' \in [Fds -> Objects \cup {Closed}]
         /\ \A c \in Fds : fds'[c] = IF c = d THEN Target(req[w].of.file)
                                     ELSE IF c = open_files[h].fd THEN Closed ELSE fds[c]
         /\ Retained' \subseteq Retained
<1> DEFINE o == open_files[h]
           t == Target(req[w].of.file)
           e == [open_files[h] EXCEPT !.fd = d, !.object = t, !.writable = TRUE,
                                      !.cow_pending = FALSE]
<1>1. Types /\ Sound /\ RequestSound(w)
  BY DEF Good, Sound
<1>2. /\ h \in Live /\ o \in OpenFile /\ req[w].of \in OpenFile /\ o.file = req[w].of.file
      /\ req[w].of.file \in Files /\ EntrySound(h)
      /\ (req[w].at = "swap" => ~o.writable) /\ (req[w].at = "resize" => o.object # t)
  BY <1>1 DEF RequestSound, Sound, Live, Types, OpenFile
<1>3. t \in Objects /\ t[1] = req[w].of.file
  BY <1>2 DEF Objects, Target
<1>4. /\ open_files' = [open_files EXCEPT ![h] = e]
      /\ fds' = [c \in Fds |-> IF c = d THEN t ELSE IF c = open_files[h].fd THEN Closed ELSE fds[c]]
  BY <1>1, <1>2 DEF SwapsIn, Types
<1> HIDE DEF t
<1>5. e \in OpenFile
  BY <1>2, <1>3 DEF OpenFile
<1>6. e.file = o.file /\ e.object = t /\ e.writable /\ ~e.cow_pending /\ e.fd = d
  BY <1>2 DEF OpenFile
<1> HIDE DEF e
<1>7. open_files'[h] = e /\ \A g \in Handles \ {h} : open_files'[g] = open_files[g]
  BY <1>1, <1>4 DEF Types
<1>8. h \in Live'
  BY <1>5, <1>7, NoneAssumption DEF Live
<1>9. ~(o.writable /\ ~o.cow_pending)
  BY <1>2 DEF EntrySound, t
<1>10. Firm(h)
  BY <1>6, <1>7, <1>9 DEF Firm
<1>11. Changing(w)
  BY DEF Changing
<1>12. EntryStep(w, h)
  BY <1>2, <1>8, <1>10, <1>11 DEF EntryStep
<1>13. EntrySound(h)'
  <2>1. d # NoFd
    BY OpenFilesAssumption DEF NoFd
  <2>2. QED
    BY <1>2, <1>3, <1>6, <1>7, <2>1 DEF EntrySound, t, Target
<1>14. fds' \in [Fds -> Objects \cup {Closed}]
  BY <1>1, <1>3, <1>4 DEF Types
<1>15. Retained' \subseteq Retained
  BY <1>6, <1>7 DEF Retained, Live
<1> HIDE DEF o
<1>16. QED
  BY <1>2, <1>4, <1>5, <1>6, <1>7, <1>8, <1>10, <1>12, <1>13, <1>14, <1>15 DEF t, o

\* A game file's copy is opened for the entry.
LEMMA ResizeCopiesGood ==
  ASSUME Good, NEW w \in Workers, ResizeCopies(w)
  PROVE  Good'
<1>1. Types /\ Sound /\ RequestSound(w) /\ req[w] \in Request /\ req[w].at = "resize"
      /\ UNCHANGED <<provider, fd_lru_tick>> /\ RetainedBounded
  BY DEF Good, Sound, Types, ResizeCopies, At
<1>h. PICK h \in Handles : req[w].h = h
  BY <1>1 DEF RequestSound, Live
<1> DEFINE t == Target(req[w].of.file)
           r == [req[w] EXCEPT !.at = "upgrade"]
           x == <<h, "entry">>
<1>2. PICK d \in Fds : IsNextFd(d) /\ SwapsIn(h, d, t)
  BY <1>h DEF ResizeCopies
<1>3. /\ h \in Live /\ h \in Live' /\ EntrySound(h)' /\ EntryStep(w, h)
      /\ open_files'[h].object = t /\ open_files'[h].fd = d
      /\ open_files'[h].file = req[w].of.file
      /\ \A g \in Handles \ {h} : open_files'[g] = open_files[g]
      /\ fds' \in [Fds -> Objects \cup {Closed}]
      /\ \A c \in Fds : fds'[c] = IF c = d THEN t ELSE IF c = open_files[h].fd THEN Closed ELSE fds[c]
      /\ Retained' \subseteq Retained
  BY <1>1, <1>h, <1>2, SwappedEntry
<1>4. PICK e \in OpenFile : open_files' = [open_files EXCEPT ![h] = e]
  BY <1>1, <1>h, <1>2, SwappedEntry
<1>5. req' = [req EXCEPT ![w] = r] /\ r \in Request /\ req[w].fd = NoFd /\ req[w].of \in OpenFile
  BY <1>1 DEF ResizeCopies, Goto, Types, Request, Steps, RequestSound
<1>6. r.at = "upgrade" /\ r.fd = NoFd /\ r.of = req[w].of /\ r.h = h
  BY <1>1, <1>h, <1>5 DEF Request
<1> HIDE DEF r
<1>7. req'[w] = r
  BY <1>1, <1>5 DEF Types
<1>8. Changing(w)
  BY <1>1 DEF Changing
<1>9. t \in Objects
  BY <1>5 DEF Objects, Target, OpenFile
<1>10. RequestSound(w)'
  BY <1>3, <1>5, <1>6, <1>7 DEF RequestSound, Target
<1>11. FdsSound'
  <2>1. ~At(w, "table") /\ r.at # "table"
    BY <1>1, <1>6 DEF At
  <2>2. ~Dangling(h) /\ ~Dangling(h)'
    BY <1>1, <1>h, <1>5, <1>8, <2>1, NotDangling, PartiesKept
  <2>3. x \in Parties /\ FdOf(x) = open_files[h].fd /\ FdOf(x)' = d /\ ObjectOf(x)' = t
    BY <1>3, <2>2, PartyOf
  <2>4. KeepsFd(<<w, "request">>)
    BY <1>5, <1>6, <1>7 DEF KeepsFd, FdOf
  <2>5. \A z \in Parties \ {x, <<w, "request">>} : KeepsFd(z)
    BY <1>1, <1>3, <1>5, <2>1, OtherParties
  <2> HIDE DEF x, t
  <2>6. \A z \in Parties \ {x} : KeepsFd(z)
    BY <2>4, <2>5
  <2>7. fds[d] = Closed
    BY <1>2 DEF IsNextFd, FreeFds
  <2>8. \A c \in Fds : fds'[c] = IF c = d THEN ObjectOf(x)'
                                 ELSE IF c = FdOf(x) THEN Closed ELSE fds[c]
    BY <1>3, <2>3
  <2>9. QED
    BY <1>1, <1>9, <2>3, <2>6, <2>7, <2>8, FdsOpening DEF Sound
<1>12. RetainedBounded'
  <2>1. Pruners \subseteq Pruners'
    BY <1>1, <1>5 DEF Pruners, At, Types
  <2>2. QED
    BY <1>1, <1>3, <2>1, RetainedChanges
<1>13. provider' \in [Files -> {"own", "staged"}] /\ fd_lru_tick' \in Nat
  BY <1>1 DEF Types
<1>14. r # NoRequest /\ r.at # "idle" /\ r.at # "register"
  BY <1>6 DEF NoRequest
<1>15. QED
  BY <1>3, <1>4, <1>5, <1>6, <1>8, <1>10, <1>11, <1>12, <1>13, <1>14, EntryGets

\* The descriptor opened for writing is stored.
LEMMA ResizeSwapsGood ==
  ASSUME Good, NEW w \in Workers, ResizeSwaps(w)
  PROVE  Good'
<1>1. Types /\ Sound /\ RequestSound(w) /\ req[w] \in Request /\ req[w].at = "swap"
      /\ UNCHANGED <<provider, fd_lru_tick>> /\ RetainedBounded
  BY DEF Good, Sound, Types, ResizeSwaps, At
<1>h. PICK h \in Handles : req[w].h = h
  BY <1>1 DEF RequestSound, Live
<1>d. PICK d \in Fds : req[w].fd = d
  BY <1>1 DEF RequestSound, Request
<1> DEFINE t == Target(req[w].of.file)
           r == [req[w] EXCEPT !.at = "ftruncate", !.fd = NoFd]
           x == <<h, "entry">>
           y == <<w, "request">>
<1>2. SwapsIn(h, d, t)
  BY <1>h, <1>d DEF ResizeSwaps
<1>3. /\ h \in Live /\ h \in Live' /\ EntrySound(h)' /\ EntryStep(w, h)
      /\ open_files'[h].writable
      /\ open_files'[h].object = t /\ open_files'[h].fd = d
      /\ open_files'[h].file = req[w].of.file
      /\ \A g \in Handles \ {h} : open_files'[g] = open_files[g]
      /\ fds' \in [Fds -> Objects \cup {Closed}]
      /\ \A c \in Fds : fds'[c] = IF c = d THEN t ELSE IF c = open_files[h].fd THEN Closed ELSE fds[c]
      /\ Retained' \subseteq Retained
  BY <1>1, <1>h, <1>2, SwappedEntry
<1>4. PICK e \in OpenFile : open_files' = [open_files EXCEPT ![h] = e]
  BY <1>1, <1>h, <1>2, SwappedEntry
<1>5. req' = [req EXCEPT ![w] = r] /\ r \in Request /\ req[w].of \in OpenFile
  BY <1>1 DEF ResizeSwaps, Types, Request, Steps, RequestSound
<1>6. r.at = "ftruncate" /\ r.fd = NoFd /\ r.of = req[w].of /\ r.h = h
  BY <1>1, <1>h DEF Request
<1> HIDE DEF r
<1>7. req'[w] = r
  BY <1>1, <1>5 DEF Types
<1>8. Changing(w)
  BY <1>1 DEF Changing
<1>9. RequestSound(w)'
  BY <1>3, <1>5, <1>6, <1>7 DEF RequestSound, Target
<1>10. FdsSound'
  <2>1. ~At(w, "table") /\ r.at # "table"
    BY <1>1, <1>6 DEF At
  <2>2. ~Dangling(h) /\ ~Dangling(h)'
    BY <1>1, <1>h, <1>5, <1>8, <2>1, NotDangling, PartiesKept
  <2>3. /\ x \in Parties /\ y \in Parties /\ x # y
        /\ FdOf(y) = d /\ FdOf(y)' = NoFd /\ FdOf(x) = open_files[h].fd /\ FdOf(x)' = d
        /\ ObjectOf(x)' = t
    BY <1>d, <1>3, <1>6, <1>7, <2>2, PartyOf
  <2>4. ObjectOf(y) = t /\ d # NoFd
    BY <1>1, <1>d DEF ObjectOf, RequestSound
  <2>5. \A z \in Parties \ {x, y} : KeepsFd(z)
    BY <1>1, <1>3, <1>5, <2>1, OtherParties
  <2> HIDE DEF x, y, t
  <2>6. fds[d] = t /\ FdOf(x) # d
    BY <1>1, <2>3, <2>4 DEF Sound, FdsSound
  <2>7. \A c \in Fds : fds'[c] = IF c = FdOf(x) THEN Closed ELSE fds[c]
    BY <1>3, <2>3, <2>6
  <2>8. QED
    BY <1>1, <2>3, <2>4, <2>5, <2>7, FdsHanding DEF Sound
<1>11. RetainedBounded'
  <2>1. Pruners \subseteq Pruners'
    BY <1>1, <1>5 DEF Pruners, At, Types
  <2>2. QED
    BY <1>1, <1>3, <2>1, RetainedChanges
<1>12. provider' \in [Files -> {"own", "staged"}] /\ fd_lru_tick' \in Nat
  BY <1>1 DEF Types
<1>13. r # NoRequest /\ r.at # "idle" /\ r.at # "register"
  BY <1>6 DEF NoRequest
<1>14. QED
  BY <1>3, <1>4, <1>5, <1>6, <1>8, <1>9, <1>10, <1>11, <1>12, <1>13, EntryGets

\* Entries that no request uses are closed: all at unmounting, one by a release.
LEMMA ClosesGood ==
  ASSUME Good, NEW H \in SUBSET Handles, \A h \in H : ~Used(h), CloseAll(H),
         UNCHANGED <<provider, fd_lru_tick, req>>
  PROVE  Good'
<1> DEFINE X == {<<h, "entry">> : h \in H}
<1>1. Types /\ Sound /\ RetainedBounded /\ \A v \in Workers : RequestSound(v)
  BY DEF Good, Sound
<1>2. /\ \A d \in Fds : fds'[d] = IF \E h \in H \cap Live : open_files[h].fd = d
                                  THEN Closed ELSE fds[d]
      /\ \A h \in Handles : open_files'[h] = IF h \in H THEN None ELSE open_files[h]
  BY DEF CloseAll
<1>3. Types'
  <2>1. fds' \in [Fds -> Objects \cup {Closed}]
    BY <1>1 DEF CloseAll, Types
  <2>2. open_files' \in [Handles -> OpenFile \cup {None}]
    BY <1>1 DEF CloseAll, Types
  <2>3. QED
    BY <1>1, <2>1, <2>2 DEF Types, Idle
<1>4. Live' = Live \ H
  BY <1>2 DEF Live
<1>5. ASSUME NEW v \in Workers
      PROVE  RequestSound(v)'
  <2>1. CASE req[v].at = "idle"
    BY <1>1, <2>1 DEF RequestSound
  <2>2. CASE req[v].at = "register"
    <3>1. open_files'[req[v].h] = None
      BY <1>1, <1>2, <2>2 DEF RequestSound
    <3>2. QED
      BY <1>1, <2>2, <3>1 DEF RequestSound, Target
  <2>3. CASE req[v].at \notin {"idle", "register"}
    <3>1. req[v].h \in Live /\ req[v].h \notin H
      BY <1>1, <2>3 DEF RequestSound, Used
    <3>2. open_files'[req[v].h] = open_files[req[v].h] /\ req[v].h \in Live'
      BY <1>2, <1>4, <3>1 DEF Live
    <3>3. QED
      BY ZenonT(60), <1>1, <2>3, <3>2 DEF RequestSound, Target
  <2>4. QED
    BY <2>1, <2>2, <2>3
<1>6. LocksSound' /\ RegistersSound'
  BY <1>1 DEF Sound, LocksSound, RegistersSound, Changing, At
<1>7. FdsSound'
  <2>1. \A h \in Handles : Dangling(h)' <=> Dangling(h)
    BY DEF Dangling, At
  <2>2. \A h \in H : FdOf(<<h, "entry">>)' = NoFd
    BY <1>4 DEF FdOf
  <2>3. \A h \in Handles \ H : KeepsFd(<<h, "entry">>)
    BY <1>2, <1>4, <2>1 DEF KeepsFd, FdOf, ObjectOf
  <2>4. \A v \in Workers : KeepsFd(<<v, "request">>)
    BY DEF KeepsFd, FdOf, ObjectOf, Target
  <2>5. \A z \in Parties : IF z \in X THEN FdOf(z)' = NoFd ELSE KeepsFd(z)
    <3>1. \A h \in Handles : IF <<h, "entry">> \in X THEN FdOf(<<h, "entry">>)' = NoFd
                             ELSE KeepsFd(<<h, "entry">>)
      BY <2>2, <2>3
    <3>2. \A v \in Workers : <<v, "request">> \notin X
      OBVIOUS
    <3> HIDE DEF X
    <3>3. QED
      BY <2>4, <3>1, <3>2 DEF Parties
  <2>6. \A d \in Fds : (\E z \in X \cap Parties : FdOf(z) = d)
                         <=> (\E h \in H \cap Live : open_files[h].fd = d)
    <3>1. X \cap Parties = X
      BY DEF Parties
    <3>2. \A h \in H : FdOf(<<h, "entry">>) = IF h \in Live THEN open_files[h].fd ELSE NoFd
      BY <1>1, NotDangling DEF FdOf
    <3>3. NoFd \notin Fds
      BY <1>1, FdTypes
    <3>4. QED
      BY <3>1, <3>2, <3>3
  <2> HIDE DEF X
  <2>7. \A d \in Fds : fds'[d] = IF \E z \in X \cap Parties : FdOf(z) = d THEN Closed ELSE fds[d]
    BY <1>2, <2>6
  <2>8. QED
    BY <1>1, <2>5, <2>7, FdsClosing DEF Sound
<1>8. RetainedBounded'
  <2>1. Retained' \subseteq Retained
    BY <1>2, <1>4 DEF Retained, Live
  <2>2. Pruners' = Pruners
    BY DEF Pruners, At
  <2>3. QED
    BY <1>1, <2>1, <2>2, RetainedChanges
<1>9. \A h \in Live' : EntrySound(h)'
  BY <1>1, <1>2, <1>4 DEF Sound, EntrySound, Live, Target
<1>10. QED
  BY <1>3, <1>5, <1>6, <1>7, <1>8, <1>9 DEF Good, Sound

-----------------------------------------------------------------------------
(* The theorems.                                                            *)

\* At the start nothing is open and nobody is at work.
LEMMA InitGood == Init => Good
<1> SUFFICES ASSUME Init PROVE Good
  OBVIOUS
<1>1. Live = {} /\ Retained = {}
  BY DEF Init, Live, Retained
<1>2. \A w \in Workers : req[w] = NoRequest
  BY DEF Init
<1>3. NoRequest \in Request /\ NoRequest.at = "idle" /\ NoRequest.fd = NoFd
  BY DEF NoRequest, Request, Steps
<1>4. Types
  BY <1>2, <1>3 DEF Init, Types, Idle
<1>5. RetainedBounded
  <2>1. IsFiniteSet(Pruners)
    BY OpenFilesAssumption, FS_Subset DEF Pruners
  <2>2. Cardinality(Pruners) \in Nat /\ MAX_RETAINED_RO_FDS \in Nat
    BY <2>1, FS_CardinalityType, OpenFilesAssumption
  <2>3. Cardinality(Retained) = 0
    BY <1>1, FS_EmptySet
  <2>4. QED
    BY <2>2, <2>3 DEF RetainedBounded
<1>6. \A w \in Workers : RequestSound(w)
  BY <1>2, <1>3 DEF RequestSound
<1>7. LocksSound /\ RegistersSound
  BY <1>2, <1>3 DEF LocksSound, RegistersSound, Changing, At
<1>8. FdsSound
  <2>1. \A x \in Parties : FdOf(x) = NoFd
    BY <1>1, <1>2, <1>3 DEF Parties, FdOf
  <2>2. \A d \in Fds : fds[d] = Closed
    BY DEF Init
  <2>3. QED
    BY <2>1, <2>2 DEF FdsSound
<1>9. QED
  BY <1>1, <1>4, <1>5, <1>6, <1>7, <1>8 DEF Good, Sound

\* No step of any request breaks it.
LEMMA NextGood == Good /\ [Next]_vars => Good'
<1> SUFFICES ASSUME Good, [Next]_vars PROVE Good'
  OBVIOUS
<1>1. CASE UNCHANGED vars
  <2>1. UNCHANGED <<provider, fds, open_files, fd_lru_tick, req>>
    BY <1>1 DEF vars
  <2>2. Types' /\ RetainedBounded'
    BY <2>1 DEF Good, Types, RetainedBounded, Retained, Live, Pruners, At, Idle
  <2>3. \A x \in Parties : KeepsFd(x)
    BY <2>1 DEF KeepsFd, FdOf, ObjectOf, Live, Dangling, At, Target
  <2>4. FdsSound'
    BY <2>1, <2>3, FdsKept DEF Good, Sound
  <2>5. LocksSound' /\ RegistersSound'
    BY <2>1 DEF Good, Sound, LocksSound, RegistersSound, Changing, At
  <2>6. \A h \in Live' : EntrySound(h)'
    BY <2>1 DEF Good, Sound, EntrySound, Live, Target
  <2>7. \A w \in Workers : RequestSound(w)'
    <3>1. Live' = Live
      BY <2>1 DEF Live
    <3>2. \A w \in Workers : RequestSound(w)
      BY DEF Good, Sound
    <3>3. QED
      BY <2>1, <3>1, <3>2 DEF RequestSound
  <2>8. QED
    BY <2>2, <2>4, <2>5, <2>6, <2>7 DEF Good, Sound
<1>2. ASSUME NEW w \in Workers, Opening(w)
      PROVE  Good'
  BY <1>2, OpenForReadingGood, OpenForWritingGood DEF Opening
<1>3. ASSUME NEW w \in Workers, Reading(w)
      PROVE  Good'
  BY <1>3, QuietRequests, ReadOpensGood, RetainsGood, ReadRefusedGood, PrunesGood, TouchesGood
     DEF Reading
<1>4. ASSUME NEW w \in Workers, Writing(w)
      PROVE  Good'
  BY <1>4, QuietRequests, OpensCopyGood, ClosesSourceGood, StoresCopyGood DEF Writing
<1>5. ASSUME NEW w \in Workers, Resizing(w)
      PROVE  Good'
  BY <1>5, QuietRequests, ResizeCopiesGood, ResizeUpgradesGood, ResizeSwapsGood DEF Resizing
<1>6. ASSUME NEW w \in Workers, NEW h \in Handles, Release(w, h)
      PROVE  Good'
  <2>1. {h} \in SUBSET Handles /\ (\A g \in {h} : ~Used(g)) /\ CloseAll({h})
        /\ UNCHANGED <<provider, fd_lru_tick, req>>
    BY <1>6 DEF Release
  <2>2. QED
    BY <2>1, ClosesGood
<1>7. ASSUME CloseOpenFiles
      PROVE  Good'
  <2>1. \A h \in Handles : ~Used(h)
    <3>1. \A w \in Workers : req[w].h = None
      BY <1>7 DEF CloseOpenFiles, Good, Types, NoRequest
    <3>2. None \notin Handles
      BY NoneAssumption
    <3>3. QED
      BY <3>1, <3>2 DEF Used
  <2>2. CloseAll(Handles) /\ UNCHANGED <<provider, fd_lru_tick, req>>
    BY <1>7 DEF CloseOpenFiles
  <2>3. QED
    BY <2>1, <2>2, ClosesGood
<1>8. QED
  BY <1>1, <1>2, <1>3, <1>4, <1>5, <1>6, <1>7, RegisterGood DEF Next

\* Hence it always holds.
LEMMA AlwaysGood == Spec => []Good
<1>1. QED
  BY InitGood, NextGood, PTL DEF Spec

\* Every variable has its type; a handle that may write has a descriptor; the read-only
\* descriptors that are retained pass the limit by no more than the reads about to prune.
THEOREM TypeCorrect == Spec => []TypeOK
<1>1. Good => TypeOK
  BY DEF Good, Types, RetainedBounded, Pruners, Sound, EntrySound, TypeOK
<1>2. QED
  BY <1>1, AlwaysGood, PTL

\* Whichever way reads, writes, resizes and releases overlap, on any number of workers, an
\* open descriptor has exactly one owner that will close it, and a closed one has none.
THEOREM DescriptorsOwnedOnce == Spec => []OneHolder
<1>1. ASSUME Good, NEW d \in Fds
      PROVE  Cardinality(Holders(d)) = IF fds[d] = Closed THEN 0 ELSE 1
  <2>1. Types /\ Sound /\ FdsSound /\ d # NoFd
    BY <1>1, FdTypes DEF Good, Sound
  <2>2. ASSUME NEW m \in Holders(d)
        PROVE  \E x \in Parties : x[1] = m /\ FdOf(x) = d
    <3>1. CASE m \in Live /\ open_files[m].fd = d /\ ~Dangling(m)
      <4>1. <<m, "entry">> \in Parties /\ FdOf(<<m, "entry">>) = d
        BY <3>1 DEF Parties, FdOf, Live
      <4>2. QED
        BY <4>1
    <3>2. CASE m \in Workers /\ req[m].fd = d
      <4>1. <<m, "request">> \in Parties /\ FdOf(<<m, "request">>) = d
        BY <3>2 DEF Parties, FdOf
      <4>2. QED
        BY <4>1
    <3>3. CASE m \in Workers /\ At(m, "register") /\ req[m].of.fd = d
      <4>1. req[m].fd = d
        BY <2>1, <3>3 DEF Sound, RequestSound, At
      <4>2. QED
        BY <3>2, <3>3, <4>1
    <3>4. QED
      BY <2>2, <3>1, <3>2, <3>3 DEF Holders
  <2>3. CASE fds[d] = Closed
    <3>1. Holders(d) = {}
      BY <2>1, <2>2, <2>3 DEF FdsSound
    <3>2. QED
      BY <2>3, <3>1, FS_EmptySet
  <2>4. CASE fds[d] # Closed
    <3>1. PICK x \in Parties : FdOf(x) = d
      BY <2>1, <2>4 DEF FdsSound
    <3>2. x[1] \in Holders(d)
      BY <2>1, <3>1 DEF Parties, FdOf, Holders
    <3>3. \A m \in Holders(d) : m = x[1]
      BY <2>1, <2>2, <3>1 DEF FdsSound
    <3>4. Holders(d) = {x[1]}
      BY <3>2, <3>3
    <3>5. QED
      BY <2>4, <3>4, FS_Singleton
  <2>5. QED
    BY <2>3, <2>4
<1>2. Good => OneHolder
  BY <1>1 DEF OneHolder
<1>3. QED
  BY <1>2, AlwaysGood, PTL

\* A write or a resize reaches the staged copy of a game file, never the game's own, even
\* if descriptors are closed and their numbers used again between the lock and the call.
THEOREM GameInstallSpared == Spec => []GameFilesSpared
<1>1. ASSUME Good, NEW w \in Workers, At(w, "pwrite") \/ At(w, "ftruncate")
      PROVE  /\ fds[open_files[req[w].h].fd] = Target(req[w].of.file)
             /\ At(w, "pwrite") => open_files[req[w].h].fd = req[w].use
  <2> DEFINE h == req[w].h
             x == <<h, "entry">>
  <2>1. Sound /\ RequestSound(w) /\ FdsSound
    BY <1>1 DEF Good, Sound
  <2>2. /\ h \in Live /\ h \in Handles /\ open_files[h].file = req[w].of.file
        /\ EntrySound(h) /\ open_files[h].writable
        /\ At(w, "pwrite") => open_files[h].fd = req[w].use
    BY <1>1, <2>1 DEF RequestSound, At, Live, Sound
  <2>3. open_files[h].object = Target(req[w].of.file)
    BY <1>1, <2>1, <2>2 DEF RequestSound, EntrySound, At
  <2>4. ~Dangling(h)
    BY <1>1, <2>1, <2>2, NotDangling DEF Changing, At
  <2>5. x \in Parties /\ FdOf(x) = open_files[h].fd /\ FdOf(x) # NoFd
    BY <2>2, <2>4 DEF Parties, FdOf, EntrySound
  <2>6. ObjectOf(x) = open_files[h].object
    BY DEF ObjectOf
  <2> HIDE DEF x
  <2>7. QED
    BY <2>1, <2>2, <2>3, <2>5, <2>6 DEF FdsSound
<1>2. Good => GameFilesSpared
  BY <1>1 DEF GameFilesSpared
<1>3. QED
  BY <1>2, AlwaysGood, PTL

\* The descriptor of an entry is open on the file that the entry names, and one opened for
\* writing in place is neither replaced nor closed under a read that has copied it.
THEOREM EntriesNameTheirFiles == Spec => []EntriesMatch
<1>1. ASSUME Good, NEW h \in Live, open_files[h].fd # NoFd, ~Dangling(h)
      PROVE  fds[open_files[h].fd] = open_files[h].object
  <2> DEFINE x == <<h, "entry">>
  <2>1. x \in Parties /\ FdOf(x) = open_files[h].fd /\ ObjectOf(x) = open_files[h].object
    BY <1>1 DEF Parties, FdOf, ObjectOf, Live
  <2> HIDE DEF x
  <2>2. QED
    BY <1>1, <2>1 DEF Good, Sound, FdsSound
<1>2. ASSUME Good, NEW w \in Workers, At(w, "splice"), req[w].of.writable,
             ~req[w].of.cow_pending
      PROVE  fds[req[w].use] = req[w].of.object
  <2>1. /\ req[w].h \in Live /\ open_files[req[w].h].writable
        /\ ~open_files[req[w].h].cow_pending /\ open_files[req[w].h].fd = req[w].use
        /\ open_files[req[w].h].object = req[w].of.object
    BY <1>2 DEF Good, Sound, RequestSound, At
  <2>2. ~Dangling(req[w].h)
    BY <1>2, <2>1, NotDangling DEF Good, Live
  <2>3. open_files[req[w].h].fd # NoFd
    BY <1>2, <2>1 DEF Good, Sound, EntrySound
  <2>4. QED
    BY <1>1, <1>2, <2>1, <2>2, <2>3
<1>3. ASSUME Good, NEW h \in Live
      PROVE  EntrySound(h)
  BY <1>3 DEF Good, Sound
<1>4. Good => EntriesMatch
  BY <1>1, <1>2, <1>3 DEF EntriesMatch, EntrySound
<1>5. QED
  BY <1>4, AlwaysGood, PTL
=============================================================================
