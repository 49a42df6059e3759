------------------------------ MODULE Namespace ------------------------------
(***************************************************************************)
(* The names of the mounted file system (vfs/mo2filesystem.cpp): the       *)
(* handlers that create, remove and rename files and directories, and the  *)
(* requests that look names up, stat inodes and list directories meanwhile.*)
(* A name is kept in five places: the tree, the inode table, the runtime   *)
(* index, the listing caches and the cache of tree nodes by inode.  Each   *)
(* has a mutex of its own, so a handler updates them one after the other.  *)
(*                                                                         *)
(* One change at a time holds namespace_mutation_mutex (mut); one request  *)
(* that only reads runs next to it (req), in steps between which any lock  *)
(* is free.  The kernel's directory lock is a part of the environment: a   *)
(* change of a directory excludes lookups and listings of it, but not the  *)
(* revalidation of a name that is known, a stat of an inode, or a flush.   *)
(*                                                                         *)
(* Staging and overwrite are one store.  Files are opened for writing one  *)
(* at a time (handle).  What happens to contents is in VirtualFiles.       *)
(***************************************************************************)
EXTENDS RuntimeIndex, FiniteSetsExt

CONSTANTS
    Dirs,         \* the paths that are used for directories
    Merged,       \* what mods and game provide: a sequence of spelled paths, parents first
    NoListing,    \* nothing cached for a directory
    Dangling,     \* a pointer to a node that has been freed
    Idle,         \* no request
    AutoCreate,   \* auto_create_dirs: whether lookups make directories
    Habits,       \* what programs do beside the ordinary, a subset of AllHabits
    MaxChanges    \* bound: changes of the namespace

\* Renaming or deleting a name while a handle is open on it, renaming a directory
\* that has files, and creating a name again in another spelling.
AllHabits == {"rename while open", "unlink while open", "rename full directory", "respell"}

Leaves == Paths \ Dirs
SpelledDirs == {s \in Spelled : s.key \in Dirs \cup {Root}}
MergedPaths == {Merged[n].key : n \in DOMAIN Merged}

ASSUME NamespaceAssumption ==
    /\ Dirs \subseteq Paths /\ \A p \in Paths : Parent(p) \in Dirs \cup {Root}
    /\ \A p \in Dirs : Parent(p) = Root
    /\ Dangling \notin AllPaths \cup {NoPath}
    /\ \A p, q \in Dirs : \A r \in Paths : Within(r, p) => Moved(r, p, q) \in Paths
    /\ Merged \in Seq([key : Paths, sp : Spellings]) /\ Len(Merged) < MaxIno
    /\ \A n \in DOMAIN Merged : Parent(Merged[n].key) \in
          {Root} \cup {Merged[i].key : i \in 1..(n - 1)}
    /\ \A m, n \in DOMAIN Merged : Merged[m].key = Merged[n].key => m = n
    /\ AutoCreate \in BOOLEAN /\ Habits \subseteq AllHabits /\ MaxChanges \in Nat

VARIABLES
    tree,      \* VfsTree: what each path is
    shown,     \* display_names: the spelling of each name of the root, or "none"
    store,     \* the paths that are on disk in staging or overwrite
    table,     \* InodeTable
    base,      \* the base of the runtime index, which never changes
    index,     \* the rest of it
    nodes,     \* node_cache: for each inode the path of the node it points to
    entries,   \* dir_cache, by the spelled path of the directory
    blobs,     \* readdir_blob_cache, made from it
    handle,    \* the open file: its path at the time it was opened, or Idle
    mut,       \* the change that holds namespace_mutation_mutex
    req,       \* the request that runs beside it
    seen,      \* for the properties: whether the name looked up was there, so far
    late,      \* for the properties: paths a request published after a change
    revived,   \* for the properties: paths a flush has put back
    misfiled,  \* for the properties: names a directory has lost while it was listed
    changes    \* changes begun

caches == <<nodes, entries, blobs>>
vars   == <<tree, shown, store, table, base, index, caches, handle, mut, req, seen, late, revived,
            misfiled, changes>>

-----------------------------------------------------------------------------
(* The tree.                                                                *)

AnySpelling == CHOOSE s \in Spellings : TRUE
RootPath    == [key |-> Root, sp |-> AnySpelling]
IsDir(p)    == p = Root \/ tree[p] = "dir"
Children(p) == {q \in Paths : Parent(q) = p /\ tree[q] # "absent"}
Below(p)    == {q \in Paths : Within(q, p)}

\* canonicalChildName: the spelling shown now, or the one that was asked for.
Canonical(dir, name, sp) ==
    [key |-> Append(dir.key, name),
     sp  |-> IF dir.key # Root THEN dir.sp
             ELSE IF shown[<<name>>] # "none" THEN shown[<<name>>] ELSE sp]

\* removeFromTree: the node goes with everything below it, and its directory with
\* it if that leaves it empty.
Gone(p) ==
    IF tree[p] = "absent" THEN {}
    ELSE Below(p) \cup
         (IF Parent(p) # Root /\ Children(Parent(p)) = {p} THEN {Parent(p)} ELSE {})

Without(t, gone) == [q \in Paths |-> IF q \in gone THEN "absent" ELSE t[q]]

\* insertFile and insertDirectory: missing parents are created with the node.
With(t, p, what) ==
    [q \in Paths |-> IF q = p THEN what
                     ELSE IF Within(p, q) /\ t[q] = "absent" THEN "dir" ELSE t[q]]

\* The spellings of the names of the root after the tree has become t, the path
\* s.key having been put in.
Shown(t, s) ==
    [q \in DOMAIN shown |-> IF t[q] = "absent" THEN "none"
                            ELSE IF shown[q] = "none" THEN s.sp ELSE shown[q]]

-----------------------------------------------------------------------------
(* The caches.                                                              *)

SamePath(a, b) == a.key = b.key /\ (a.key = Root \/ a.sp = b.sp)
BelowPath(a, b) == b.key = Root \/ (a.sp = b.sp /\ Within(a.key, b.key))

\* Mutant: only the path and what is below it, not what is above it.
TouchesMissesAncestors(a, b) == a = NoPath \/ BelowPath(a, b)

\* pathTouchesMutation; an inode without a path has the empty one.
Touches(a, b) == a = NoPath \/ BelowPath(a, b) \/ BelowPath(b, a)

\* invalidateNodeCache for each path in changed; the nodes at the paths in gone are
\* freed, and a pointer to one that is still cached dangles.
Forget(changed, gone) ==
    [i \in Ino |->
        IF \E s \in changed : Touches(table.path[i], s) THEN NoPath
        ELSE IF nodes[i] \in gone THEN Dangling ELSE nodes[i]]

\* Mutant: the rendered listing is kept.
DropListingsKeepsBlob(under) ==
    /\ entries' = [s \in DOMAIN entries |-> IF under[s] THEN NoListing ELSE entries[s]]
    /\ UNCHANGED blobs

DropListings(under) ==
    /\ entries' = [s \in DOMAIN entries |-> IF under[s] THEN NoListing ELSE entries[s]]
    /\ blobs'   = [s \in DOMAIN blobs |-> IF under[s] THEN NoListing ELSE blobs[s]]

\* The directories whose listing invalidateDirCache(dir) drops for each of dirs, and
\* invalidateDirSubtreeCache for each of subtrees.
Dropped(dirs, subtrees) ==
    [s \in DOMAIN entries |-> \/ \E d \in dirs : SamePath(s, d)
                              \/ \E d \in subtrees : BelowPath(s, d)]

-----------------------------------------------------------------------------
(* What a lookup answers.                                                   *)

\* resolveByInode, when the node of the inode is not cached.
DirOfInode(i) == IF table.path[i] = NoPath THEN NoPath ELSE table.path[i].key

\* The answer of mo2_lookup if nothing comes in between: the inode, or 0.
Answer(k) ==
    LET hit == Lookup(base, index, k)
        dir == DirOfInode(k[1])
        p   == Append(dir, k[2])
    IN  IF hit.source # "missing" THEN hit.ino
        ELSE IF dir = NoPath THEN 0
        ELSE IF p \notin Paths \/ ~IsDir(dir) THEN 0
        ELSE IF tree[p] = "absent" THEN 0
        ELSE IF table.ino[p] = 0 THEN table.next ELSE table.ino[p]

\* What lookups from the root make of a path: its inode, or 0.  A directory that a
\* lookup would give the next inode is read from the tree.
Find(p) ==
    LET dir == IF Parent(p) = Root THEN 1 ELSE Answer(<<1, p[1]>>)
    IN  IF dir = 0 THEN 0
        ELSE IF dir < table.next THEN Answer(<<dir, Name(p)>>)
        ELSE IF tree[p] = "absent" THEN 0
        ELSE IF table.ino[p] = 0 THEN table.next ELSE table.ino[p]

\* What the kernel knows: each name that a lookup found is in the index.
HitOf(i, n) == Lookup(base, index, <<i, n>>)
DirIno(p)   == IF p = Root THEN 1 ELSE HitOf(1, p[1]).ino
KnownIno(p) == IF DirIno(Parent(p)) = 0 THEN 0 ELSE HitOf(DirIno(Parent(p)), Name(p)).ino
Known(p)    == KnownIno(p) # 0
KnownDirs   == {1} \cup ({DirIno(p) : p \in Dirs} \ {0})

-----------------------------------------------------------------------------
(* A change of the namespace.  Its record: kind, the step it is at, the path *)
(* it is about (path), the destination of a rename (to), what is put into    *)
(* the tree, the inodes, and the directories the kernel keeps locked.        *)

NoChange == [kind |-> "none", step |-> "none", path |-> RootPath, to |-> RootPath,
             what |-> "absent", ino |-> 0, dirs |-> {}]

Begin(kind, path, to, what, dirs) ==
    /\ changes < MaxChanges
    /\ req # Idle => req.dirs \cap dirs = {}
    /\ changes' = changes + 1
    /\ mut' = [kind |-> kind, step |-> "tree", path |-> path, to |-> to, what |-> what,
               ino |-> 0, dirs |-> dirs]

Parents(p) == {q \in Paths : q # p /\ Within(p, q)}
ParentPath(s) == [s EXCEPT !.key = Parent(s.key)]
Pinned(p) == handle # Idle /\ Within(handle.key, p)

\* The spelling a program asks for: another one than the first if it respells.
Spells == IF "respell" \in Habits THEN Spellings ELSE {AnySpelling}

\* mo2_create: createFile makes the file and its directories in staging.
Create(p, sp) ==
    /\ p \in Leaves /\ handle = Idle
    /\ DirIno(Parent(p)) # 0 /\ Find(p) = 0
    /\ LET i == DirIno(Parent(p))
       IN  /\ table.path[i] # NoPath
           /\ Begin("create", Canonical(table.path[i], Name(p), sp), RootPath, "empty", {i})
           /\ store' = store \cup {Append(table.path[i].key, Name(p))}
                             \cup Parents(Append(table.path[i].key, Name(p)))
    /\ Room(table, 1)
    /\ UNCHANGED <<tree, shown, table, base, index, caches, handle, req>>

\* mo2_mkdir.
Mkdir(p, sp) ==
    /\ p \in Dirs /\ Parent(p) = Root /\ Find(p) = 0
    /\ Begin("mkdir", Canonical(RootPath, Name(p), sp), RootPath, "dir", {1})
    /\ store' = store \cup {p}
    /\ Room(table, 1)
    /\ UNCHANGED <<tree, shown, table, base, index, caches, handle, req>>

\* flushDirtyOpenFileMetadata of a handle that has been written, under the path the
\* handle was opened with.
Flush ==
    /\ handle # Idle
    /\ Begin("flush", handle, RootPath, "written", {})
    /\ Room(table, 2)
    /\ UNCHANGED <<tree, shown, store, table, base, index, caches, handle, req>>

\* mo2_open of a file for writing, under the path of its inode; a file of the game
\* is copied when it is written, one of a mod is written in place.
OpenFile(p) ==
    /\ p \in Leaves /\ handle = Idle
    /\ Known(p) /\ tree[p] # "absent" /\ table.ino[p] # 0
    /\ handle' = table.path[table.ino[p]]
    /\ store' \in {store, store \cup {p} \cup Parents(p)}
    /\ UNCHANGED <<tree, shown, table, base, index, caches, mut, req, changes>>

Release ==
    /\ handle # Idle
    /\ handle' = Idle
    /\ UNCHANGED <<tree, shown, store, table, base, index, caches, mut, req, changes>>

\* mo2_unlink: removed from the store, or only from view.
Unlink(p) ==
    /\ p \in Leaves /\ Known(p)
    /\ Pinned(p) => "unlink while open" \in Habits
    /\ LET i == DirIno(Parent(p))
           s == Canonical(table.path[i], Name(p), AnySpelling)
       IN  /\ table.path[i] # NoPath
           /\ s.key \in store \/ tree[s.key] # "absent"
           /\ Begin("unlink", s, RootPath, "absent", {i})
           /\ store' = store \ {s.key}
    /\ UNCHANGED <<tree, shown, table, base, index, caches, handle, req>>

\* mo2_rmdir: the directory has to be in the tree, without children, and empty in
\* the store.
Rmdir(p) ==
    /\ p \in Dirs /\ Known(p)
    /\ tree[p] = "dir" /\ Children(p) = {}
    /\ Below(p) \cap store \subseteq {p}
    /\ Begin("rmdir", Canonical(RootPath, Name(p), AnySpelling), RootPath, "absent",
             {1, KnownIno(p)})
    /\ store' = store \ {p}
    /\ UNCHANGED <<tree, shown, table, base, index, caches, handle, req>>

\* mo2_rename: what is in the store moves there, a file that is not is copied to the
\* new name, a directory that is not cannot be renamed.
Rename(p, q, sp) ==
    /\ p # q /\ (p \in Dirs <=> q \in Dirs)
    /\ Known(p) /\ DirIno(Parent(q)) # 0
    /\ Pinned(p) \/ Pinned(q) => "rename while open" \in Habits
    /\ p \in Dirs /\ (Children(p) # {} \/ Children(q) # {} \/ Below(p) \cap store # {p}) =>
          "rename full directory" \in Habits
    /\ LET i == DirIno(Parent(p))
           j == DirIno(Parent(q))
           s == Canonical(table.path[i], Name(p), sp)
           t == Canonical(table.path[j], Name(q), sp)
       IN  /\ table.path[i] # NoPath /\ table.path[j] # NoPath
           /\ s.key = p /\ t.key = q /\ tree[p] # "absent"
           /\ \/ p \in Leaves /\ store' = (store \ {p}) \cup {q} \cup Parents(q)
              \/ /\ p \in Dirs /\ p \in store
                 /\ Below(q) \cap store \subseteq {q}
                 /\ store' = (store \ Below(p)) \cup {Moved(r, p, q) : r \in Below(p) \cap store}
           /\ Begin("rename", s, t, tree[p], {i, j} \cup ({KnownIno(q)} \ {0}))
    /\ Room(table, 1)
    /\ UNCHANGED <<tree, shown, table, base, index, caches, handle, req>>

\* The change of the tree, under its lock, with the invalidation of the node cache.
ChangeTree ==
    /\ mut.step = "tree"
    /\ LET removed == IF mut.kind \in {"unlink", "rmdir", "rename"} THEN Gone(mut.path.key)
                      ELSE {}
           target  == IF mut.kind = "rename" THEN mut.to ELSE mut.path
           rest    == Without(tree, removed)
           put     == mut.kind \in {"create", "flush", "mkdir", "phantom", "rename"}
           freed   == removed \cup (IF put /\ mut.what # "dir" THEN {target.key} ELSE {})
       IN  /\ tree'  = IF put THEN With(rest, target.key, mut.what) ELSE rest
           /\ shown' = Shown(tree', target)
           /\ nodes' = Forget({mut.path} \cup (IF mut.kind = "rename" THEN {mut.to} ELSE {}),
                              freed)
    /\ mut' = [mut EXCEPT !.step =
                  CASE mut.kind \in {"create", "flush"}  -> "publish"
                    [] mut.kind \in {"mkdir", "phantom"} -> "listings"
                    [] mut.kind = "rename"               -> "inodes"
                    [] OTHER                             -> "tombstone",
                  !.ino = table.ino[mut.path.key]]
    /\ UNCHANGED <<store, table, base, index, entries, blobs, handle, req, changes>>

\* InodeTable::rename.
ChangeInodes ==
    /\ mut.step = "inodes"
    /\ table' = RenameInode(table, mut.path, mut.to)
    /\ mut' = [mut EXCEPT !.step = "tombstone"]
    /\ UNCHANGED <<tree, shown, store, base, index, caches, handle, req, changes>>

\* tombstoneRuntimePath; nothing is hidden if the parent has no inode.
TombstonePath ==
    /\ mut.step = "tombstone"
    /\ LET parent == table.ino[Parent(mut.path.key)]
       IN  index' = IF parent = 0 THEN index
                    ELSE Tombstone(index, <<parent, Name(mut.path.key)>>, mut.ino)
    /\ mut' = [mut EXCEPT !.step = IF mut.kind = "rename" THEN "publish" ELSE "listings"]
    /\ UNCHANGED <<tree, shown, store, table, base, caches, handle, req, changes>>

\* Mutant: a name that has its inode in the index already is not published again.
PublishPathOnce(t, s, ino, what) ==
    LET u == GetOrCreate(t, ParentPath(s))
        k == <<u.ino[Parent(s.key)], Name(s.key)>>
    IN  /\ table' = u
        /\ index' = IF index.child[k] = ino THEN index
                    ELSE Publish(index, k, ino, [path |-> s, what |-> what])
        /\ Room(u, 0)

\* publishRuntimeSnapshot of the path s, whose node is what, with the inodes in t.
PublishPath(t, s, ino, what) ==
    LET u == GetOrCreate(t, ParentPath(s))
    IN  /\ table' = u
        /\ index' = Publish(index, <<u.ino[Parent(s.key)], Name(s.key)>>, ino,
                            [path |-> s, what |-> what])
        /\ Room(u, 0)

\* The inode is looked up or allocated, then the node published.  A rename publishes
\* the inode of the old name, if there is one.
PublishChange ==
    /\ mut.step = "publish"
    /\ IF mut.kind # "rename"
         THEN LET t == GetOrCreate(table, mut.path)
              IN  PublishPath(t, mut.path, t.ino[mut.path.key], mut.what)
         ELSE IF mut.ino = 0 THEN UNCHANGED <<table, index>>
         ELSE PublishPath(table, mut.to, mut.ino, mut.what)
    /\ mut' = IF mut.kind \in {"flush", "mkdir", "phantom"} THEN NoChange
              ELSE [mut EXCEPT !.step = "listings"]
    /\ UNCHANGED <<tree, shown, store, base, caches, handle, req, changes>>

\* invalidateDirCache of the parents, and of the subtrees of a directory that was
\* renamed or removed.  mkdir publishes after this, the others end.
InvalidateListings ==
    /\ mut.step = "listings"
    /\ LET parents  == {ParentPath(mut.path)} \cup
                       (IF mut.kind = "rename" THEN {ParentPath(mut.to)} ELSE {})
           subtrees == IF mut.kind = "rmdir" THEN {mut.path}
                       ELSE IF mut.kind = "rename" /\ mut.what = "dir" THEN {mut.path, mut.to}
                       ELSE {}
       IN  DropListings(Dropped(parents, subtrees))
    /\ IF mut.kind \in {"mkdir", "phantom"}
         THEN mut' = [mut EXCEPT !.step = "publish"] /\ UNCHANGED handle
         ELSE /\ mut' = NoChange
              /\ handle' = IF mut.kind = "create" THEN mut.path ELSE handle
    /\ UNCHANGED <<tree, shown, store, table, base, index, nodes, req, changes>>
-----------------------------------------------------------------------------
(* A request beside it: a lookup, a stat of an inode, or a listing.  Its     *)
(* record: the inode and name it is about, the directories the kernel keeps  *)
(* locked for it, and what it has found.                                     *)

\* How far the changes have come.
Progress == <<changes, mut.step>>

Start(kind, step, ino, name, dirs) ==
    /\ mut.dirs \cap dirs = {}
    /\ req' = [kind |-> kind, step |-> step, ino |-> ino, name |-> name, dirs |-> dirs,
               what |-> "absent", answer |-> 0, names |-> {},
               path |-> IF kind = "listing" THEN table.path[ino] ELSE RootPath,
               version |-> Progress]
    /\ UNCHANGED <<tree, shown, store, table, base, index, caches, handle, mut, changes>>

\* Reply to the request: it stays for one step, so that the answer can be judged.
Reply(ino) == req' = [req EXCEPT !.step = "replied", !.answer = ino]
Step(step) == req' = [req EXCEPT !.step = step]

EndRequest ==
    /\ req # Idle /\ req.step = "replied"
    /\ req' = Idle
    /\ UNCHANGED <<tree, shown, store, table, base, index, caches, handle, mut, changes>>

\* A directory is locked for the lookup of a name; a name that is known is
\* revalidated without the lock.
StartLookup(i, n) ==
    /\ table.path[i] # NoPath
    /\ Append(table.path[i].key, n) \in Paths
    /\ \/ Start("lookup", "overlay", i, n, {i})
       \/ HitOf(i, n).ino # 0 /\ Start("lookup", "overlay", i, n, {})

Section(step, hit, next) ==
    /\ req # Idle /\ req.step = step
    /\ IF hit.source = "missing" THEN Step(next) ELSE Reply(hit.ino)
    /\ UNCHANGED <<tree, shown, store, table, base, index, caches, handle, mut, changes>>

ReqKey == <<req.ino, req.name>>

OverlaySection  == req # Idle /\ Section("overlay", LookupOverlay(index, ReqKey), "base")
BaseSection     == req # Idle /\ Section("base", LookupBase(base, index, ReqKey), "negative")
NegativeSection == req # Idle /\ Section("negative", LookupNegative(index, ReqKey), "tree")

\* resolveByInode: the cached node, or the node at the path of the inode, which is
\* then cached.  The root has no entry in the cache.
Resolved(i) ==
    IF i = 1 THEN Root
    ELSE IF nodes[i] # NoPath THEN nodes[i]
    ELSE IF table.path[i] = NoPath THEN NoPath
    ELSE IF tree[table.path[i].key] = "absent" THEN NoPath ELSE table.path[i].key

CacheNode(i) ==
    nodes' = IF i = 1 \/ Resolved(i) = NoPath THEN nodes ELSE [nodes EXCEPT ![i] = Resolved(i)]

\* lookupChild in the tree, after the index knew nothing.
TreeSection ==
    /\ req # Idle /\ req.step = "tree"
    /\ Resolved(req.ino) # Dangling
    /\ CacheNode(req.ino)
    /\ LET dir   == Resolved(req.ino)
           found == dir # NoPath /\ IsDir(dir) /\ tree[Append(dir, req.name)] # "absent"
       IN  req' = IF found THEN [req EXCEPT !.step = "inode",
                                            !.what = tree[Append(dir, req.name)],
                                            !.version = Progress]
                  ELSE [req EXCEPT !.step = "unknown"]
    /\ UNCHANGED <<tree, shown, store, table, base, index, entries, blobs, handle, mut, changes>>

\* The name is recorded as missing.
RecordMissing ==
    /\ req # Idle /\ req.step = "unknown"
    /\ ~AutoCreate \/ <<req.name>> \notin Dirs
    /\ index' = RecordNegative(base, index, ReqKey)
    /\ Reply(0)
    /\ UNCHANGED <<tree, shown, store, table, base, caches, handle, mut, changes>>

\* auto_create_dirs: a name that looks like a directory is put into the tree, and the
\* request goes on as a change of the namespace, with the directory still locked.
CreatePhantom ==
    /\ req # Idle /\ req.step = "unknown"
    /\ AutoCreate /\ req.ino = 1 /\ <<req.name>> \in Dirs
    /\ mut = NoChange /\ changes < MaxChanges /\ Room(table, 1)
    /\ mut' = [NoChange EXCEPT !.kind = "phantom", !.step = "tree", !.what = "dir",
                               !.path = Canonical(RootPath, req.name, AnySpelling),
                               !.dirs = req.dirs]
    /\ changes' = changes + 1
    /\ req' = Idle
    /\ UNCHANGED <<tree, shown, store, table, base, index, caches, handle>>

\* The tree has the name: its inode is looked up or allocated.
FoundInode ==
    /\ req # Idle /\ req.step = "inode"
    /\ IF table.path[req.ino] = NoPath
         THEN Reply(0) /\ UNCHANGED table
         ELSE LET s == Canonical(table.path[req.ino], req.name, AnySpelling)
              IN  /\ Room(table, 2)
                  /\ table' = GetOrCreate(table, s)
                  /\ req' = [req EXCEPT !.step = "heal", !.path = s,
                                        !.answer = table'.ino[s.key]]
    /\ UNCHANGED <<tree, shown, store, base, index, caches, handle, mut, changes>>

\* mo2_getattr of an inode the kernel knows.
StartGetattr(i) ==
    /\ 1 < i /\ i < table.next
    /\ Start("getattr", "node", i, "none", {})

GetattrNode ==
    /\ req # Idle /\ req.step = "node"
    /\ IF NodeOf(base, index, req.ino) # NoNode THEN Reply(req.ino) ELSE Step("stat")
    /\ UNCHANGED <<tree, shown, store, table, base, index, caches, handle, mut, changes>>

GetattrTree ==
    /\ req # Idle /\ req.step = "stat"
    /\ Resolved(req.ino) # Dangling
    /\ CacheNode(req.ino)
    /\ IF Resolved(req.ino) = NoPath THEN Reply(0)
       ELSE req' = [req EXCEPT !.step = "path", !.what = tree[Resolved(req.ino)],
                               !.version = Progress]
    /\ UNCHANGED <<tree, shown, store, table, base, index, entries, blobs, handle, mut, changes>>

GetattrPath ==
    /\ req # Idle /\ req.step = "path"
    /\ IF table.path[req.ino] = NoPath THEN Reply(req.ino)
       ELSE req' = [req EXCEPT !.step = "heal", !.path = table.path[req.ino],
                               !.answer = req.ino]
    /\ UNCHANGED <<tree, shown, store, table, base, index, caches, handle, mut, changes>>

\* What a lookup or a stat found in the tree is published, with no lock that would
\* keep a change out since it was read.
Heal ==
    /\ req # Idle /\ req.step = "heal"
    /\ PublishPath(table, req.path, req.answer, req.what)
    /\ Step("replied")
    /\ UNCHANGED <<tree, shown, store, base, caches, handle, mut, changes>>

\* mo2_readdir, with the directory locked.
StartListing(i) ==
    /\ table.path[i] # NoPath
    /\ Start("listing", "entries", i, "none", {i})

\* getOrBuildDirEntries, first look into the cache.
CachedEntries ==
    /\ req # Idle /\ req.step = "entries"
    /\ req' = IF entries[req.path] # NoListing
                THEN [req EXCEPT !.step = "blob", !.names = entries[req.path]]
                ELSE [req EXCEPT !.step = "build"]
    /\ UNCHANGED <<tree, shown, store, table, base, index, caches, handle, mut, changes>>

\* buildDirEntries: the children in the tree, which all get an inode.
BuildEntries ==
    /\ req # Idle /\ req.step = "build"
    /\ IF ~IsDir(req.path.key)
         THEN Reply(0) /\ UNCHANGED table
         ELSE LET children == Children(req.path.key)
                  parent   == GetOrCreate(table, ParentPath(req.path))
                  fresh    == SetToSeq({q \in children : parent.ino[q] = 0})
              IN  /\ Room(table, Cardinality(children) + 1)
                  /\ table' = Numbered(parent, [n \in DOMAIN fresh |->
                                 Canonical(req.path, Name(fresh[n]), AnySpelling)])
                  /\ req' = [req EXCEPT !.step = "keep", !.names = {Name(q) : q \in children}]
    /\ UNCHANGED <<tree, shown, store, base, index, caches, handle, mut, changes>>

\* The listing is cached unless there is one by now.
KeepEntries ==
    /\ req # Idle /\ req.step = "keep"
    /\ LET s == req.path
       IN  IF entries[s] # NoListing
             THEN req' = [req EXCEPT !.step = "blob", !.names = entries[s]] /\ UNCHANGED entries
             ELSE Step("blob") /\ entries' = [entries EXCEPT ![s] = req.names]
    /\ UNCHANGED <<tree, shown, store, table, base, index, nodes, blobs, handle, mut, changes>>

\* getOrBuildReaddirBlob.
KeepBlob ==
    /\ req # Idle /\ req.step = "blob"
    /\ LET s == req.path
       IN  /\ blobs' = IF blobs[s] # NoListing THEN blobs ELSE [blobs EXCEPT ![s] = req.names]
           /\ req' = [req EXCEPT !.step = "replied", !.names = blobs'[s]]
    /\ UNCHANGED <<tree, shown, store, table, base, index, nodes, entries, handle, mut, changes>>

\* The oldest entries of the negative cache expire.
ExpireNegative ==
    /\ index.expired < Len(index.expiry)
    /\ index' = [index EXCEPT !.expired = @ + 1]
    /\ UNCHANGED <<tree, shown, store, table, base, caches, handle, mut, req, changes>>

-----------------------------------------------------------------------------
Init ==
    LET table0 == Numbered(EmptyTable(AnySpelling), Merged)
    IN  /\ tree = [p \in Paths |-> IF p \notin MergedPaths THEN "absent"
                                   ELSE IF p \in Dirs THEN "dir" ELSE "provided"]
        /\ shown = [p \in {q \in Paths : Parent(q) = Root} |->
                       IF p \in MergedPaths
                         THEN (CHOOSE s \in Range(Merged) : s.key = p).sp ELSE "none"]
        /\ store \in {q \in SUBSET MergedPaths : \A p \in q : Parents(p) \subseteq q}
        /\ table = table0
        /\ base = Build({[path |-> s, what |-> tree[s.key]] : s \in Range(Merged)}, table0)
        /\ index = EmptyIndex
        /\ nodes = [i \in Ino |-> NoPath]
        /\ entries = [s \in SpelledDirs |-> NoListing]
        /\ blobs = entries
        /\ handle = Idle /\ mut = NoChange /\ req = Idle
        /\ seen = {} /\ late = {} /\ revived = {} /\ misfiled = {} /\ changes = 0

Change ==
    \/ /\ mut = NoChange
       /\ \/ \E p \in Paths, sp \in Spells : Create(p, sp) \/ Mkdir(p, sp)
          \/ \E p, q \in Paths, sp \in Spells : Rename(p, q, sp)
          \/ \E p \in Paths : Unlink(p) \/ Rmdir(p) \/ OpenFile(p)
          \/ Flush \/ Release
    \/ ChangeTree \/ ChangeInodes \/ TombstonePath \/ PublishChange \/ InvalidateListings

Request ==
    \/ /\ req = Idle
       /\ \/ \E i \in KnownDirs : StartListing(i) \/ \E n \in Names : StartLookup(i, n)
          \/ \E i \in Ino : StartGetattr(i)
    \/ OverlaySection \/ BaseSection \/ NegativeSection \/ TreeSection
    \/ RecordMissing \/ CreatePhantom \/ FoundInode
    \/ GetattrNode \/ GetattrTree \/ GetattrPath \/ Heal
    \/ CachedEntries \/ BuildEntries \/ KeepEntries \/ KeepBlob
    \/ EndRequest

LookingUp == IF req = Idle THEN FALSE ELSE req.kind = "lookup"

\* Whether the name that is looked up is there: either, while a change of it is going
\* on or when its directory has lost its name.
Presence ==
    LET p == Append(table.path[req.ino].key, req.name)
    IN  IF table.path[req.ino] = NoPath \/ p \notin Leaves \ late THEN BOOLEAN
        ELSE IF \E q \in {mut.path.key, mut.to.key} \ {Root} : Within(p, q) THEN BOOLEAN
        ELSE {tree[p] # "absent"}

\* For the properties: whether the name was there at a moment of the lookup; the paths
\* published although a change had gone on since they were read, with the path that
\* the inode has by then, and the names these get with their directory; the paths a
\* flush put into the tree after they had left it, with the directory if it had become
\* unknown; the directories renamed while they were listed.
Observe ==
    /\ late' = IF req # Idle /\ req.step = "heal" /\ req' # req /\ req.version # Progress
                THEN late \cup {req.path.key} \cup {p \in Paths : table.ino[p] = req.answer}
                ELSE IF mut.step = "inodes" /\ mut'.step = "tombstone"
                THEN late \cup {Moved(p, mut.path.key, mut.to.key) :
                                  p \in late \cap (Below(mut.path.key) \ {mut.path.key})}
                ELSE late
    /\ revived' = IF mut.kind = "flush" /\ mut.step = "tree" /\ mut'.step = "publish"
                   THEN revived \cup {p \in {mut.path.key} \cup Parents(mut.path.key) :
                                        tree[p] = "absent" /\ (p \in Dirs => ~Known(p))}
                   ELSE revived
    /\ misfiled' = IF req # Idle /\ req.kind = "listing" /\ table'.path[req.ino] # req.path
                    THEN misfiled \cup {req.path.key} ELSE misfiled
    /\ seen' = IF LookingUp' THEN seen \cup Presence' ELSE {}

Next == (Change \/ Request \/ ExpireNegative) /\ Observe

Spec == Init /\ [][Next]_vars

-----------------------------------------------------------------------------
(* Properties.                                                              *)

AtRest == mut = NoChange /\ req = Idle
Overtaken == {p \in Paths : \E q \in late : Within(p, q)}
Orphaned  == {p \in Paths : \E q \in revived \cap Dirs : Within(p, q)}

\* The type of every variable.  The two maps of the inode table agree, and so do the
\* two containers of the negative cache, which is bounded and has no name that the
\* index could find.
TypeOK ==
    /\ tree \in [Paths -> What \cup {"absent"}]
    /\ \A p \in Paths : tree[p] # "absent" => (tree[p] = "dir" <=> p \in Dirs)
    /\ shown \in [{p \in Paths : Parent(p) = Root} -> Spellings \cup {"none"}]
    /\ store \subseteq Paths
    /\ table \in Table /\ base \in Base
    /\ index.child \in [Key -> 0..MaxIno] /\ index.tombstones \subseteq Key
    /\ index.node \in [Ino -> Node \cup {NoNode}] /\ index.hidden \subseteq Ino
    /\ index.expired <= Len(index.expiry)
    /\ nodes \in [Ino -> AllPaths \cup {NoPath, Dangling}]
    /\ \A cache \in {entries, blobs} : DOMAIN cache = SpelledDirs /\
          \A s \in SpelledDirs : cache[s] = NoListing \/ cache[s] \subseteq Names
    /\ handle \in Spelled \cup {Idle}
    /\ late \cup revived \subseteq Paths /\ misfiled \subseteq AllPaths /\ changes \in Nat
    /\ TableAgrees(table) /\ NegativesAgree(base, index)

\* "Mutations [...] clear the cache before any pointer becomes dangling": no cached
\* pointer outlives the node of the tree it points to.
NoDanglingNode == \A i \in Ino : nodes[i] # Dangling

\* A lookup, for all the locks it takes in turn, answers what was so at some moment
\* of it: it finds a file only if the file was there, and misses it only if not.
LookupIsOfOneMoment ==
    LookingUp /\ req.step = "replied" => (req.answer # 0) \in seen

\* "Can never make a visible file unreachable": when nothing is being done, each
\* path of the tree is found by lookups from the root, under its own inode, unless a
\* request published it late.
VisibleReachable ==
    AtRest => \A p \in Paths \ (Overtaken \cup Orphaned) : tree[p] # "absent" =>
        /\ Find(p) # 0
        /\ table.ino[p] # 0 => Find(p) = table.ino[p]

\* When nothing is being done, a file that a lookup finds is in the tree, with the
\* size and provider the tree has, unless a request published it late.
FoundFilesCurrent ==
    AtRest => \A p \in Leaves \ Overtaken : Known(p) =>
        /\ tree[p] # "absent"
        /\ HitOf(DirIno(Parent(p)), Name(p)).node.what = tree[p]

\* Lookups and the tree agree, in both directions, when nothing is being done.
LookupsMatchTree == VisibleReachable /\ FoundFilesCurrent

\* When nothing is being done, a directory that a lookup finds is in the tree, where
\* rmdir and rename look for it.  Not so once its last file has been removed.
FoundDirectoriesExist ==
    AtRest => \A p \in Dirs : Known(p) => tree[p] # "absent"

\* When nothing is being done, the files of a cached listing are those of the
\* directory in the tree, and lookups find them.  A flush drops no listing: the name
\* it puts back after an unlink or a rename is missing there.  A listing that was
\* going on when its directory was renamed is kept under the name it had.
ListedFilesCurrent ==
    AtRest => \A s \in SpelledDirs : blobs[s] # NoListing /\ IsDir(s.key) /\ s.key \notin misfiled =>
        \A q \in Leaves : Parent(q) = s.key =>
            /\ Name(q) \in blobs[s] => tree[q] # "absent"
            /\ tree[q] # "absent" /\ q \notin revived => Name(q) \in blobs[s]
            /\ Name(q) \in blobs[s] /\ q \notin Overtaken \cup Orphaned => Find(q) # 0

\* "A child mutation changes exactly its parent's listing": a cached listing has the
\* directories that are in the tree as well.  Not so when a file brings its directory
\* back into the tree.
ListedDirectoriesCurrent ==
    AtRest => \A s \in SpelledDirs : blobs[s] # NoListing /\ IsDir(s.key) =>
        \A q \in Children(s.key) : Name(q) \in blobs[s]
=============================================================================
