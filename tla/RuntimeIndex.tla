----------------------------- MODULE RuntimeIndex -----------------------------
(***************************************************************************)
(* The index that answers lookups of the mounted file system:              *)
(* VfsRuntimeIndex (vfs/runtimeindex.cpp).  The base is built at mount and *)
(* never changes; creations, replacements and deletions are in an overlay; *)
(* missing names that were asked for are in a negative cache.              *)
(*                                                                         *)
(* The mutable part is a record, for one call is one critical section of   *)
(* m_overlayMutex.  lookup takes the mutex three times and so is three     *)
(* operators, which the modules that call it may interleave with others.   *)
(* All negative entries have the same time to live, so the map ordered by  *)
(* expiry is a sequence and the entries that have expired are a prefix.    *)
(***************************************************************************)
EXTENDS InodeTable

CONSTANTS
    Names,       \* normalized names
    NoNode,      \* no node
    MaxNegative  \* kMaxNegativeLookups

ASSUME IndexAssumption ==
    /\ Paths \subseteq Seq(Names)
    /\ MaxNegative \in Nat /\ MaxNegative >= 1

\* What a node is: a directory, a file as a mod or the game provides it, a file
\* just created, or one that has been written.
What == {"dir", "provided", "empty", "written"}
Node == [path : Spelled, what : What]
Key  == Ino \X Names

ASSUME NodeAssumption == NoNode \notin Node

Base  == [child : [Key -> 0..MaxIno], node : [Ino -> Node \cup {NoNode}]]
Index == [child : [Key -> 0..MaxIno], tombstones : SUBSET Key,
          node : [Ino -> Node \cup {NoNode}], hidden : SUBSET Ino,
          negative : SUBSET Key, expiry : Seq(Key), expired : Nat]

EmptyIndex ==
    [child |-> [k \in Key |-> 0], tombstones |-> {}, node |-> [i \in Ino |-> NoNode],
     hidden |-> {}, negative |-> {}, expiry |-> << >>, expired |-> 0]

\* The base of a tree whose nodes have the inodes of t.
Build(nodes, t) ==
    [child |-> [k \in Key |->
         LET q == {n \in nodes : t.ino[Parent(n.path.key)] = k[1] /\ Name(n.path.key) = k[2]}
         IN  IF q = {} THEN 0 ELSE t.ino[(CHOOSE n \in q : TRUE).path.key]],
     node |-> [i \in Ino |->
         LET q == {n \in nodes : t.ino[n.path.key] = i}
         IN  IF q = {} THEN NoNode ELSE CHOOSE n \in q : TRUE]]

-----------------------------------------------------------------------------
(* lookup, in its three critical sections, and node.                        *)

Found(ino, node) == [source |-> "node", ino |-> ino, node |-> node]
NotFound(source) == [source |-> source, ino |-> 0, node |-> NoNode]

\* Mutant: tombstones are not looked at.
LookupOverlayNoTombstones(x, k) ==
    IF x.child[k] # 0 /\ x.node[x.child[k]] # NoNode
      THEN Found(x.child[k], x.node[x.child[k]]) ELSE NotFound("missing")

LookupOverlay(x, k) ==
    IF k \in x.tombstones THEN NotFound("tombstone")
    ELSE IF x.child[k] # 0 /\ x.node[x.child[k]] # NoNode
           THEN Found(x.child[k], x.node[x.child[k]])
    ELSE NotFound("missing")

LookupBase(b, x, k) ==
    LET i == b.child[k]
    IN  IF i = 0 \/ i \in x.hidden THEN NotFound("missing")
        ELSE Found(i, IF x.node[i] # NoNode THEN x.node[i] ELSE b.node[i])

LookupNegative(x, k) ==
    IF \E n \in DOMAIN x.expiry : n > x.expired /\ x.expiry[n] = k /\ k \in x.negative
      THEN NotFound("negative") ELSE NotFound("missing")

\* The three sections without anything in between.
Lookup(b, x, k) ==
    LET overlay == LookupOverlay(x, k)
        below   == LookupBase(b, x, k)
    IN  IF overlay.source # "missing" THEN overlay
        ELSE IF below.source # "missing" THEN below
        ELSE LookupNegative(x, k)

NodeOf(b, x, i) ==
    IF i \in x.hidden THEN NoNode
    ELSE IF x.node[i] # NoNode THEN x.node[i] ELSE b.node[i]

-----------------------------------------------------------------------------
(* publish, tombstone, recordNegative.                                      *)

EraseNegative(x, k) ==
    IF k \notin x.negative THEN x
    ELSE LET at == CHOOSE n \in DOMAIN x.expiry : x.expiry[n] = k
         IN  [x EXCEPT !.negative = @ \ {k},
                       !.expiry   = RemoveAt(@, at),
                       !.expired  = IF at <= @ THEN @ - 1 ELSE @]

Publish(x, k, ino, node) ==
    EraseNegative([x EXCEPT !.node[ino] = node, !.hidden = @ \ {ino},
                            !.child[k] = ino, !.tombstones = @ \ {k}], k)

Tombstone(x, k, ino) ==
    LET y == EraseNegative([x EXCEPT !.tombstones = @ \cup {k}, !.child[k] = 0], k)
    IN  IF ino = 0 THEN y
        ELSE [y EXCEPT !.hidden = @ \cup {ino}, !.node[ino] = NoNode]

\* The n entries that expire first are dropped from both maps.
DropFirst(x, n) ==
    [x EXCEPT !.negative = @ \ {x.expiry[i] : i \in 1..n},
              !.expiry   = SubSeq(@, n + 1, Len(@)),
              !.expired  = IF n <= @ THEN @ - n ELSE 0]

\* A name in the overlay or in the base is never recorded.  Otherwise what has
\* expired goes, then, when the cache is full, the entry that expires next.
RecordNegative(b, x, k) ==
    IF k \in x.tombstones \/ x.child[k] # 0 \/ b.child[k] # 0 THEN x
    ELSE LET y == EraseNegative(DropFirst(x, x.expired), k)
             z == IF Len(y.expiry) >= MaxNegative THEN DropFirst(y, 1) ELSE y
         IN  [z EXCEPT !.negative = @ \cup {k}, !.expiry = Append(@, k)]

\* The two containers hold the same names, each once, and not too many; none of
\* them is a name that the index could find.
NegativesAgree(b, x) ==
    /\ x.negative = {x.expiry[n] : n \in DOMAIN x.expiry}
    /\ Cardinality(x.negative) = Len(x.expiry)
    /\ Len(x.expiry) <= MaxNegative
    /\ \A k \in x.negative : k \notin x.tombstones /\ x.child[k] = 0 /\ b.child[k] = 0
=============================================================================
