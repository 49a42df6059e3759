-------------------------- MODULE SessionDirectory --------------------------
(***************************************************************************)
(* What the mounted file system promises to the programs of a session: a   *)
(* directory of files.  A file is created empty, it changes its size when  *)
(* it is written or truncated, it is removed, and it is renamed, which     *)
(* moves the whole file to the new name over whatever was there.           *)
(***************************************************************************)
EXTENDS Naturals

CONSTANTS
    Paths,   \* names of files
    MaxSize, \* bound: size of a file
    Absent   \* no file

\* A file is told apart by the path it was first created or installed at.
Content == [by : Paths, size : 0..MaxSize]

VARIABLE view

Create(p) ==
    /\ view[p] = Absent
    /\ view' = [view EXCEPT ![p] = [by |-> p, size |-> 0]]

Change(p, n) ==
    /\ view[p] # Absent
    /\ view' = [view EXCEPT ![p].size = n]

Remove(p) == view' = [view EXCEPT ![p] = Absent]

Rename(p, q) ==
    /\ view[p] # Absent
    /\ view' = [view EXCEPT ![q] = view[p], ![p] = Absent]

Init == view \in [Paths -> Content \cup {Absent}]

Next ==
    \/ \E p \in Paths : Create(p) \/ Remove(p)
    \/ \E p \in Paths, n \in 0..MaxSize : Change(p, n)
    \/ \E p, q \in Paths : p # q /\ Rename(p, q)

Spec == Init /\ [][Next]_view
=============================================================================
