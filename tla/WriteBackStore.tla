---------------------------- MODULE WriteBackStore ----------------------------
(***************************************************************************)
(* What staging and promotion promise to the user of the VFS, without      *)
(* journals, markers or system calls: a write is held until its content    *)
(* has reached a destination, or until it has been set aside for the user, *)
(* and nothing is exposed while something set aside is unresolved.         *)
(***************************************************************************)
EXTENDS Naturals

CONSTANTS Paths, Values, Dests, Absent

VARIABLES
    dest,        \* files of each destination
    held,        \* writes not released yet
    aside,       \* writes set aside for the user
    unresolved,  \* the user has to look at them first
    exposed,     \* the VFS is mounted
    interventions  \* what users and other programs did so far

vars == <<dest, held, aside, unresolved, exposed, interventions>>

Files == [Paths -> Values \cup {Absent}]
None  == [p \in Paths |-> Absent]

Init ==
    /\ dest \in [Dests -> Files]
    /\ held \in Files /\ aside \in Files
    /\ unresolved \in BOOLEAN
    /\ aside # None => unresolved
    /\ exposed = FALSE
    /\ interventions = 0

\* Writes are accepted while the VFS is exposed.
Accept(p, v) ==
    /\ exposed
    /\ held' = [held EXCEPT ![p] = v]
    /\ UNCHANGED <<dest, aside, unresolved, exposed, interventions>>

Expose ==
    /\ ~exposed /\ ~unresolved
    /\ exposed' = TRUE
    /\ UNCHANGED <<dest, held, aside, unresolved, interventions>>

Hide ==
    /\ exposed
    /\ exposed' = FALSE
    /\ UNCHANGED <<dest, held, aside, unresolved, interventions>>

\* The user asked for the writes of the session to be dropped.
Discard ==
    /\ exposed
    /\ exposed' = FALSE
    /\ held' = None
    /\ UNCHANGED <<dest, aside, unresolved, interventions>>

\* A write, held or set aside, is installed while nothing is exposed.
Install(d, p) ==
    /\ ~exposed
    /\ \E v \in {held[p], aside[p]} \ {Absent} : dest' = [dest EXCEPT ![d][p] = v]
    /\ UNCHANGED <<held, aside, unresolved, exposed, interventions>>

Reached(files, p) == \E d \in Dests : dest[d][p] = files[p]

\* A held write is let go only when a destination has its content.
Release(p) ==
    /\ ~exposed
    /\ Reached(held, p)
    /\ held' = [held EXCEPT ![p] = Absent]
    /\ UNCHANGED <<dest, aside, unresolved, exposed, interventions>>

\* What was set aside is resolved without the user once all of it is installed.
ReleaseAside ==
    /\ ~exposed /\ unresolved
    /\ \A p \in Paths : aside[p] = Absent \/ Reached(aside, p)
    /\ unresolved' = FALSE /\ aside' = None
    /\ UNCHANGED <<dest, held, exposed, interventions>>

\* The user is told before anything is set aside.
Warn ==
    /\ ~exposed /\ ~unresolved
    /\ unresolved' = TRUE
    /\ UNCHANGED <<dest, held, aside, exposed, interventions>>

SetAside ==
    /\ ~exposed /\ unresolved /\ aside = None
    /\ aside' = held /\ held' = None
    /\ UNCHANGED <<dest, unresolved, exposed, interventions>>

\* Other programs and the user change destinations and settle what was set aside.
Outside ==
    /\ ~exposed
    /\ interventions' = interventions + 1
    /\ dest' \in [Dests -> Files]
    /\ \/ UNCHANGED <<aside, unresolved>>
       \/ unresolved /\ unresolved' = FALSE /\ aside' = None
    /\ UNCHANGED <<held, exposed>>

Next ==
    \/ \E p \in Paths : Release(p) \/ \E v \in Values : Accept(p, v)
    \/ \E p \in Paths, d \in Dests : Install(d, p)
    \/ Expose \/ Hide \/ Discard \/ ReleaseAside \/ Warn \/ SetAside
    \/ Outside

Spec == Init /\ [][Next]_vars
=============================================================================
