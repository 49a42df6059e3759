------------------------------- MODULE Launch -------------------------------
(***************************************************************************)
(* Starting a program under the mounted file system and knowing when it is *)
(* over (processrunner.cpp, processlifetime.cpp).  The program is a tree   *)
(* of processes that fork, exec, exit and are reparented while one waiter  *)
(* per launch polls /proc for them; what the waiter concludes decides      *)
(* whether the mount is taken away.                                        *)
(*                                                                         *)
(* The processes are the environment: they move between any two steps of   *)
(* a waiter.  One scan of /proc is one step, and what it cannot read (a    *)
(* directory, an environment, a status) it takes for absent.  All launches *)
(* use one Wine prefix; its executables to look for (expectedExecutables)  *)
(* are never none, and the game mounts the file system (usesVFS).          *)
(***************************************************************************)
EXTENDS Naturals, FiniteSets

CONSTANTS
    Launches,   \* what the user starts
    Stranger,   \* whom the processes of nobody's launch belong to
    Habits,     \* what the user does beside starting programs, a subset of AllHabits
    MaxProcs,   \* bound: processes
    MaxFaults   \* bound: queries of /proc that fail, processes that resist SIGKILL

\* Looking at the mounted directory in a modal dialog; closing Fluorine.
AllHabits == {"browse", "quit"}

\* Processes, by the order in which they started; an identity is used once.
Procs  == 1..MaxProcs
NoProc == 0

ASSUME LaunchAssumption ==
    /\ Stranger \notin Launches /\ Launches \cap {"nobody", "browse", "quit"} = {}
    /\ Habits \subseteq AllHabits
    /\ MaxProcs \in Nat /\ MaxFaults \in Nat

VARIABLES
    proc,      \* the processes
    runner,    \* ProcessRunner, for each launch
    waiter,    \* waitForProcessTree, for each launch
    mounted,   \* whether the virtual file system is mounted
    browsing,  \* whether the browse dialog is open
    up,        \* whether Fluorine runs
    asked,     \* whether a launch has asked a daemon to start its game
    withdrawn, \* for the properties: who took the mount away last
    unseen,    \* for the properties: what hid from a waiter, see ScanPrefix
    faults

vars == <<proc, runner, waiter, mounted, browsing, up, asked, withdrawn, unseen, faults>>

\* A lock may be taken without TriggerRefresh: "unrefreshed".
Modes   == {"async", "locked", "unrefreshed", "detached"}
Results == {"none", "completed", "cancelled", "unlocked", "error", "not started"}
Timers  == {"off", "ticking", "elapsed"}

-----------------------------------------------------------------------------
(* Processes.                                                               *)

Unused == [state |-> "none", of |-> Stranger, token |-> FALSE, name |-> "other",
           parent |-> NoProc]

Running(p)  == p # NoProc /\ proc[p].state = "running"
Fresh(p)    == /\ proc[p].state = "none"
               /\ \A q \in 1..(p - 1) : proc[q].state # "none"
Workload(l) == {p \in Procs : Running(p) /\ proc[p].of = l /\ proc[p].name # "wineserver"}

\* collectDescendants over the parents /proc shows: what is in every set that has the
\* children of p and of its own members.
Offspring(ps) == {p \in Procs : proc[p].parent \in ps}
Descendants(p) ==
    {q \in Procs : \A ps \in SUBSET Procs : Offspring({p} \cup ps) \subseteq ps => q \in ps}

\* Mutant: a process of the prefix matches whatever token it carries.
MatchesByPrefix(p, l, prefix) ==
    IF prefix THEN TRUE ELSE proc[p].token /\ proc[p].of = l

\* processEnvironmentMatchesLaunch: a token decides; without one, the prefix does.
Matches(p, l, prefix) == IF proc[p].token THEN proc[p].of = l ELSE prefix

\* What ps leaves when it exits: its children are reparented.
Exited(ps) ==
    [p \in Procs |->
        IF p \in ps THEN [proc[p] EXCEPT !.state = "exited", !.parent = NoProc]
        ELSE IF proc[p].parent \in ps THEN [proc[p] EXCEPT !.parent = NoProc]
        ELSE proc[p]]

\* A child carries the token of its parent.  What has no token is a game that
\* starts nothing else.
Fork(p, c, name) ==
    /\ Running(p) /\ proc[p].of \in Launches /\ proc[p].token
    /\ proc[p].name # "wineserver" /\ Fresh(c)
    /\ proc' = [proc EXCEPT ![c] = [proc[p] EXCEPT !.name = name, !.parent = p]]
    /\ UNCHANGED <<runner, waiter, mounted, browsing, up, asked, withdrawn, unseen, faults>>

Exec(p) ==
    /\ Running(p) /\ proc[p].name = "other"
    /\ proc' = [proc EXCEPT ![p].name = "expected"]
    /\ UNCHANGED <<runner, waiter, mounted, browsing, up, asked, withdrawn, unseen, faults>>

Exit(p) ==
    /\ Running(p)
    /\ proc' = Exited({p})
    /\ UNCHANGED <<runner, waiter, mounted, browsing, up, asked, withdrawn, unseen, faults>>

\* A launcher hands its game to a daemon of the prefix (once per launch), which
\* starts it without the token of the launch.
Ask(p) ==
    /\ Running(p) /\ proc[p].of \in Launches /\ proc[p].token
    /\ proc[p].name # "wineserver" /\ asked[proc[p].of] = "no"
    /\ asked' = [asked EXCEPT ![proc[p].of] = "open"]
    /\ UNCHANGED <<proc, runner, waiter, mounted, browsing, up, withdrawn, unseen, faults>>

Answer(l, c) ==
    /\ asked[l] = "open" /\ Fresh(c)
    /\ asked' = [asked EXCEPT ![l] = "answered"]
    /\ proc' = [proc EXCEPT ![c] = [state |-> "running", of |-> l, token |-> FALSE,
                                    name |-> "expected", parent |-> NoProc]]
    /\ UNCHANGED <<runner, waiter, mounted, browsing, up, withdrawn, unseen, faults>>

Environment ==
    \/ \E p \in Procs : Exec(p) \/ Exit(p) \/ Ask(p)
    \/ \E p \in Procs, c \in Procs, name \in {"other", "wineserver"} : Fork(p, c, name)
    \/ \E l \in Launches, c \in Procs : Answer(l, c)

-----------------------------------------------------------------------------
(* waitForProcessTree.                                                      *)

NotWaiting == [at |-> "off", rootExited |-> FALSE, tracked |-> NoProc, pending |-> NoProc,
               seen |-> FALSE, timer |-> "off", target |-> 1, doomed |-> {},
               survived |-> FALSE]

Root(l) == runner[l].root
At(l, step) == up /\ waiter[l].at = step
Set(l, w)   == waiter' = [waiter EXCEPT ![l] = w]

Locked(l) == runner[l].mode \in {"locked", "unrefreshed"}

\* Mutant: runnerResult and shouldRefresh take every verdict for an end.
CleansUpAlways(l, result) == TRUE

\* shouldRefresh; the thread of an unlocked launch decides in the same way.
CleansUp(l, result) ==
    runner[l].mode # "unrefreshed" /\ result \in {"completed", "unlocked"}

\* waitForProcessTree returns, which ends the launch or has afterRun come.
Return(l, result) ==
    /\ Set(l, NotWaiting)
    /\ runner' = [runner EXCEPT
           ![l].result = result,
           ![l].phase  = IF CleansUp(l, result) THEN "queued" ELSE "done"]

\* A game that no process runs yet because a daemon has still to start it.
Handover == NoProc

Hidden(l, ps) == unseen' = [unseen EXCEPT ![l] = @ \cup ps]
InView(l)     == unseen' = [unseen EXCEPT ![l] = {}]

\* What a query overlooks among candidates costs a fault, however many it is.
Overlook(blind, candidates) ==
    /\ blind \subseteq candidates
    /\ blind # {} => faults < MaxFaults
    /\ faults' = IF blind = {} THEN faults ELSE faults + 1

\* The statuses of the three references, at the top of the loop.
Poll(l) ==
    /\ At(l, "poll")
    /\ IF waiter[l].timer = "off" THEN InView(l) ELSE UNCHANGED unseen
    /\ LET w == waiter[l] IN
       Set(l, [w EXCEPT
           !.rootExited = ~Running(Root(l)),
           !.pending = IF Running(@) THEN @ ELSE NoProc,
           !.tracked = IF Running(@) THEN @ ELSE NoProc,
           !.at = IF Running(w.tracked) THEN "report"
                  ELSE IF Running(Root(l)) THEN "tree" ELSE "prefix"])
    /\ UNCHANGED <<proc, runner, mounted, browsing, up, asked, withdrawn, faults>>

PollFails(l) ==
    /\ At(l, "poll") /\ faults < MaxFaults
    /\ faults' = faults + 1
    /\ Return(l, "error")
    /\ UNCHANGED <<proc, mounted, browsing, up, asked, withdrawn, unseen>>

\* Mutant: the pending process is kept when it has become the game.
TrackKeepsPending(w, p) ==
    [w EXCEPT !.tracked = p, !.timer = "off", !.seen = TRUE, !.at = "report"]

\* A game process has been found.
Track(w, p) ==
    [w EXCEPT !.tracked = p, !.pending = IF @ = p THEN NoProc ELSE @,
              !.timer = "off", !.seen = TRUE, !.at = "report"]

\* findTrackedProcess, while the root was seen running.
InTree(l) ==
    {p \in Descendants(Root(l)) : Running(p) /\ proc[p].name = "expected"}

ScanTree(l) ==
    /\ At(l, "tree")
    /\ \E blind \in SUBSET InTree(l) :
          /\ Overlook(blind, InTree(l))
          /\ \/ \E p \in InTree(l) \ blind : Set(l, Track(waiter[l], p)) /\ InView(l)
             \/ /\ InTree(l) = blind
                /\ Set(l, [waiter[l] EXCEPT
                       !.at = IF waiter[l].seen THEN "prefix" ELSE "report"])
                /\ UNCHANGED unseen
    /\ UNCHANGED <<proc, runner, mounted, browsing, up, asked, withdrawn>>

\* findGameProcessInPrefix
InPrefix(l) ==
    {p \in Procs \ {Root(l)} :
        Running(p) /\ proc[p].name = "expected" /\ Matches(p, l, TRUE)}

\* What the scan overlooks is unseen until the waiter sees something of its launch.
ScanPrefix(l) ==
    /\ At(l, "prefix")
    /\ \E blind \in SUBSET InPrefix(l) :
          /\ Overlook(blind, InPrefix(l))
          /\ \/ \E p \in InPrefix(l) \ blind : Set(l, Track(waiter[l], p)) /\ InView(l)
             \/ /\ InPrefix(l) = blind
                /\ Set(l, [waiter[l] EXCEPT
                       !.at = IF waiter[l].rootExited THEN "pending" ELSE "report"])
                /\ Hidden(l, blind)
    /\ UNCHANGED <<proc, runner, mounted, browsing, up, asked, withdrawn>>

\* Mutant: only a process that is the game already keeps the launch pending.
PendingExpected(l) ==
    {p \in Procs \ {Root(l)} :
        Running(p) /\ proc[p].name = "expected" /\ Matches(p, l, FALSE)}

\* Mutant: the wineserver counts as a process of the launch.
PendingServer(l) ==
    {p \in Procs \ {Root(l)} : Running(p) /\ Matches(p, l, FALSE)}

\* findPendingLaunchProcess, where only the token counts.
Pending(l) ==
    {p \in Procs \ {Root(l)} :
        Running(p) /\ proc[p].name # "wineserver" /\ Matches(p, l, FALSE)}

\* No game.  A process of the launch may yet become it; without one that the scan can
\* see the launch is over when the grace period is.
ScanPending(l) ==
    /\ At(l, "pending")
    /\ LET w == waiter[l]
           found == IF w.pending # NoProc THEN {w.pending} ELSE Pending(l)
       IN  \E blind \in SUBSET IF w.pending # NoProc THEN {} ELSE found :
             /\ Overlook(blind, found)
             /\ \/ /\ \E p \in found \ blind :
                         Set(l, [w EXCEPT !.pending = p, !.timer = "off", !.at = "report"])
                   /\ InView(l)
                   /\ UNCHANGED runner
                \/ /\ found = blind /\ w.timer # "elapsed"
                   /\ Set(l, [w EXCEPT !.timer = "ticking", !.at = "report"])
                   /\ Hidden(l, blind)
                   /\ UNCHANGED runner
                \/ /\ found = blind /\ w.timer = "elapsed"
                   /\ Hidden(l, blind)
                   /\ Return(l, "completed")
    /\ UNCHANGED <<proc, mounted, browsing, up, asked, withdrawn>>

\* kNoCandidateGraceMs pass, in the sleep between two polls, whether or not a daemon
\* is about to start the game.
Elapse(l) ==
    /\ At(l, "poll") /\ waiter[l].timer = "ticking"
    /\ waiter' = [waiter EXCEPT ![l].timer = "elapsed"]
    /\ Hidden(l, IF asked[l] = "open" THEN {Handover} ELSE {})
    /\ UNCHANGED <<proc, runner, mounted, browsing, up, asked, withdrawn, faults>>

\* The progress callback, which only a locked launch has.
Report(l) ==
    /\ At(l, "report")
    /\ \/ Set(l, [waiter[l] EXCEPT !.at = "poll"]) /\ UNCHANGED runner
       \/ /\ Locked(l)
          /\ \/ Return(l, "cancelled")
             \/ Return(l, "error")
             \/ Set(l, [waiter[l] EXCEPT !.at = "kill"]) /\ UNCHANGED runner
    /\ UNCHANGED <<proc, mounted, browsing, up, asked, withdrawn, unseen, faults>>

\* Mutant: the process that a short-lived launcher left is not killed.
TargetsWithoutPending(l) == <<Root(l), waiter[l].tracked>>

\* What Unlock terminates, one after the other.
Targets(l) == <<Root(l), waiter[l].tracked, waiter[l].pending>>

\* killProcessTree: the tree as the scans show it, unless its root has exited.  A root
\* that may not be signalled counts as alive.
Snapshot(l) ==
    /\ At(l, "kill") /\ waiter[l].target \in DOMAIN Targets(l)
    /\ LET w == waiter[l]
           t == Targets(l)[w.target]
       IN  \/ /\ ~Running(t)
              /\ Set(l, [w EXCEPT !.target = @ + 1])
              /\ UNCHANGED faults
           \/ /\ Running(t)
              /\ \E blind \in SUBSET Descendants(t) :
                    /\ Overlook(blind, Descendants(t))
                    /\ Set(l, [w EXCEPT !.doomed = {t} \cup (Descendants(t) \ blind),
                                        !.at = "strike"])
           \/ /\ Running(t) /\ faults < MaxFaults
              /\ faults' = faults + 1
              /\ Set(l, [w EXCEPT !.target = @ + 1, !.survived = TRUE])
    /\ UNCHANGED <<proc, runner, mounted, browsing, up, asked, withdrawn, unseen>>

\* SIGTERM; and SIGKILL for what is then seen running.  A process may resist (it is in
\* the kernel), and its status may be unreadable, which spares it the SIGKILL.  If
\* nothing is seen running after the SIGTERM the tree counts as gone, and otherwise if
\* its root is seen to have exited.
Strike(l) ==
    /\ At(l, "strike")
    /\ LET w == waiter[l]
           alive == {p \in w.doomed : Running(p)}
           t == Targets(l)[w.target]
       IN  \E resists, unread \in {{}} \cup {{p} : p \in alive},
              left \in SUBSET alive, gone \in BOOLEAN :
             /\ faults' = faults + Cardinality(resists) + Cardinality(unread)
             /\ faults' <= MaxFaults
             /\ resists \subseteq left /\ left \subseteq resists \cup unread
             /\ IF t \in unread THEN gone => resists \subseteq unread
                                ELSE gone <=> t \notin resists
             /\ proc' = Exited(alive \ left)
             /\ Set(l, [w EXCEPT !.target = @ + 1, !.doomed = {}, !.at = "kill",
                                 !.survived = @ \/ ~gone])
             /\ Hidden(l, unread)
    /\ UNCHANGED <<runner, mounted, browsing, up, asked, withdrawn>>

\* Unlocked would have the mount taken away under a process that survived.
Verdict(survived) == IF survived THEN "error" ELSE "unlocked"

\* The rest of Unlock: killWineserverForPrefix, if every tree is gone.
Unlock(l) ==
    /\ At(l, "kill") /\ waiter[l].target \notin DOMAIN Targets(l)
    /\ proc' = IF waiter[l].survived THEN proc
               ELSE Exited({p \in Procs : Running(p) /\ proc[p].name = "wineserver"})
    /\ Return(l, Verdict(waiter[l].survived))
    /\ UNCHANGED <<mounted, browsing, up, asked, withdrawn, unseen, faults>>

Wait(l) ==
    \/ Poll(l) \/ PollFails(l)
    \/ ScanTree(l) \/ ScanPrefix(l) \/ ScanPending(l)
    \/ Report(l) \/ Snapshot(l) \/ Strike(l) \/ Unlock(l)

-----------------------------------------------------------------------------
(* ProcessRunner and OrganizerCore, on the main thread.                     *)

\* The user can start something: no dialog, no lock.
MainFree ==
    /\ up /\ ~browsing
    /\ \A l \in Launches :
          /\ runner[l].phase # "prepared"
          /\ ~(Locked(l) /\ runner[l].phase \in {"waiting", "queued"})

\* FuseConnector::unmount
Unmount(who) ==
    /\ mounted' = FALSE
    /\ withdrawn' = IF mounted THEN who ELSE withdrawn

\* beforeRun: mounts, or rebuilds what is mounted.  A failure takes it all away.
Prepare(l, mode) ==
    /\ MainFree /\ runner[l].phase = "idle"
    /\ \/ /\ mounted' = TRUE
          /\ runner' = [runner EXCEPT ![l].phase = "prepared", ![l].mode = mode]
          /\ UNCHANGED withdrawn
       \/ /\ Unmount(l)
          /\ runner' = [runner EXCEPT ![l].phase = "done", ![l].result = "not started"]
    /\ UNCHANGED <<proc, waiter, browsing, up, asked, unseen, faults>>

\* runBinary after the dialogs of checkSteam and checkBlacklist, and postRun: a
\* detached launch has nobody waiting for it.
Start(l, p) ==
    /\ up /\ runner[l].phase = "prepared" /\ Fresh(p)
    /\ proc' = [proc EXCEPT ![p] = [state |-> "running", of |-> l, token |-> TRUE,
                                    name |-> "other", parent |-> NoProc]]
    /\ runner' = [runner EXCEPT ![l].root = p,
           ![l].phase = IF runner[l].mode = "detached" THEN "done" ELSE "waiting"]
    /\ waiter' = IF runner[l].mode = "detached" THEN waiter
                 ELSE [waiter EXCEPT ![l].at = "poll"]
    /\ UNCHANGED <<mounted, browsing, up, asked, withdrawn, unseen, faults>>

\* abortPreparedLaunch
Abort(l) ==
    /\ up /\ runner[l].phase = "prepared"
    /\ Unmount(l)
    /\ runner' = [runner EXCEPT ![l].phase = "done", ![l].result = "not started"]
    /\ UNCHANGED <<proc, waiter, browsing, up, asked, unseen, faults>>

\* afterRun, from the event queue: it runs inside dialogs and locks as well.
AfterRun(l) ==
    /\ up /\ runner[l].phase = "queued"
    /\ Unmount(l)
    /\ runner' = [runner EXCEPT ![l].phase = "done"]
    /\ UNCHANGED <<proc, waiter, browsing, up, asked, unseen, faults>>

\* onBrowseVFS: mounted as long as the dialog is open.
Browse ==
    /\ "browse" \in Habits /\ MainFree
    /\ mounted' = TRUE /\ browsing' = TRUE
    /\ UNCHANGED <<proc, runner, waiter, up, asked, withdrawn, unseen, faults>>

EndBrowse ==
    /\ up /\ browsing
    /\ browsing' = FALSE
    /\ Unmount("browse")
    /\ UNCHANGED <<proc, runner, waiter, up, asked, unseen, faults>>

\* The window is closed: waitForAllUSVFSProcesses waits for nothing, the connector
\* unmounts when it is destroyed, and the threads that wait die.
Quit ==
    /\ "quit" \in Habits /\ MainFree
    /\ up' = FALSE
    /\ Unmount("quit")
    /\ UNCHANGED <<proc, runner, waiter, browsing, asked, unseen, faults>>

User ==
    \/ \E l \in Launches :
          \/ \E mode \in Modes : Prepare(l, mode)
          \/ \E p \in Procs : Start(l, p)
          \/ Abort(l)
    \/ Browse \/ EndBrowse \/ Quit

-----------------------------------------------------------------------------
\* A stranger may be running the same game from the same prefix, with or without the
\* token of another Fluorine.
Init ==
    /\ proc \in {[p \in Procs |-> Unused]} \cup
          {[p \in Procs |-> IF p = 1 THEN [Unused EXCEPT !.state = "running",
                                            !.name = "expected", !.token = carries]
                            ELSE Unused] : carries \in BOOLEAN}
    /\ runner = [l \in Launches |-> [phase |-> "idle", mode |-> "async", root |-> NoProc,
                                     result |-> "none"]]
    /\ waiter = [l \in Launches |-> NotWaiting]
    /\ mounted = FALSE /\ browsing = FALSE /\ up = TRUE
    /\ asked = [l \in Launches |-> "no"]
    /\ withdrawn = "nobody" /\ faults = 0
    /\ unseen = [l \in Launches |-> {}]

Next ==
    \/ Environment
    \/ User
    \/ \E l \in Launches : Wait(l) \/ Elapse(l) \/ AfterRun(l)

\* The loop of a waiter sleeps 50 ms at most, time passes, and the main thread
\* takes what is in its queue.  Nothing is assumed of the processes or the user.
Fairness ==
    \A l \in Launches : WF_vars(Wait(l)) /\ SF_vars(Elapse(l)) /\ WF_vars(AfterRun(l))

Spec == Init /\ [][Next]_vars /\ Fairness

-----------------------------------------------------------------------------
(* Properties.                                                              *)

TypeOK ==
    /\ proc \in [Procs -> [state : {"none", "running", "exited"},
                           of : Launches \cup {Stranger}, token : BOOLEAN,
                           name : {"other", "expected", "wineserver"},
                           parent : Procs \cup {NoProc}]]
    /\ runner \in [Launches -> [phase : {"idle", "prepared", "waiting", "queued", "done"},
                                mode : Modes, root : Procs \cup {NoProc},
                                result : Results]]
    /\ waiter \in [Launches ->
          [at : {"off", "poll", "tree", "prefix", "pending", "report", "kill", "strike"},
           rootExited : BOOLEAN, tracked : Procs \cup {NoProc},
           pending : Procs \cup {NoProc}, seen : BOOLEAN, timer : Timers,
           target : 1..4, doomed : SUBSET Procs, survived : BOOLEAN]]
    /\ \A l \in Launches :
          waiter[l].tracked # NoProc => waiter[l].pending # waiter[l].tracked
    /\ mounted \in BOOLEAN /\ browsing \in BOOLEAN /\ up \in BOOLEAN
    /\ asked \in [Launches -> {"no", "open", "answered"}]
    /\ withdrawn \in Launches \cup {"nobody", "browse", "quit"}
    /\ unseen \in [Launches -> SUBSET (Procs \cup {Handover})]
    /\ faults \in 0..MaxFaults

\* When the waiter says that a launch completed, nothing of it runs any more except
\* the wineserver: no game that was reparented away from its launcher, no
\* intermediary that has yet to exec it, none that a daemon is about to start.  Unless,
\* since it last saw a process of the launch, a query overlooked one or a daemon took
\* longer than the grace period.
CompletedMeansGone ==
    \A l \in Launches :
        runner[l].result = "completed" =>
            unseen[l] # {} \/ (Workload(l) = {} /\ asked[l] # "open")

Terminated(l, excused) ==
    \A p \in {Root(l), waiter[l].tracked, waiter[l].pending} : Running(p) => p \in excused

\* After a forced unlock the launched process, the game that was tracked and the
\* process that was to become it have exited, or the result is an error, or the status
\* of the survivor could not be read when it was to be killed.
UnlockedMeansKilled ==
    [][\A l \in Launches :
          runner'[l].result = "unlocked" /\ runner[l].result # "unlocked" =>
              Terminated(l, unseen[l])]_vars

\* killProcessTree "returns true only when the root is known to have exited, so callers
\* never tear down the VFS beneath a process that survived".  Not so: the loop after
\* the SIGTERM counts what it cannot read as gone.
UnlockedMeansExited ==
    [][\A l \in Launches :
          runner'[l].result = "unlocked" /\ runner[l].result # "unlocked" =>
              Terminated(l, {})]_vars

\* The launch l takes the mount away under a process of its own.
UnmountsOwn(l) == mounted /\ ~mounted' /\ withdrawn' = l /\ Workload(l) # {}

\* What a launch decides never takes the mount from its own processes, unless the
\* user has forced the lock open or they hid from the waiter: an error and a
\* cancellation keep it.
OwnGameServed ==
    [][\A l \in Launches :
          UnmountsOwn(l) => runner[l].result = "unlocked" \/ unseen[l] # {}]_vars

\* "An error means lifetime tracking could not prove the workload has exited.  Keep the
\* VFS mounted rather than unmounting under a possibly active game process."  Not so
\* when the error comes in a scan, which takes what it cannot read for absent.
ErrorsKeepMount ==
    [][\A l \in Launches :
          UnmountsOwn(l) => runner[l].result = "unlocked" \/ Handover \in unseen[l]]_vars

\* A forced unlock kills nothing that carries the token of another launch, be it the
\* same game from the same prefix.  (The wineserver is shared, and goes.)
UnlockSparesOthers ==
    [][\A l \in Launches : waiter[l].at = "strike" =>
          \A p \in Procs : Running(p) /\ proc'[p].state = "exited" /\ proc[p].token =>
              proc[p].of = l \/ waiter'[l].at = "strike"]_vars

\* When nothing of a launch and no game without a token runs any more, the waiter
\* comes to a verdict and the main thread acts on it.
Settled(l) ==
    /\ asked[l] # "open"
    /\ \A p \in Procs : Running(p) =>
          /\ proc[p].of # l \/ proc[p].name = "wineserver"
          /\ proc[p].token \/ proc[p].name # "expected"
WaitEnds ==
    \A l \in Launches :
        <>[](Settled(l) /\ up) => []<>(runner[l].phase \notin {"waiting", "queued"})

\* No process of a launch runs without the mount: "Keep the VFS mounted rather than
\* unmounting under a possibly active game process".  Not so when two launches, or a
\* launch and a dialog, share the one mount, or when Fluorine is closed.
ServedWhileRunning == \A l \in Launches : Workload(l) # {} => mounted
=============================================================================
