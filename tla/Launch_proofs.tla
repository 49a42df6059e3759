---------------------------- MODULE Launch_proofs ----------------------------
(***************************************************************************)
(* Proofs about Launch, for any launches, processes and faults.            *)
(***************************************************************************)
EXTENDS Launch, FiniteSetTheorems, TLAPS

\* The records that TypeOK describes: a process.
Process == [state : {"none", "running", "exited"}, of : Launches \cup {Stranger},
            token : BOOLEAN, name : {"other", "expected", "wineserver"},
            parent : Procs \cup {NoProc}]

\* What is known of a launch.
Runner == [phase : {"idle", "prepared", "waiting", "queued", "done"}, mode : Modes,
           root : Procs \cup {NoProc}, result : Results]

\* What its waiter knows.
Waiter == [at : {"off", "poll", "tree", "prefix", "pending", "report", "kill", "strike"},
           rootExited : BOOLEAN, tracked : Procs \cup {NoProc},
           pending : Procs \cup {NoProc}, seen : BOOLEAN, timer : Timers,
           target : 1..4, doomed : SUBSET Procs, survived : BOOLEAN]

\* The types alone.
Types ==
    /\ proc \in [Procs -> Process]
    /\ runner \in [Launches -> Runner]
    /\ waiter \in [Launches -> Waiter]
    /\ mounted \in BOOLEAN /\ browsing \in BOOLEAN /\ up \in BOOLEAN
    /\ asked \in [Launches -> {"no", "open", "answered"}]
    /\ withdrawn \in Launches \cup {"nobody", "browse", "quit"}
    /\ unseen \in [Launches -> SUBSET (Procs \cup {Handover})]
    /\ faults \in 0..MaxFaults

\* An identity that is not used is nobody's; what a launch starts without its token is a
\* game; a child is of the launch of its parent, and both carry its token.
ProcSound(p) ==
    LET s == proc[p]
    IN  /\ s.state = "none" => s = Unused
        /\ s.of \in Launches /\ ~s.token => s.name = "expected"
        /\ s.parent \in Procs =>
              s.token /\ proc[s.parent].token /\ s.of = proc[s.parent].of

\* Who may yet start a process of the launch, or ask for one.
Starters(l) == {p \in Procs : /\ Running(p) /\ proc[p].of = l /\ proc[p].token
                              /\ proc[p].name # "wineserver"}

\* A process that exists, and is of the launch if it carries a token.
Known(p, l) == proc[p].state # "none" /\ (proc[p].token => proc[p].of = l)

\* What the result of a launch says of its processes, if none has hidden from its waiter.
RunnerSound(l) ==
    LET r == runner[l]
    IN  /\ r.phase \in {"idle", "prepared"} =>
              /\ r.root = NoProc /\ asked[l] = "no" /\ \A p \in Procs : proc[p].of # l
        /\ r.phase \in {"idle", "prepared", "waiting"} => r.result = "none"
        /\ r.phase = "queued" => r.result \in {"completed", "unlocked"}
        /\ r.result = "completed" =>
              unseen[l] # {} \/ (Workload(l) = {} /\ asked[l] # "open")

\* What the waiter knows of them, at each step of its loop.
WaiterSound(l) ==
    LET w == waiter[l]
        root == runner[l].root
    IN  /\ w.at = "off" => w = NotWaiting
        /\ w.at # "off" =>
              /\ runner[l].phase = "waiting"
              /\ root \in Procs /\ proc[root].token /\ proc[root].of = l
        /\ w.tracked # NoProc => Known(w.tracked, l) /\ w.pending # w.tracked
        /\ w.pending # NoProc => Known(w.pending, l)
        /\ w.at \in {"tree", "prefix", "pending"} => w.tracked = NoProc
        /\ w.rootExited => ~Running(root)
        /\ w.at = "pending" => w.rootExited
        /\ w.timer # "off" => Starters(l) = {} \/ unseen[l] # {}
        /\ w.timer = "elapsed" => asked[l] # "open" \/ unseen[l] # {}
        /\ w.at = "pending" /\ w.timer = "elapsed" => Workload(l) = {} \/ unseen[l] # {}

\* Of the trees it has killed the roots are gone, or have survived, or could not be read.
KillSound(l) ==
    LET w == waiter[l]
    IN  /\ w.at \notin {"kill", "strike"} => w.target = 1 /\ ~w.survived
        /\ \A i \in 1..(w.target - 1) :
              w.survived \/ (Running(Targets(l)[i]) => Targets(l)[i] \in unseen[l])
        /\ w.at = "strike" =>
              /\ w.target \in 1..3 /\ Targets(l)[w.target] \in w.doomed
              /\ \A p \in w.doomed : Known(p, l)

\* All that is said of one launch.
LaunchSound(l) == RunnerSound(l) /\ WaiterSound(l) /\ KillSound(l)

\* The processes and the launches agree with each other, whoever is about to move.
Sound ==
    /\ \A p \in Procs : ProcSound(p)
    /\ \A l \in Launches : LaunchSound(l)

\* The inductive invariant.
Good == Types /\ Sound

-----------------------------------------------------------------------------
(* The processes.                                                           *)

\* What may happen to the processes in a step, as a launch sees it that is not the one
\* started: those that exist keep their identity and do not come back; new ones of the
\* launch have been forked or handed to a daemon.
ProcStep(l) ==
    /\ \A p \in Procs : proc[p].state # "none" =>
          /\ proc'[p].state # "none" /\ proc'[p].of = proc[p].of
          /\ proc'[p].token <=> proc[p].token
          /\ Running(p)' => Running(p)
          /\ proc[p].name = "wineserver" => proc'[p].name = "wineserver"
    /\ \A p \in Procs : proc[p].state = "none" =>
          \/ proc'[p] = proc[p]
          \/ proc'[p].of # l
          \/ proc'[p].token /\ Starters(l) # {}
          \/ ~proc'[p].token /\ asked[l] = "open"
    /\ \/ asked'[l] = asked[l]
       \/ asked[l] = "no" /\ Starters(l) # {}
       \/ asked[l] = "open" /\ asked'[l] = "answered"

\* NoProc is not an identity.
LEMMA ProcNumbers == Procs \subseteq Nat /\ NoProc \notin Procs /\ IsFiniteSet(Procs)
BY LaunchAssumption, FS_Interval DEF Procs, NoProc

\* What a launch knows about processes that are gone stays true.
LEMMA Lasting ==
  ASSUME Good, NEW l \in Launches, ProcStep(l)
  PROVE  /\ Starters(l) = {} => Starters(l)' = {}
         /\ Workload(l) = {} /\ asked[l] # "open" => Workload(l)' = {} /\ asked'[l] # "open"
         /\ Starters(l) = {} /\ asked[l] # "open" => asked'[l] # "open"
         /\ \A p \in Procs : Known(p, l) => Known(p, l)'
         /\ \A p \in Procs : Known(p, l) /\ ~Running(p) => ~Running(p)'
<1>1. Starters(l) \subseteq Workload(l)
  BY DEF Starters, Workload
<1>2. ASSUME NEW p \in Procs, proc[p].state = "none", Running(p)', proc'[p].of = l
      PROVE  (proc'[p].token /\ Starters(l) # {}) \/ asked[l] = "open"
  BY <1>2 DEF ProcStep, Running
<1>3. ASSUME Starters(l) = {}
      PROVE  Starters(l)' = {}
  <2>1. ASSUME NEW p \in Procs, Running(p)', proc'[p].of = l, proc'[p].token,
               proc'[p].name # "wineserver"
        PROVE  FALSE
    <3>1. CASE proc[p].state = "none"
      BY <1>3, <2>1, <3>1 DEF ProcStep, Running
    <3>2. CASE proc[p].state # "none"
      <4>1. p \in Starters(l)
        BY <2>1, <3>2 DEF ProcStep, Starters
      <4>2. QED
        BY <1>3, <4>1
    <3>3. QED
      BY <3>1, <3>2
  <2>2. QED
    BY <2>1 DEF Starters
<1>4. ASSUME Workload(l) = {}, asked[l] # "open"
      PROVE  Workload(l)' = {}
  <2>1. ASSUME NEW p \in Procs, Running(p)', proc'[p].of = l, proc'[p].name # "wineserver"
        PROVE  FALSE
    <3>1. CASE proc[p].state = "none"
      BY <1>1, <1>2, <1>4, <2>1, <3>1
    <3>2. CASE proc[p].state # "none"
      <4>1. p \in Workload(l)
        BY <2>1, <3>2 DEF ProcStep, Workload
      <4>2. QED
        BY <1>4, <4>1
    <3>3. QED
      BY <3>1, <3>2
  <2>2. QED
    BY <2>1 DEF Workload
<1>5. Starters(l) = {} /\ asked[l] # "open" => asked'[l] # "open"
  BY DEF ProcStep
<1>6. \A p \in Procs : Known(p, l) => Known(p, l)'
  BY DEF ProcStep, Known
<1>7. \A p \in Procs : Known(p, l) /\ ~Running(p) => ~Running(p)'
  BY DEF ProcStep, Known
<1>8. QED
  BY <1>1, <1>3, <1>4, <1>5, <1>6, <1>7

\* The launches that a step does not concern.
LEMMA OtherLaunches ==
  ASSUME Good, NEW l \in Launches, ProcStep(l), runner'[l] = runner[l], waiter'[l] = waiter[l],
         unseen'[l] = unseen[l]
  PROVE  LaunchSound(l)'
<1> DEFINE r == runner[l]
           w == waiter[l]
<1>1. Types /\ RunnerSound(l) /\ WaiterSound(l) /\ KillSound(l) /\ r \in Runner /\ w \in Waiter
  BY DEF Good, Types, Sound, LaunchSound
<1>2. RunnerSound(l)'
  <2>1. ASSUME r.phase \in {"idle", "prepared"}
        PROVE  asked'[l] = "no" /\ \A p \in Procs : proc'[p].of # l
    <3>1. asked[l] = "no" /\ (\A p \in Procs : proc[p].of # l) /\ Starters(l) = {}
      BY <1>1, <2>1 DEF RunnerSound, Starters
    <3>2. QED
      BY <3>1 DEF ProcStep
  <2>2. r.result = "completed" =>
           unseen[l] # {} \/ (Workload(l)' = {} /\ asked'[l] # "open")
    BY <1>1, Lasting DEF RunnerSound
  <2>3. QED
    BY <1>1, <2>1, <2>2 DEF RunnerSound
<1>3. /\ w.tracked # NoProc => Known(w.tracked, l)'
      /\ w.pending # NoProc => Known(w.pending, l)'
      /\ w.at # "off" => /\ r.root \in Procs /\ proc'[r.root].token /\ proc'[r.root].of = l
                         /\ Known(r.root, l) /\ (~Running(r.root) => ~Running(r.root)')
  <2>1. w.at # "off" => r.root \in Procs /\ Known(r.root, l) /\ proc[r.root].token
    BY <1>1 DEF WaiterSound, Known, Good, Sound, ProcSound, Unused
  <2>2. /\ w.tracked # NoProc => w.tracked \in Procs /\ Known(w.tracked, l)
        /\ w.pending # NoProc => w.pending \in Procs /\ Known(w.pending, l)
    BY <1>1 DEF WaiterSound, Waiter
  <2>3. w.at # "off" => proc'[r.root].token /\ proc'[r.root].of = l
    BY <1>1, <2>1 DEF ProcStep, Known, WaiterSound
  <2>4. QED
    BY <2>1, <2>2, <2>3, Lasting
<1>4. WaiterSound(l)'
  <2>1. w.timer # "off" => Starters(l)' = {} \/ unseen[l] # {}
    BY <1>1, Lasting DEF WaiterSound
  <2>2. w.timer = "elapsed" => asked'[l] # "open" \/ unseen[l] # {}
    BY <1>1, Lasting DEF WaiterSound, Timers
  <2>3. w.at = "pending" /\ w.timer = "elapsed" => Workload(l)' = {} \/ unseen[l] # {}
    BY <1>1, Lasting DEF WaiterSound
  <2>4. w.rootExited => ~Running(r.root)'
    BY <1>1, <1>3 DEF WaiterSound, NotWaiting
  <2>5. QED
    BY <1>1, <1>3, <2>1, <2>2, <2>3, <2>4 DEF WaiterSound
<1>5. KillSound(l)'
  <2>1. Targets(l)' = Targets(l)
    BY DEF Targets, Root
  <2>2. ASSUME NEW i \in 1..(w.target - 1)
        PROVE  w.survived \/ (Running(Targets(l)[i])' => Targets(l)[i] \in unseen[l])
    <3>1. i \in 1..3 /\ w.at # "off"
      BY <1>1 DEF Waiter, KillSound
    <3>2. Targets(l)[i] \in {r.root, w.tracked, w.pending}
      BY <3>1 DEF Targets, Root
    <3>3. Targets(l)[i] = NoProc \/ (Targets(l)[i] \in Procs /\ Known(Targets(l)[i], l))
      BY <1>1, <1>3, <3>1, <3>2 DEF WaiterSound, Waiter
    <3>4. w.survived \/ (Running(Targets(l)[i]) => Targets(l)[i] \in unseen[l])
      BY <1>1 DEF KillSound
    <3>5. CASE Targets(l)[i] = NoProc
      BY <2>1, <3>5 DEF Running
    <3>6. CASE Targets(l)[i] \in Procs /\ Known(Targets(l)[i], l)
      BY <2>1, <3>4, <3>6, Lasting
    <3>7. QED
      BY <3>3, <3>5, <3>6
  <2>3. w.at = "strike" => \A p \in w.doomed : Known(p, l)'
    BY <1>1, Lasting DEF KillSound, Waiter
  <2>4. QED
    BY <1>1, <2>1, <2>2, <2>3 DEF KillSound
<1>6. QED
  BY <1>2, <1>4, <1>5 DEF LaunchSound

-----------------------------------------------------------------------------
(* Steps of the processes.                                                  *)

\* A step of one launch has to show what concerns it.
LEMMA OneLaunch ==
  ASSUME Good, Types', NEW l, \A p \in Procs : ProcSound(p)',
         \A k \in Launches \ {l} : /\ ProcStep(k) /\ runner'[k] = runner[k]
                                   /\ waiter'[k] = waiter[k] /\ unseen'[k] = unseen[k],
         l \in Launches => LaunchSound(l)'
  PROVE  Good'
<1>1. \A k \in Launches \ {l} : LaunchSound(k)'
  BY OtherLaunches
<1>2. QED
  BY <1>1 DEF Good, Sound

\* The processes do nothing.
LEMMA Unmoved ==
  ASSUME Good, UNCHANGED <<proc, asked>>
  PROVE  (\A p \in Procs : ProcSound(p)') /\ \A l : ProcStep(l)
<1>1. \A p \in Procs : ProcSound(p)'
  BY DEF Good, Sound, ProcSound
<1>2. \A l : ProcStep(l)
  BY DEF ProcStep, Running
<1>3. QED
  BY <1>1, <1>2

\* Processes exit, of their own accord or killed.
LEMMA Exits ==
  ASSUME Good, NEW ps \in SUBSET {p \in Procs : Running(p)}, proc' = Exited(ps), UNCHANGED asked
  PROVE  /\ proc' \in [Procs -> Process]
         /\ \A p \in Procs : ProcSound(p)'
         /\ \A l : ProcStep(l)
         /\ \A p \in Procs : Running(p)' <=> Running(p) /\ p \notin ps
<1>1. proc \in [Procs -> Process] /\ \A p \in Procs : ProcSound(p)
  BY DEF Good, Types, Sound
<1>2. ASSUME NEW p \in Procs
      PROVE  /\ proc'[p] \in Process
             /\ proc'[p].of = proc[p].of /\ proc'[p].token = proc[p].token
             /\ proc'[p].name = proc[p].name
             /\ proc'[p].state = IF p \in ps THEN "exited" ELSE proc[p].state
             /\ proc'[p].parent \in {proc[p].parent, NoProc}
  <2>1. /\ proc[p] \in Process
        /\ proc'[p] = IF p \in ps THEN [proc[p] EXCEPT !.state = "exited", !.parent = NoProc]
                      ELSE IF proc[p].parent \in ps THEN [proc[p] EXCEPT !.parent = NoProc]
                      ELSE proc[p]
    BY <1>1 DEF Exited
  <2>2. QED
    BY ZenonT(60), <2>1 DEF Process
<1>3. proc' \in [Procs -> Process]
  <2>1. proc' = [p \in Procs |-> proc'[p]]
    BY DEF Exited
  <2>2. QED
    BY <1>2, <2>1
<1>4. ASSUME NEW p \in Procs
      PROVE  ProcSound(p)'
  <2>1. proc[p].state = "none" => proc'[p] = Unused
    <3>1. ps \subseteq Procs /\ NoProc \notin ps /\ Unused.parent = NoProc
      BY ProcNumbers DEF Unused
    <3>2. proc[p].state = "none" => proc[p] = Unused /\ p \notin ps
      BY <1>1 DEF ProcSound, Running
    <3>3. QED
      BY <3>1, <3>2 DEF Exited
  <2>2. proc'[p].parent \in Procs =>
           /\ proc'[p].parent = proc[p].parent /\ proc[p].parent \in Procs
           /\ proc'[p].token /\ proc'[proc[p].parent].token
           /\ proc'[p].of = proc'[proc[p].parent].of
    BY <1>1, <1>2, ProcNumbers DEF ProcSound
  <2>3. QED
    BY <1>1, <1>2, <2>1, <2>2 DEF ProcSound
<1>5. \A p \in Procs : Running(p)' <=> Running(p) /\ p \notin ps
  BY <1>2, ProcNumbers DEF Running
<1>6. ASSUME NEW p \in Procs, proc[p].state = "none"
      PROVE  proc'[p] = proc[p]
  <2>1. proc[p] = Unused /\ p \notin ps
    BY <1>1, <1>6 DEF ProcSound, Running
  <2>2. proc[p].parent \notin ps
    BY <2>1, ProcNumbers DEF Unused
  <2>3. QED
    BY <2>1, <2>2 DEF Exited
<1>7. \A l : ProcStep(l)
  BY <1>2, <1>5, <1>6 DEF ProcStep
<1>8. QED
  BY <1>3, <1>4, <1>5, <1>7

\* A process is born that is of a launch, with its token and its parent, or without both
\* as a game.
LEMMA Births ==
  ASSUME Good, NEW c \in Procs, Fresh(c), NEW s \in Process, proc' = [proc EXCEPT ![c] = s],
         s.state = "running", s.of \in Launches, ~s.token => s.name = "expected",
         s.parent \in Procs => /\ s.token /\ proc[s.parent].token
                               /\ s.of = proc[s.parent].of
  PROVE  /\ proc' \in [Procs -> Process]
         /\ \A p \in Procs : ProcSound(p)'
         /\ \A l : /\ \/ asked'[l] = asked[l]
                      \/ asked[l] = "no" /\ Starters(l) # {}
                      \/ asked[l] = "open" /\ asked'[l] = "answered"
                   /\ s.of = l => IF s.token THEN Starters(l) # {} ELSE asked[l] = "open"
                   => ProcStep(l)
<1>1. proc \in [Procs -> Process] /\ \A p \in Procs : ProcSound(p)
  BY DEF Good, Types, Sound
<1>2. proc'[c] = s /\ \A p \in Procs \ {c} : proc'[p] = proc[p]
  BY <1>1
<1>3. proc[c].state = "none" /\ ~proc[c].token
  BY <1>1 DEF Fresh, ProcSound, Unused
<1>4. ASSUME NEW p \in Procs
      PROVE  ProcSound(p)'
  <2>1. CASE p = c
    BY <1>2, <1>3, <2>1 DEF ProcSound
  <2>2. CASE p # c
    <3>1. proc[p].parent \in Procs => proc[p].parent # c
      BY <1>1, <1>3 DEF ProcSound
    <3>2. QED
      BY <1>1, <1>2, <2>2, <3>1 DEF ProcSound
  <2>3. QED
    BY <2>1, <2>2
<1>5. \A p \in Procs \ {c} : Running(p)' <=> Running(p)
  BY <1>2 DEF Running
<1>6. ASSUME NEW l, \/ asked'[l] = asked[l]
                    \/ asked[l] = "no" /\ Starters(l) # {}
                    \/ asked[l] = "open" /\ asked'[l] = "answered",
             s.of = l => IF s.token THEN Starters(l) # {} ELSE asked[l] = "open"
      PROVE  ProcStep(l)
  BY <1>2, <1>3, <1>5, <1>6 DEF ProcStep
<1>7. QED
  BY <1>1, <1>4, <1>6

\* What the processes do on their own.
LEMMA EnvironmentGood == ASSUME Good, Environment PROVE Good'
<1>1. Types /\ Sound /\ proc \in [Procs -> Process]
  BY DEF Good, Types
<1>2. ASSUME NEW X,
             UNCHANGED <<runner, waiter, mounted, browsing, up, withdrawn, unseen, faults>>,
             proc' \in [Procs -> Process], asked' \in [Launches -> {"no", "open", "answered"}],
             \A p \in Procs : ProcSound(p)', \A l \in Launches : ProcStep(l)
      PROVE  Good'
  <2>1. Types'
    BY <1>1, <1>2 DEF Types
  <2>2. \A l \in Launches : LaunchSound(l)'
    BY <1>2, OtherLaunches
  <2>3. QED
    BY <1>2, <2>1, <2>2 DEF Good, Sound
<1>3. ASSUME NEW p \in Procs, Exec(p)
      PROVE  Good'
  <2>1. /\ Running(p) /\ proc[p].name = "other" /\ proc' = [proc EXCEPT ![p].name = "expected"]
        /\ UNCHANGED <<runner, waiter, mounted, browsing, up, asked, withdrawn, unseen, faults>>
    BY <1>3 DEF Exec
  <2> DEFINE s == [proc[p] EXCEPT !.name = "expected"]
  <2>2. /\ s \in Process /\ s.of = proc[p].of /\ s.token = proc[p].token /\ s.state = proc[p].state
        /\ s.parent = proc[p].parent /\ s.name = "expected"
    BY <1>1 DEF Process
  <2>3. proc' = [proc EXCEPT ![p] = s]
    BY <1>1, <2>1
  <2> HIDE DEF s
  <2>4. proc' \in [Procs -> Process] /\ proc'[p] = s /\ \A q \in Procs \ {p} : proc'[q] = proc[q]
    BY <1>1, <2>2, <2>3
  <2>5. \A q \in Procs : /\ proc'[q].of = proc[q].of /\ proc'[q].token = proc[q].token
                         /\ proc'[q].state = proc[q].state /\ proc'[q].parent = proc[q].parent
                         /\ proc'[q].name \in {proc[q].name, "expected"}
    BY <2>2, <2>4
  <2>6. proc[p].state # "none"
    BY <2>1 DEF Running
  <2>7. ASSUME NEW q \in Procs
        PROVE  ProcSound(q)'
    <3>1. ProcSound(q)
      BY <1>1 DEF Sound
    <3>2. proc[q].state = "none" => proc'[q] = proc[q]
      BY <2>4, <2>6
    <3>3. QED
      BY <3>1, <3>2, <2>5 DEF ProcSound
  <2>8. \A l \in Launches : ProcStep(l)
    <3>1. \A q \in Procs : Running(q)' <=> Running(q)
      BY <2>5 DEF Running
    <3>2. \A q \in Procs : proc[q].state = "none" => proc'[q] = proc[q]
      BY <2>4, <2>6
    <3>3. \A q \in Procs : proc[q].name = "wineserver" => proc'[q].name = "wineserver"
      BY <2>1, <2>4
    <3>4. QED
      BY <2>1, <2>5, <3>1, <3>2, <3>3 DEF ProcStep
  <2>9. asked' \in [Launches -> {"no", "open", "answered"}]
    BY <1>1, <2>1 DEF Types
  <2>10. QED
    BY <1>2, <2>1, <2>4, <2>7, <2>8, <2>9
<1>4. ASSUME NEW p \in Procs, Exit(p)
      PROVE  Good'
  <2>1. /\ {p} \in SUBSET {q \in Procs : Running(q)} /\ proc' = Exited({p})
        /\ UNCHANGED <<runner, waiter, mounted, browsing, up, asked, withdrawn, unseen, faults>>
    BY <1>4 DEF Exit
  <2>2. asked' \in [Launches -> {"no", "open", "answered"}]
    BY <1>1, <2>1 DEF Types
  <2>3. QED
    BY <1>2, <2>1, <2>2, Exits
<1>5. ASSUME NEW p \in Procs, Ask(p)
      PROVE  Good'
  <2>1. /\ proc[p].of \in Launches /\ p \in Starters(proc[p].of) /\ asked[proc[p].of] = "no"
        /\ asked' = [asked EXCEPT ![proc[p].of] = "open"]
        /\ UNCHANGED <<proc, runner, waiter, mounted, browsing, up, withdrawn, unseen, faults>>
    BY <1>5 DEF Ask, Starters
  <2>2. \A q \in Procs : ProcSound(q)'
    BY <1>1, <2>1 DEF Sound, ProcSound
  <2>3. \A l \in Launches : ProcStep(l)
    BY <1>1, <2>1 DEF ProcStep, Running, Types
  <2>4. proc' \in [Procs -> Process]
    BY <1>1, <2>1
  <2>5. asked' \in [Launches -> {"no", "open", "answered"}]
    BY <1>1, <2>1 DEF Types
  <2>6. QED
    BY <1>2, <2>1, <2>2, <2>3, <2>4, <2>5
<1>6. ASSUME NEW p \in Procs, NEW c \in Procs, NEW name \in {"other", "wineserver"},
             Fork(p, c, name)
      PROVE  Good'
  <2> DEFINE s == [proc[p] EXCEPT !.name = name, !.parent = p]
  <2>1. /\ p \in Starters(proc[p].of) /\ proc[p].of \in Launches /\ proc[p].token /\ Fresh(c)
        /\ proc[p].state = "running" /\ proc' = [proc EXCEPT ![c] = s]
        /\ UNCHANGED <<runner, waiter, mounted, browsing, up, asked, withdrawn, unseen, faults>>
    BY <1>6 DEF Fork, Starters, Running
  <2>2. /\ s \in Process /\ s.of = proc[p].of /\ s.token = proc[p].token /\ s.state = proc[p].state
        /\ s.parent = p
    BY <1>1 DEF Process
  <2> HIDE DEF s
  <2>3. /\ proc' \in [Procs -> Process] /\ \A q \in Procs : ProcSound(q)'
        /\ \A l : s.of = l => Starters(l) # {}
    BY <2>1, <2>2, Births
  <2>4. \A l \in Launches : ProcStep(l)
    BY <2>1, <2>2, <2>3, Births
  <2>5. asked' \in [Launches -> {"no", "open", "answered"}]
    BY <1>1, <2>1 DEF Types
  <2>6. QED
    BY <1>2, <2>1, <2>3, <2>4, <2>5
<1>7. ASSUME NEW l \in Launches, NEW c \in Procs, Answer(l, c)
      PROVE  Good'
  <2> DEFINE s == [state |-> "running", of |-> l, token |-> FALSE, name |-> "expected",
                   parent |-> NoProc]
  <2>1. /\ asked[l] = "open" /\ Fresh(c) /\ asked' = [asked EXCEPT ![l] = "answered"]
        /\ proc' = [proc EXCEPT ![c] = s]
        /\ UNCHANGED <<runner, waiter, mounted, browsing, up, withdrawn, unseen, faults>>
    BY <1>7 DEF Answer
  <2>2. /\ s \in Process /\ s.of = l /\ ~s.token /\ s.state = "running" /\ s.parent \notin Procs
        /\ s.name = "expected"
    BY ProcNumbers DEF Process
  <2> HIDE DEF s
  <2>3. proc' \in [Procs -> Process] /\ \A q \in Procs : ProcSound(q)'
    BY <2>1, <2>2, Births
  <2>4. \A k \in Launches : asked'[k] = asked[k] \/ (asked[k] = "open" /\ asked'[k] = "answered")
    BY <1>1, <2>1 DEF Types
  <2>5. \A k \in Launches : ProcStep(k)
    BY <2>1, <2>2, <2>4, Births
  <2>6. asked' \in [Launches -> {"no", "open", "answered"}]
    BY <1>1, <2>1 DEF Types
  <2>7. QED
    BY <1>2, <2>1, <2>3, <2>5, <2>6
<1>8. QED
  BY <1>3, <1>4, <1>5, <1>6, <1>7 DEF Environment

-----------------------------------------------------------------------------
(* Steps of a waiter.                                                       *)

\* A waiter that does not wait has nothing to be wrong about.
LEMMA Resting ==
  ASSUME NEW l \in Launches, waiter[l] = NotWaiting
  PROVE  WaiterSound(l) /\ KillSound(l)
BY DEF NotWaiting, WaiterSound, KillSound

\* The same of the state after a step.
LEMMA RestingNext ==
  ASSUME NEW l \in Launches, waiter'[l] = NotWaiting
  PROVE  WaiterSound(l)' /\ KillSound(l)'
BY DEF NotWaiting, WaiterSound, KillSound, Targets, Root

\* What a process that carries the token has started carries it as well.
LEMMA Descend ==
  ASSUME Good, NEW l \in Launches, NEW t \in Procs, Known(t, l)
  PROVE  \A q \in Descendants(t) : q \in Procs /\ Known(q, l)
<1> DEFINE S == {q \in Procs : proc[q].token /\ proc[q].of = l}
<1>1. \A p \in Procs : ProcSound(p)
  BY DEF Good, Sound
<1>2. Offspring({t} \cup S) \subseteq S
  <2>1. ASSUME NEW q \in Procs, proc[q].parent \in {t} \cup S
        PROVE  q \in S
    <3>1. proc[q].parent \in Procs
      BY <2>1
    <3>2. proc[q].token /\ proc[proc[q].parent].token /\ proc[q].of = proc[proc[q].parent].of
      BY <1>1, <3>1 DEF ProcSound
    <3>3. QED
      BY <2>1, <3>2 DEF Known
  <2>2. QED
    BY <2>1 DEF Offspring
<1>3. \A q \in Descendants(t) : q \in S
  <2>1. S \in SUBSET Procs
    OBVIOUS
  <2> HIDE DEF S
  <2>2. QED
    BY <1>2, <2>1 DEF Descendants
<1>4. QED
  BY <1>1, <1>3 DEF Known, ProcSound, Unused

\* What hides from a waiter, and what does not.
LEMMA ViewTyped ==
  ASSUME Types, NEW l \in Launches
  PROVE  /\ UNCHANGED unseen => unseen' = [unseen EXCEPT ![l] = unseen[l]]
         /\ unseen[l] \in SUBSET (Procs \cup {Handover})
         /\ InView(l) => unseen' = [unseen EXCEPT ![l] = {}]
         /\ \A ps : Hidden(l, ps) => unseen' = [unseen EXCEPT ![l] = unseen[l] \cup ps]
         /\ \A blind, candidates : Overlook(blind, candidates) => faults' \in 0..MaxFaults
BY LaunchAssumption DEF Types, InView, Hidden, Overlook

\* A step that only one waiter notices.
LEMMA WaiterMoves ==
  ASSUME Good, NEW l \in Launches, NEW w \in Waiter, waiter' = [waiter EXCEPT ![l] = w],
         NEW u \in SUBSET (Procs \cup {Handover}), unseen' = [unseen EXCEPT ![l] = u],
         UNCHANGED <<proc, runner, mounted, browsing, up, asked, withdrawn>>,
         faults' \in 0..MaxFaults,
         waiter[l].at # "off", WaiterSound(l)', KillSound(l)'
  PROVE  Good'
<1>1. Types /\ LaunchSound(l)
  BY DEF Good, Sound
<1>2. Types'
  BY <1>1 DEF Types
<1>3. RunnerSound(l)'
  BY <1>1 DEF LaunchSound, RunnerSound, WaiterSound
<1>4. \A k \in Launches \ {l} : waiter'[k] = waiter[k] /\ unseen'[k] = unseen[k]
  BY <1>1 DEF Types
<1>5. QED
  BY <1>2, <1>3, <1>4, Unmoved, OneLaunch DEF LaunchSound

\* The loop of a waiter that has not come to an end: what it then knows.
LEMMA LoopGoesOn ==
  ASSUME Good, NEW l \in Launches, NEW w \in Waiter, waiter' = [waiter EXCEPT ![l] = w],
         NEW u \in SUBSET (Procs \cup {Handover}), unseen' = [unseen EXCEPT ![l] = u],
         UNCHANGED <<proc, runner, mounted, browsing, up, asked, withdrawn>>,
         faults' \in 0..MaxFaults,
         waiter[l].at \in {"poll", "tree", "prefix", "pending", "report"},
         w.at \in {"poll", "tree", "prefix", "pending", "report", "kill"},
         w.target = waiter[l].target, w.survived <=> waiter[l].survived,
         w.tracked # NoProc => Known(w.tracked, l) /\ w.pending # w.tracked,
         w.pending # NoProc => Known(w.pending, l),
         w.at \in {"tree", "prefix", "pending"} => w.tracked = NoProc,
         w.rootExited => ~Running(Root(l)),
         w.at = "pending" => w.rootExited,
         w.timer # "off" => Starters(l) = {} \/ u # {},
         w.timer = "elapsed" => asked[l] # "open" \/ u # {},
         w.at = "pending" /\ w.timer = "elapsed" => Workload(l) = {} \/ u # {}
  PROVE  Good'
<1>1. Types /\ LaunchSound(l)
  BY DEF Good, Sound
<1>2. waiter'[l] = w /\ unseen'[l] = u
  BY <1>1 DEF Types
<1>3. /\ \A p : Known(p, l)' <=> Known(p, l)
      /\ \A p : Running(p)' <=> Running(p)
      /\ Starters(l)' = Starters(l) /\ Workload(l)' = Workload(l)
  BY DEF Known, Starters, Workload, Running
<1>4. runner'[l] = runner[l] /\ proc' = proc /\ asked'[l] = asked[l] /\ Root(l) = runner[l].root
  BY DEF Root
<1>5. /\ runner[l].phase = "waiting" /\ runner[l].root \in Procs
      /\ proc[runner[l].root].token /\ proc[runner[l].root].of = l
  BY <1>1 DEF LaunchSound, WaiterSound
<1>6. WaiterSound(l)'
  BY <1>2, <1>3, <1>4, <1>5 DEF WaiterSound
<1>7. KillSound(l)'
  <2>1. w.target = 1 /\ ~w.survived /\ w.at # "strike"
    BY <1>1 DEF LaunchSound, KillSound
  <2>2. QED
    BY <1>2, <2>1 DEF KillSound
<1>8. QED
  BY <1>6, <1>7, WaiterMoves

\* waitForProcessTree returns.
LEMMA Returns ==
  ASSUME Good, NEW l \in Launches, NEW result \in {"completed", "cancelled", "unlocked", "error"},
         Return(l, result), waiter[l].at # "off",
         NEW u \in SUBSET (Procs \cup {Handover}), unseen' = [unseen EXCEPT ![l] = u],
         result = "completed" => u # {} \/ (Workload(l) = {} /\ asked[l] # "open"),
         proc' \in [Procs -> Process], \A p \in Procs : ProcSound(p)', \A k : ProcStep(k),
         UNCHANGED <<mounted, browsing, up, asked, withdrawn>>, faults' \in 0..MaxFaults
  PROVE  Good'
<1>1. Types /\ LaunchSound(l) /\ runner[l] \in Runner
  BY DEF Good, Sound, Types
<1> DEFINE r == [runner[l] EXCEPT !.result = result,
                                  !.phase = IF CleansUp(l, result) THEN "queued" ELSE "done"]
<1>2. runner' = [runner EXCEPT ![l] = r] /\ waiter' = [waiter EXCEPT ![l] = NotWaiting]
  BY <1>1 DEF Return, Set, Types
<1>3. r \in Runner /\ NotWaiting \in Waiter
  <2>1. r \in Runner
    BY <1>1 DEF Runner, Results
  <2>2. NotWaiting \in Waiter
    BY DEF NotWaiting, Waiter, Timers
  <2>3. QED
    BY <2>1, <2>2
<1>4. r.result = result /\ r.phase \in {"queued", "done"}
      /\ (r.phase = "queued" => result \in {"completed", "unlocked"})
  BY <1>1 DEF Runner, CleansUp
<1> HIDE DEF r
<1>5. /\ runner'[l] = r /\ waiter'[l] = NotWaiting /\ unseen'[l] = u
      /\ \A k \in Launches \ {l} : /\ runner'[k] = runner[k] /\ waiter'[k] = waiter[k]
                                  /\ unseen'[k] = unseen[k]
  BY <1>1, <1>2 DEF Types
<1>6. Types'
  BY <1>1, <1>2, <1>3 DEF Types
<1>7. RunnerSound(l)'
  <2>1. result = "completed" => u # {} \/ (Workload(l)' = {} /\ asked'[l] # "open")
    BY Lasting
  <2>2. QED
    BY <1>4, <1>5, <2>1 DEF RunnerSound
<1>8. WaiterSound(l)' /\ KillSound(l)'
  BY <1>5, RestingNext
<1>9. QED
  BY <1>5, <1>6, <1>7, <1>8, OneLaunch DEF LaunchSound

\* The same of a step in which the processes do nothing.
LEMMA ReturnsAlone ==
  ASSUME Good, NEW l \in Launches, NEW result \in {"completed", "cancelled", "unlocked", "error"},
         Return(l, result), waiter[l].at # "off",
         NEW u \in SUBSET (Procs \cup {Handover}), unseen' = [unseen EXCEPT ![l] = u],
         result = "completed" => u # {} \/ (Workload(l) = {} /\ asked[l] # "open"),
         UNCHANGED <<proc, mounted, browsing, up, asked, withdrawn>>, faults' \in 0..MaxFaults
  PROVE  Good'
<1>1. proc' \in [Procs -> Process]
  BY DEF Good, Types
<1>2. QED
  BY <1>1, Unmoved, Returns

\* The statuses of the references.
LEMMA PollGood == ASSUME Good, NEW l \in Launches, Poll(l) PROVE Good'
<1> DEFINE o == waiter[l]
           w == [o EXCEPT
               !.rootExited = ~Running(Root(l)),
               !.pending = IF Running(@) THEN @ ELSE NoProc,
               !.tracked = IF Running(@) THEN @ ELSE NoProc,
               !.at = IF Running(o.tracked) THEN "report"
                      ELSE IF Running(Root(l)) THEN "tree" ELSE "prefix"]
<1>1. Types /\ WaiterSound(l) /\ o \in Waiter /\ o.at = "poll"
  BY DEF Good, Sound, LaunchSound, Types, Poll, At
<1>2. /\ waiter' = [waiter EXCEPT ![l] = w]
      /\ UNCHANGED <<proc, runner, mounted, browsing, up, asked, withdrawn, faults>>
      /\ faults' \in 0..MaxFaults
  BY <1>1 DEF Poll, Set, Types
<1>u. PICK u \in SUBSET (Procs \cup {Handover}) :
         /\ unseen' = [unseen EXCEPT ![l] = u]
         /\ o.timer # "off" => u = unseen[l]
  <2>1. CASE o.timer = "off"
    BY <1>1, <2>1, ViewTyped DEF Poll
  <2>2. CASE o.timer # "off"
    BY <1>1, <2>2, ViewTyped DEF Poll
  <2>3. QED
    BY <2>1, <2>2
<1>3. /\ w \in Waiter
      /\ w.rootExited <=> ~Running(Root(l))
      /\ w.pending = IF Running(o.pending) THEN o.pending ELSE NoProc
      /\ w.tracked = IF Running(o.tracked) THEN o.tracked ELSE NoProc
      /\ w.at = IF Running(o.tracked) THEN "report"
                ELSE IF Running(Root(l)) THEN "tree" ELSE "prefix"
      /\ w.target = o.target /\ w.survived = o.survived /\ w.timer = o.timer
  BY ZenonT(60), <1>1 DEF Waiter
<1> HIDE DEF w
<1>4. /\ w.tracked # NoProc => Known(w.tracked, l) /\ w.pending # w.tracked
      /\ w.pending # NoProc => Known(w.pending, l)
  BY <1>1, <1>3 DEF WaiterSound
<1>5. /\ w.timer # "off" => Starters(l) = {} \/ u # {}
      /\ w.timer = "elapsed" => asked[l] # "open" \/ u # {}
  BY <1>1, <1>u, <1>3 DEF WaiterSound
<1>6. QED
  BY <1>1, <1>2, <1>u, <1>3, <1>4, <1>5, LoopGoesOn

\* A game that was found is tracked.
LEMMA TrackGood ==
  ASSUME Good, NEW l \in Launches, waiter[l].at \in {"tree", "prefix"},
         NEW p \in Procs, Known(p, l), Set(l, Track(waiter[l], p)), InView(l),
         UNCHANGED <<proc, runner, mounted, browsing, up, asked, withdrawn>>,
         faults' \in 0..MaxFaults
  PROVE  Good'
<1> DEFINE o == waiter[l]
           w == [o EXCEPT !.tracked = p, !.pending = IF @ = p THEN NoProc ELSE @,
                          !.timer = "off", !.seen = TRUE, !.at = "report"]
<1>1. Types /\ WaiterSound(l) /\ o \in Waiter
  BY DEF Good, Sound, LaunchSound, Types
<1>2. /\ waiter' = [waiter EXCEPT ![l] = w]
      /\ {} \in SUBSET (Procs \cup {Handover}) /\ unseen' = [unseen EXCEPT ![l] = {}]
  BY <1>1, ViewTyped DEF Set, Track
<1>3. /\ w \in Waiter /\ w.tracked = p /\ w.timer = "off" /\ w.at = "report"
      /\ w.pending = IF o.pending = p THEN NoProc ELSE o.pending
      /\ w.target = o.target /\ w.survived = o.survived /\ w.rootExited = o.rootExited
  BY <1>1 DEF Waiter, Timers
<1> HIDE DEF w
<1>4. /\ w.pending # w.tracked
      /\ w.pending # NoProc => Known(w.pending, l)
      /\ w.rootExited => ~Running(Root(l))
  BY <1>1, <1>3, ProcNumbers DEF WaiterSound, Root
<1>5. QED
  BY <1>1, <1>2, <1>3, <1>4, LoopGoesOn

\* Nothing is found in the tree of the launcher.
LEMMA ScanTreeGood == ASSUME Good, NEW l \in Launches, ScanTree(l) PROVE Good'
<1> DEFINE o == waiter[l]
           w == [o EXCEPT !.at = IF o.seen THEN "prefix" ELSE "report"]
<1>1. /\ Types /\ WaiterSound(l) /\ o \in Waiter /\ o.at = "tree"
      /\ UNCHANGED <<proc, runner, mounted, browsing, up, asked, withdrawn>>
      /\ faults' \in 0..MaxFaults
  BY ViewTyped DEF Good, Sound, LaunchSound, Types, ScanTree, At
<1>2. ASSUME NEW p \in InTree(l), Set(l, Track(waiter[l], p)), InView(l)
      PROVE  Good'
  <2>1. Root(l) \in Procs /\ Known(Root(l), l)
    BY <1>1 DEF WaiterSound, Root, Known, Good, Sound, ProcSound, Unused
  <2>2. p \in Procs /\ Known(p, l)
    BY <2>1, Descend DEF InTree
  <2>3. QED
    BY <1>1, <1>2, <2>2, TrackGood
<1>3. CASE waiter' = [waiter EXCEPT ![l] = w] /\ UNCHANGED unseen
  <2>1. /\ w \in Waiter /\ w.at \in {"prefix", "report"} /\ w.tracked = NoProc
        /\ w.target = o.target /\ w.survived = o.survived /\ w.rootExited = o.rootExited
        /\ w.pending = o.pending /\ w.timer = o.timer
    BY <1>1 DEF Waiter, WaiterSound
  <2> HIDE DEF w
  <2>2. /\ w.pending # NoProc => Known(w.pending, l)
        /\ w.rootExited => ~Running(Root(l))
        /\ w.timer # "off" => Starters(l) = {} \/ unseen[l] # {}
        /\ w.timer = "elapsed" => asked[l] # "open" \/ unseen[l] # {}
    BY <1>1, <2>1 DEF WaiterSound, Root
  <2>3. /\ unseen[l] \in SUBSET (Procs \cup {Handover})
        /\ unseen' = [unseen EXCEPT ![l] = unseen[l]]
    BY <1>1, <1>3, ViewTyped
  <2>4. QED
    BY <1>1, <1>3, <2>1, <2>2, <2>3, LoopGoesOn
<1>4. QED
  BY <1>2, <1>3 DEF ScanTree, Set

\* Nor in the prefix: if nobody is left who may start a process of the launch, and the time
\* is over, there is none; or it was overlooked.
LEMMA ScanPrefixGood == ASSUME Good, NEW l \in Launches, ScanPrefix(l) PROVE Good'
<1> DEFINE o == waiter[l]
           w == [o EXCEPT !.at = IF o.rootExited THEN "pending" ELSE "report"]
<1>1. /\ Types /\ WaiterSound(l) /\ o \in Waiter /\ o.at = "prefix"
      /\ UNCHANGED <<proc, runner, mounted, browsing, up, asked, withdrawn>>
      /\ faults' \in 0..MaxFaults
  BY ViewTyped DEF Good, Sound, LaunchSound, Types, ScanPrefix, At
<1>2. ASSUME NEW p \in InPrefix(l), Set(l, Track(waiter[l], p)), InView(l)
      PROVE  Good'
  <2>1. p \in Procs /\ Known(p, l)
    BY DEF InPrefix, Matches, Running, Known
  <2>2. QED
    BY <1>1, <1>2, <2>1, TrackGood
<1>3. ASSUME waiter' = [waiter EXCEPT ![l] = w], Hidden(l, InPrefix(l))
      PROVE  Good'
  <2> DEFINE u == unseen[l] \cup InPrefix(l)
  <2>1. /\ w \in Waiter /\ w.at = (IF o.rootExited THEN "pending" ELSE "report")
        /\ w.tracked = NoProc
        /\ w.target = o.target /\ w.survived = o.survived /\ w.rootExited = o.rootExited
        /\ w.pending = o.pending /\ w.timer = o.timer
    BY <1>1 DEF Waiter, WaiterSound
  <2> HIDE DEF w
  <2>2. u \in SUBSET (Procs \cup {Handover}) /\ unseen' = [unseen EXCEPT ![l] = u]
    BY <1>1, <1>3, ViewTyped DEF InPrefix
  <2>3. u = {} => unseen[l] = {} /\ InPrefix(l) = {}
    OBVIOUS
  <2> HIDE DEF u
  <2>4. /\ w.pending # NoProc => Known(w.pending, l)
        /\ w.rootExited => ~Running(Root(l))
        /\ w.timer # "off" => Starters(l) = {} \/ u # {}
        /\ w.timer = "elapsed" => asked[l] # "open" \/ u # {}
    BY <1>1, <2>1, <2>3 DEF WaiterSound, Root
  <2>5. ASSUME w.at = "pending", w.timer = "elapsed", u = {}, NEW p \in Workload(l)
        PROVE  FALSE
    <3>1. w.rootExited /\ p \in Procs /\ Running(p) /\ proc[p].of = l /\ proc[p].name # "wineserver"
      BY <2>1, <2>5 DEF Workload
    <3>2. p # Root(l) /\ p \notin Starters(l)
      BY <2>4, <2>5, <3>1
    <3>3. ~proc[p].token /\ proc[p].name = "expected"
      BY <3>1, <3>2 DEF Starters, Good, Sound, ProcSound
    <3>4. QED
      BY <2>3, <2>5, <3>1, <3>2, <3>3 DEF InPrefix, Matches
  <2>6. w.at \in {"pending", "report"} /\ (w.at = "pending" => w.rootExited)
    BY <2>1
  <2>7. w.at = "pending" /\ w.timer = "elapsed" => Workload(l) = {} \/ u # {}
    BY <2>5
  <2>8. QED
    BY <1>1, <1>3, <2>1, <2>2, <2>4, <2>6, <2>7, LoopGoesOn
<1>4. QED
  BY <1>2, <1>3 DEF ScanPrefix, Set

\* A process that may become the game, the grace period, or the end of the launch.
LEMMA ScanPendingGood == ASSUME Good, NEW l \in Launches, ScanPending(l) PROVE Good'
<1> DEFINE o == waiter[l]
           found == IF o.pending # NoProc THEN {o.pending} ELSE Pending(l)
<1>1. /\ Types /\ WaiterSound(l) /\ o \in Waiter /\ o.at = "pending" /\ o.rootExited
      /\ o.tracked = NoProc /\ ~Running(Root(l))
      /\ UNCHANGED <<proc, mounted, browsing, up, asked, withdrawn>>
  BY DEF Good, Sound, LaunchSound, Types, ScanPending, At, WaiterSound, Root
<1>2. PICK blind \in SUBSET IF o.pending # NoProc THEN {} ELSE found :
         /\ Overlook(blind, found)
         /\ \/ /\ \E p \in found \ blind :
                     Set(l, [o EXCEPT !.pending = p, !.timer = "off", !.at = "report"])
               /\ InView(l)
               /\ UNCHANGED runner
            \/ /\ found = blind /\ o.timer # "elapsed"
               /\ Set(l, [o EXCEPT !.timer = "ticking", !.at = "report"])
               /\ Hidden(l, blind)
               /\ UNCHANGED runner
            \/ /\ found = blind /\ o.timer = "elapsed"
               /\ Hidden(l, blind)
               /\ Return(l, "completed")
  BY DEF ScanPending
<1>3. faults' \in 0..MaxFaults
  BY <1>1, <1>2, ViewTyped
<1>4. ASSUME NEW p \in found,
             Set(l, [o EXCEPT !.pending = p, !.timer = "off", !.at = "report"]),
             InView(l), UNCHANGED runner
      PROVE  Good'
  <2> DEFINE w == [o EXCEPT !.pending = p, !.timer = "off", !.at = "report"]
  <2>1. p \in Procs /\ Known(p, l)
    <3>1. CASE o.pending # NoProc
      BY <1>1, <1>4, <3>1 DEF WaiterSound, Waiter
    <3>2. CASE o.pending = NoProc
      BY <1>4, <3>2 DEF Pending, Matches, Running, Known
    <3>3. QED
      BY <3>1, <3>2
  <2>2. /\ w \in Waiter /\ w.pending = p /\ w.timer = "off" /\ w.at = "report"
        /\ w.tracked = NoProc
        /\ w.target = o.target /\ w.survived = o.survived
    BY <1>1, <2>1 DEF Waiter, Timers
  <2>3. /\ waiter' = [waiter EXCEPT ![l] = w]
        /\ {} \in SUBSET (Procs \cup {Handover}) /\ unseen' = [unseen EXCEPT ![l] = {}]
    BY <1>1, <1>4, ViewTyped DEF Set
  <2> HIDE DEF w
  <2>4. QED
    BY <1>1, <1>3, <1>4, <2>1, <2>2, <2>3, LoopGoesOn
<1>5. ASSUME found = blind, Hidden(l, blind)
      PROVE  /\ unseen[l] \cup blind \in SUBSET (Procs \cup {Handover})
             /\ unseen' = [unseen EXCEPT ![l] = unseen[l] \cup blind]
             /\ Starters(l) = {} \/ unseen[l] \cup blind # {}
  <2>1. o.pending = NoProc /\ blind = Pending(l)
    BY <1>2, <1>5
  <2>2. \A p \in Starters(l) : p \in Pending(l)
    BY <1>1 DEF Starters, Pending, Matches
  <2>3. Pending(l) \subseteq Procs
    BY DEF Pending
  <2>4. unseen[l] \in SUBSET (Procs \cup {Handover})
    BY <1>1, ViewTyped
  <2>5. unseen' = [unseen EXCEPT ![l] = unseen[l] \cup blind]
    BY <1>1, <1>5, ViewTyped
  <2>6. QED
    BY <2>1, <2>2, <2>3, <2>4, <2>5
<1>6. ASSUME found = blind, Hidden(l, blind), UNCHANGED runner,
             Set(l, [o EXCEPT !.timer = "ticking", !.at = "report"])
      PROVE  Good'
  <2> DEFINE w == [o EXCEPT !.timer = "ticking", !.at = "report"]
             u == unseen[l] \cup blind
  <2>1. waiter' = [waiter EXCEPT ![l] = w]
    BY <1>6 DEF Set
  <2>2. /\ w \in Waiter /\ w.pending = o.pending /\ w.timer = "ticking" /\ w.at = "report"
        /\ w.tracked = NoProc
        /\ w.target = o.target /\ w.survived = o.survived
    BY <1>1 DEF Waiter, Timers
  <2> HIDE DEF w
  <2>3. /\ u \in SUBSET (Procs \cup {Handover}) /\ unseen' = [unseen EXCEPT ![l] = u]
        /\ Starters(l) = {} \/ u # {}
    BY <1>5, <1>6
  <2> HIDE DEF u
  <2>4. w.pending # NoProc => Known(w.pending, l)
    BY <1>1, <2>2 DEF WaiterSound
  <2>5. QED
    BY <1>1, <1>3, <1>6, <2>1, <2>2, <2>3, <2>4, LoopGoesOn
<1>7. ASSUME found = blind, Hidden(l, blind), o.timer = "elapsed", Return(l, "completed")
      PROVE  Good'
  <2> DEFINE u == unseen[l] \cup blind
  <2>1. u \in SUBSET (Procs \cup {Handover}) /\ unseen' = [unseen EXCEPT ![l] = u]
    BY <1>5, <1>7
  <2>2. u # {} \/ (Workload(l) = {} /\ asked[l] # "open")
    BY <1>1, <1>7 DEF WaiterSound
  <2> HIDE DEF u
  <2>3. QED
    BY <1>1, <1>3, <1>7, <2>1, <2>2, ReturnsAlone
<1>8. QED
  BY <1>2, <1>4, <1>6, <1>7

\* The grace period passes, in which no daemon has started a game that it was asked for.
LEMMA ElapseGood == ASSUME Good, NEW l \in Launches, Elapse(l) PROVE Good'
<1> DEFINE o == waiter[l]
           w == [o EXCEPT !.timer = "elapsed"]
           late == IF asked[l] = "open" THEN {Handover} ELSE {}
           u == unseen[l] \cup late
<1>1. /\ Types /\ WaiterSound(l) /\ o \in Waiter /\ o.at = "poll" /\ o.timer = "ticking"
      /\ Hidden(l, late)
      /\ UNCHANGED <<proc, runner, mounted, browsing, up, asked, withdrawn, faults>>
  BY DEF Good, Sound, LaunchSound, Types, Elapse, At
<1>2. waiter' = [waiter EXCEPT ![l] = w]
  BY DEF Elapse, Good, Types
<1>3. /\ w \in Waiter /\ w.timer = "elapsed" /\ w.at = "poll" /\ w.rootExited = o.rootExited
      /\ w.tracked = o.tracked /\ w.pending = o.pending
      /\ w.target = o.target /\ w.survived = o.survived
  BY <1>1 DEF Waiter, Timers
<1> HIDE DEF w
<1>4. /\ w.tracked # NoProc => Known(w.tracked, l) /\ w.pending # w.tracked
      /\ w.pending # NoProc => Known(w.pending, l)
      /\ w.rootExited => ~Running(Root(l))
      /\ Starters(l) = {} \/ unseen[l] # {}
  BY <1>1, <1>3 DEF WaiterSound, Root
<1>5. /\ u \in SUBSET (Procs \cup {Handover}) /\ unseen' = [unseen EXCEPT ![l] = u]
      /\ faults' \in 0..MaxFaults
  <2>1. late \in SUBSET {Handover}
    OBVIOUS
  <2> HIDE DEF late
  <2>2. unseen[l] \in SUBSET (Procs \cup {Handover})
    BY <1>1, ViewTyped
  <2>3. unseen' = [unseen EXCEPT ![l] = unseen[l] \cup late]
    BY <1>1, ViewTyped
  <2>4. QED
    BY <1>1, <2>1, <2>2, <2>3 DEF Types
<1>6. asked[l] # "open" \/ u # {}
  OBVIOUS
<1>7. Starters(l) = {} \/ u # {}
  BY <1>4
<1> HIDE DEF u
<1>8. QED
  BY <1>1, <1>2, <1>3, <1>4, <1>5, <1>6, <1>7, LoopGoesOn

\* The loop goes on, or the lock has been opened.
LEMMA ReportGood == ASSUME Good, NEW l \in Launches, Report(l) PROVE Good'
<1> DEFINE o == waiter[l]
<1>1. /\ Types /\ WaiterSound(l) /\ o \in Waiter /\ o.at = "report"
      /\ UNCHANGED <<proc, mounted, browsing, up, asked, withdrawn, unseen, faults>>
  BY DEF Good, Sound, LaunchSound, Types, Report, At
<1>u. /\ unseen[l] \in SUBSET (Procs \cup {Handover})
      /\ unseen' = [unseen EXCEPT ![l] = unseen[l]] /\ faults' \in 0..MaxFaults
  BY <1>1, ViewTyped DEF Types
<1>2. ASSUME NEW step \in {"poll", "kill"}, Set(l, [o EXCEPT !.at = step]), UNCHANGED runner
      PROVE  Good'
  <2> DEFINE w == [o EXCEPT !.at = step]
  <2>1. waiter' = [waiter EXCEPT ![l] = w]
    BY <1>2 DEF Set
  <2>2. /\ w \in Waiter /\ w.at = step /\ w.rootExited = o.rootExited
        /\ w.tracked = o.tracked /\ w.pending = o.pending
        /\ w.timer = o.timer
        /\ w.target = o.target /\ w.survived = o.survived
    BY <1>1 DEF Waiter
  <2> HIDE DEF w
  <2>3. /\ w.tracked # NoProc =>
              Known(w.tracked, l) /\ w.pending # w.tracked
        /\ w.pending # NoProc => Known(w.pending, l)
        /\ w.rootExited => ~Running(Root(l))
        /\ w.timer # "off" => Starters(l) = {} \/ unseen[l] # {}
        /\ w.timer = "elapsed" => asked[l] # "open" \/ unseen[l] # {}
    BY <1>1, <2>2 DEF WaiterSound, Root
  <2>4. QED
    BY <1>1, <1>u, <1>2, <2>1, <2>2, <2>3, LoopGoesOn
<1>3. ASSUME NEW result \in {"cancelled", "error"}, Return(l, result)
      PROVE  Good'
  BY <1>1, <1>u, <1>3, ReturnsAlone
<1>4. QED
  BY <1>2, <1>3 DEF Report

\* A status query fails.
LEMMA PollFailsGood == ASSUME Good, NEW l \in Launches, PollFails(l) PROVE Good'
<1>1. /\ Types /\ waiter[l].at = "poll" /\ Return(l, "error")
      /\ UNCHANGED <<proc, mounted, browsing, up, asked, withdrawn, unseen>>
  BY DEF Good, PollFails, At
<1>2. /\ unseen[l] \in SUBSET (Procs \cup {Handover})
      /\ unseen' = [unseen EXCEPT ![l] = unseen[l]] /\ faults' \in 0..MaxFaults
  BY <1>1, ViewTyped, LaunchAssumption DEF PollFails, Types
<1>3. QED
  BY <1>1, <1>2, ReturnsAlone

-----------------------------------------------------------------------------
(* Killing.                                                                 *)

\* What is killed is known to the launch.
LEMMA TargetsKnown ==
  ASSUME Good, NEW l \in Launches, waiter[l].at \in {"kill", "strike"}
  PROVE  /\ DOMAIN Targets(l) = 1..3
         /\ \A i \in 1..3 : \/ Targets(l)[i] = NoProc
                            \/ Targets(l)[i] \in Procs /\ Known(Targets(l)[i], l)
         /\ Targets(l) = <<Root(l), waiter[l].tracked, waiter[l].pending>>
<1>1. WaiterSound(l) /\ waiter[l] \in Waiter
  BY DEF Good, Sound, LaunchSound, Types
<1>2. Root(l) \in Procs /\ Known(Root(l), l)
  BY <1>1 DEF WaiterSound, Root, Known, Good, Sound, ProcSound, Unused
<1>3. /\ waiter[l].tracked # NoProc => waiter[l].tracked \in Procs /\ Known(waiter[l].tracked, l)
      /\ waiter[l].pending # NoProc => waiter[l].pending \in Procs /\ Known(waiter[l].pending, l)
  BY <1>1 DEF WaiterSound, Waiter
<1>4. QED
  BY <1>2, <1>3 DEF Targets

\* The tree of the next target is captured, or the target has exited.
LEMMA SnapshotGood == ASSUME Good, NEW l \in Launches, Snapshot(l) PROVE Good'
<1> DEFINE o == waiter[l]
           t == Targets(l)[o.target]
<1>1. /\ Types /\ WaiterSound(l) /\ KillSound(l) /\ o \in Waiter /\ o.at = "kill" /\ o.target \in 1..3
      /\ UNCHANGED <<proc, runner, mounted, browsing, up, asked, withdrawn, unseen>>
  BY TargetsKnown DEF Good, Sound, LaunchSound, Types, Snapshot, At
<1>2. /\ t = NoProc \/ (t \in Procs /\ Known(t, l))
      /\ Targets(l) = <<Root(l), o.tracked, o.pending>>
      /\ \A i \in 1..(o.target - 1) :
            o.survived \/ (Running(Targets(l)[i]) => Targets(l)[i] \in unseen[l])
  BY <1>1, TargetsKnown DEF KillSound
<1>u. /\ unseen[l] \in SUBSET (Procs \cup {Handover})
      /\ unseen' = [unseen EXCEPT ![l] = unseen[l]] /\ unseen'[l] = unseen[l]
  BY <1>1, ViewTyped
<1>f. faults' \in 0..MaxFaults
  <2>1. \/ UNCHANGED faults
        \/ \E blind \in SUBSET Descendants(t) : Overlook(blind, Descendants(t))
        \/ faults < MaxFaults /\ faults' = faults + 1
    BY DEF Snapshot
  <2>2. QED
    BY <1>1, <2>1, ViewTyped, LaunchAssumption DEF Types
<1>3. ASSUME NEW w \in Waiter, waiter' = [waiter EXCEPT ![l] = w],
             w.at \in {"kill", "strike"}, w.tracked = o.tracked, w.pending = o.pending,
             w.rootExited = o.rootExited, w.timer = o.timer,
             \A i \in 1..(w.target - 1) :
                w.survived \/ (Running(Targets(l)[i]) => Targets(l)[i] \in unseen[l]),
             w.at = "strike" => /\ w.target \in 1..3 /\ Targets(l)[w.target] \in w.doomed
                                /\ \A p \in w.doomed : Known(p, l)
      PROVE  Good'
  <2>1. waiter'[l] = w
    BY <1>1, <1>3 DEF Types
  <2>2. /\ \A p : Known(p, l)' <=> Known(p, l)
        /\ \A p : Running(p)' <=> Running(p)
        /\ Starters(l)' = Starters(l) /\ runner'[l] = runner[l] /\ proc' = proc
        /\ asked'[l] = asked[l]
    BY <1>1 DEF Known, Starters, Running
  <2>3. WaiterSound(l)'
    BY <1>1, <1>u, <1>3, <2>1, <2>2 DEF WaiterSound
  <2>4. Targets(l)' = Targets(l)
    BY <1>3, <2>1, <2>2 DEF Targets, Root
  <2>5. KillSound(l)'
    BY <1>u, <1>3, <2>1, <2>2, <2>4 DEF KillSound
  <2>6. QED
    BY <1>1, <1>u, <1>f, <1>3, <2>3, <2>5, WaiterMoves
<1>4. ASSUME Running(t), NEW blind \in SUBSET Descendants(t),
             Set(l, [o EXCEPT !.doomed = {t} \cup (Descendants(t) \ blind), !.at = "strike"])
      PROVE  Good'
  <2> DEFINE doomed == {t} \cup (Descendants(t) \ blind)
             w == [o EXCEPT !.doomed = doomed, !.at = "strike"]
  <2>1. waiter' = [waiter EXCEPT ![l] = w]
    BY <1>4 DEF Set
  <2>2. t \in Procs /\ Known(t, l)
    BY <1>2, <1>4 DEF Running
  <2>3. \A p \in doomed : p \in Procs /\ Known(p, l)
    BY <2>2, Descend
  <2>4. doomed \in SUBSET Procs /\ t \in doomed
    BY <2>2, <2>3
  <2> HIDE DEF doomed
  <2>5. /\ w \in Waiter /\ w.at = "strike" /\ w.tracked = o.tracked /\ w.pending = o.pending
        /\ w.rootExited = o.rootExited /\ w.timer = o.timer /\ w.survived = o.survived
        /\ w.target = o.target /\ w.doomed = doomed
    BY <1>1, <2>4 DEF Waiter
  <2> HIDE DEF w
  <2>6. /\ \A i \in 1..(w.target - 1) :
              w.survived \/ (Running(Targets(l)[i]) => Targets(l)[i] \in unseen[l])
        /\ Targets(l)[w.target] \in w.doomed /\ w.target \in 1..3
    BY <1>1, <1>2, <2>4, <2>5
  <2>7. QED
    BY <1>3, <2>1, <2>3, <2>5, <2>6
<1>5. ASSUME NEW survived \in BOOLEAN,
             Set(l, [o EXCEPT !.target = @ + 1, !.survived = survived]),
             survived \/ (~Running(t) /\ survived = o.survived)
      PROVE  Good'
  <2> DEFINE w == [o EXCEPT !.target = @ + 1, !.survived = survived]
  <2>1. waiter' = [waiter EXCEPT ![l] = w]
    BY <1>5 DEF Set
  <2>2. o.target + 1 \in 1..4
    BY <1>1
  <2>3. /\ w \in Waiter /\ w.at = "kill" /\ w.tracked = o.tracked /\ w.pending = o.pending
        /\ w.rootExited = o.rootExited /\ w.timer = o.timer /\ w.survived = survived
        /\ w.target = o.target + 1
    BY <1>1, <2>2 DEF Waiter
  <2> HIDE DEF w
  <2>4. \A i \in 1..(w.target - 1) :
           w.survived \/ (Running(Targets(l)[i]) => Targets(l)[i] \in unseen[l])
    <3>1. \A i \in 1..(w.target - 1) : i = o.target \/ i \in 1..(o.target - 1)
      BY <1>1, <2>3
    <3>2. QED
      BY <1>2, <1>5, <2>3, <3>1
  <2>5. QED
    BY <1>3, <2>1, <2>3, <2>4
<1>6. CASE Running(t) /\ Set(l, [o EXCEPT !.target = @ + 1, !.survived = TRUE])
  BY <1>5, <1>6
<1>7. CASE ~Running(t) /\ Set(l, [o EXCEPT !.target = @ + 1])
  <2>1. [o EXCEPT !.target = @ + 1] = [o EXCEPT !.target = @ + 1, !.survived = o.survived]
        /\ o.survived \in BOOLEAN
    BY <1>1 DEF Waiter
  <2>2. QED
    BY <1>5, <1>7, <2>1
<1>8. QED
  BY <1>4, <1>6, <1>7 DEF Snapshot

\* The signals: a root that is left has survived, or could not be read.
LEMMA StrikeGood == ASSUME Good, NEW l \in Launches, Strike(l) PROVE Good'
<1> DEFINE o == waiter[l]
           alive == {p \in o.doomed : Running(p)}
<1>t. PICK t \in {Targets(l)[o.target]} : TRUE
  OBVIOUS
<1>1. /\ Types /\ RunnerSound(l) /\ WaiterSound(l) /\ KillSound(l) /\ o \in Waiter
      /\ o.at = "strike" /\ o.target \in 1..3
      /\ UNCHANGED <<runner, mounted, browsing, up, asked, withdrawn>>
  BY DEF Good, Sound, LaunchSound, Types, Strike, At, KillSound
<1>2. PICK resists \in {{}} \cup {{p} : p \in alive}, unread \in {{}} \cup {{p} : p \in alive},
           left \in SUBSET alive, gone \in BOOLEAN :
         /\ faults' = faults + Cardinality(resists) + Cardinality(unread)
         /\ faults' <= MaxFaults
         /\ resists \subseteq left /\ left \subseteq resists \cup unread
         /\ IF t \in unread THEN gone => resists \subseteq unread
                            ELSE gone <=> t \notin resists
         /\ proc' = Exited(alive \ left)
         /\ Set(l, [o EXCEPT !.target = @ + 1, !.doomed = {}, !.at = "kill",
                             !.survived = @ \/ ~gone])
         /\ Hidden(l, unread)
  BY ZenonT(60), <1>t DEF Strike
<1>u. /\ unseen' = [unseen EXCEPT ![l] = unseen[l] \cup unread]
      /\ unseen' \in [Launches -> SUBSET (Procs \cup {Handover})]
      /\ unseen'[l] = unseen[l] \cup unread
      /\ \A k \in Launches \ {l} : unseen'[k] = unseen[k]
  <2>1. unread \subseteq Procs
    BY <1>1, <1>2 DEF Waiter
  <2>2. unseen' = [unseen EXCEPT ![l] = unseen[l] \cup unread]
    BY <1>1, <1>2, ViewTyped
  <2>3. QED
    BY <1>1, <2>1, <2>2 DEF Types
<1> DEFINE survived == o.survived \/ ~gone
           next == [o EXCEPT !.target = @ + 1, !.doomed = {}, !.at = "kill",
                             !.survived = survived]
<1>3. PICK w \in {next} : waiter' = [waiter EXCEPT ![l] = w]
  BY <1>2 DEF Set
<1>4. /\ w \in Waiter /\ w.at = "kill" /\ w.tracked = o.tracked /\ w.pending = o.pending
      /\ w.rootExited = o.rootExited /\ w.timer = o.timer /\ w.target = o.target + 1
      /\ w.survived <=> survived
  <2>1. o.target + 1 \in 1..4 /\ {} \in SUBSET Procs
    BY <1>1
  <2>2. survived \in BOOLEAN
    BY <1>1 DEF Waiter
  <2> HIDE DEF survived
  <2>3. QED
    BY ZenonT(60), <1>1, <1>3, <2>1, <2>2 DEF Waiter
<1> HIDE DEF next
<1>5. waiter'[l] = w /\ \A k \in Launches \ {l} : waiter'[k] = waiter[k]
  BY <1>1, <1>3 DEF Types
<1>6. alive \ left \in SUBSET {p \in Procs : Running(p)}
  BY <1>1 DEF Waiter
<1>7. /\ proc' \in [Procs -> Process]
      /\ \A p \in Procs : ProcSound(p)'
      /\ \A k : ProcStep(k)
      /\ \A p \in Procs : Running(p)' <=> Running(p) /\ p \notin alive \ left
  <2> DEFINE ps == alive \ left
  <2>1. ps \in SUBSET {p \in Procs : Running(p)} /\ proc' = Exited(ps) /\ UNCHANGED asked
    BY <1>1, <1>2, <1>6
  <2> HIDE DEF ps
  <2>2. /\ proc' \in [Procs -> Process]
        /\ \A p \in Procs : ProcSound(p)'
        /\ \A k : ProcStep(k)
        /\ \A p \in Procs : Running(p)' <=> Running(p) /\ p \notin ps
    BY <2>1, Exits
  <2>3. QED
    BY <2>2 DEF ps
<1>8. faults' \in 0..MaxFaults
  <2>1. /\ Cardinality(resists) = IF resists = {} THEN 0 ELSE 1
        /\ Cardinality(unread) = IF unread = {} THEN 0 ELSE 1
    BY ZenonT(60), <1>2, FS_EmptySet, FS_Singleton
  <2>2. QED
    BY <1>1, <1>2, <2>1, LaunchAssumption DEF Types
<1>9. Types'
  BY <1>1, <1>u, <1>3, <1>4, <1>7, <1>8 DEF Types
<1>10. RunnerSound(l)'
  <2>1. runner[l].phase = "waiting" /\ runner[l].result = "none"
    BY <1>1 DEF WaiterSound, RunnerSound
  <2>2. QED
    BY <1>1, <2>1 DEF RunnerSound
<1>11. WaiterSound(l)'
  <2>1. /\ w.tracked # NoProc => Known(w.tracked, l)' /\ w.pending # w.tracked
        /\ w.pending # NoProc => Known(w.pending, l)'
    BY <1>1, <1>4, <1>7, Lasting DEF WaiterSound, Waiter
  <2>2. /\ w.timer # "off" => Starters(l)' = {} \/ unseen'[l] # {}
        /\ w.timer = "elapsed" => asked'[l] # "open" \/ unseen'[l] # {}
    BY <1>1, <1>u, <1>4, <1>7, Lasting DEF WaiterSound
  <2>3. /\ runner[l].phase = "waiting" /\ runner[l].root \in Procs
        /\ proc'[runner[l].root].token /\ proc'[runner[l].root].of = l
        /\ w.rootExited => ~Running(runner[l].root)'
    <3>1. /\ runner[l].root \in Procs /\ proc[runner[l].root].token
          /\ proc[runner[l].root].of = l /\ Known(runner[l].root, l)
          /\ o.rootExited => ~Running(runner[l].root)
      BY <1>1 DEF WaiterSound, Known, Good, Sound, ProcSound, Unused
    <3>2. QED
      BY <1>1, <1>4, <1>7, <3>1 DEF ProcStep, Known, WaiterSound
  <2>4. QED
    BY <1>1, <1>4, <1>5, <2>1, <2>2, <2>3 DEF WaiterSound
<1>12. KillSound(l)'
  <2>1. Targets(l)' = Targets(l)
    BY <1>1, <1>4, <1>5 DEF Targets, Root
  <2>2. ASSUME NEW i \in 1..(w.target - 1)
        PROVE  w.survived \/ (Running(Targets(l)[i])' => Targets(l)[i] \in unseen'[l])
    <3>1. i \in 1..3 /\ (i = o.target \/ i \in 1..(o.target - 1))
      BY <1>1, <1>4
    <3>2. Targets(l)[i] = NoProc \/ Targets(l)[i] \in Procs
      BY <1>1, <3>1, TargetsKnown
    <3>3. CASE Targets(l)[i] = NoProc
      BY <2>1, <3>3 DEF Running
    <3>4. CASE Targets(l)[i] \in Procs /\ i \in 1..(o.target - 1)
      BY <1>1, <1>u, <1>4, <1>7, <2>1, <3>4 DEF KillSound
    <3>5. CASE Targets(l)[i] \in Procs /\ i = o.target
      <4>1. t \in o.doomed /\ t = Targets(l)[i]
        BY <1>1, <1>t, <3>5 DEF KillSound
      <4>2. Running(t)' => t \in left
        BY <1>7, <3>5, <4>1
      <4>3. t \in left => ~gone \/ t \in unread
        BY <1>2
      <4>4. QED
        BY <1>u, <1>4, <2>1, <4>1, <4>2, <4>3
    <3>6. QED
      BY <3>1, <3>2, <3>3, <3>4, <3>5
  <2>3. QED
    BY <1>4, <1>5, <2>1, <2>2 DEF KillSound
<1>13. QED
  BY <1>1, <1>u, <1>5, <1>7, <1>9, <1>10, <1>11, <1>12, OneLaunch DEF LaunchSound

\* The wineserver goes if every tree has; otherwise the mount must stay.
LEMMA UnlockGood == ASSUME Good, NEW l \in Launches, Unlock(l) PROVE Good'
<1>1. /\ Types /\ waiter[l].at = "kill"
      /\ Return(l, Verdict(waiter[l].survived))
      /\ UNCHANGED <<mounted, browsing, up, asked, withdrawn, unseen, faults>>
  BY DEF Good, Unlock, At
<1> DEFINE result == Verdict(waiter[l].survived)
<1>2. result \in {"unlocked", "error"}
  BY DEF Verdict
<1>3. /\ unseen[l] \in SUBSET (Procs \cup {Handover})
      /\ unseen' = [unseen EXCEPT ![l] = unseen[l]] /\ faults' \in 0..MaxFaults
  BY <1>1, ViewTyped DEF Types
<1> HIDE DEF result
<1>4. CASE waiter[l].survived
  <2>1. UNCHANGED proc
    BY <1>4 DEF Unlock
  <2>2. QED
    BY <1>1, <1>2, <1>3, <2>1, ReturnsAlone DEF result
<1>5. CASE ~waiter[l].survived
  <2> DEFINE ps == {p \in Procs : Running(p) /\ proc[p].name = "wineserver"}
  <2>1. ps \in SUBSET {p \in Procs : Running(p)} /\ proc' = Exited(ps) /\ UNCHANGED asked
    BY <1>1, <1>5 DEF Unlock
  <2> HIDE DEF ps
  <2>2. /\ proc' \in [Procs -> Process] /\ \A p \in Procs : ProcSound(p)'
        /\ \A k : ProcStep(k)
    BY <2>1, Exits
  <2>3. QED
    BY <1>1, <1>2, <1>3, <2>2, Returns DEF result
<1>6. QED
  BY <1>4, <1>5

-----------------------------------------------------------------------------
(* Steps of the main thread.                                                *)

\* The variables that no promise about the processes is about.
OthersTyped ==
    /\ mounted \in BOOLEAN /\ browsing \in BOOLEAN /\ up \in BOOLEAN
    /\ withdrawn \in Launches \cup {"nobody", "browse", "quit"} /\ faults \in 0..MaxFaults

\* Nothing happens to the launches.
LEMMA Apart ==
  ASSUME Good, UNCHANGED <<proc, runner, waiter, asked, unseen>>, OthersTyped'
  PROVE  Good'
<1>1. Types'
  BY DEF Good, Types, OthersTyped
<1>2. \A l \in Launches : LaunchSound(l)'
  BY Unmoved, OtherLaunches
<1>3. QED
  BY <1>1, <1>2, Unmoved DEF Good, Sound

\* What taking the mount away leaves.
LEMMA UnmountTyped ==
  ASSUME Types, NEW who \in Launches \cup {"browse", "quit"}, Unmount(who)
  PROVE  mounted' \in BOOLEAN /\ withdrawn' \in Launches \cup {"nobody", "browse", "quit"}
BY DEF Types, Unmount

\* A launch that nobody waits for changes.
LEMMA RunnerMoves ==
  ASSUME Good, NEW l \in Launches, NEW r \in Runner, runner' = [runner EXCEPT ![l] = r],
         UNCHANGED <<proc, waiter, asked, unseen>>, OthersTyped',
         runner[l].phase # "waiting", RunnerSound(l)'
  PROVE  Good'
<1>1. Types /\ LaunchSound(l) /\ waiter[l] = NotWaiting
  BY DEF Good, Sound, LaunchSound, WaiterSound
<1>2. Types'
  BY <1>1 DEF Types, OthersTyped
<1>3. \A k \in Launches \ {l} : runner'[k] = runner[k] /\ waiter'[k] = waiter[k]
  BY <1>1 DEF Types
<1>4. WaiterSound(l)' /\ KillSound(l)'
  BY <1>1, RestingNext
<1>5. QED
  BY <1>2, <1>3, <1>4, Unmoved, OneLaunch DEF LaunchSound

\* beforeRun mounts, or fails.
LEMMA PrepareGood ==
  ASSUME Good, NEW l \in Launches, NEW mode \in Modes, Prepare(l, mode)
  PROVE  Good'
<1>1. /\ Types /\ RunnerSound(l) /\ runner[l] \in Runner /\ runner[l].phase = "idle"
      /\ UNCHANGED <<proc, waiter, browsing, up, asked, unseen, faults>>
  BY DEF Good, Sound, LaunchSound, Types, Prepare
<1>2. CASE /\ mounted' = TRUE
           /\ runner' = [runner EXCEPT ![l].phase = "prepared", ![l].mode = mode]
           /\ UNCHANGED withdrawn
  <2> DEFINE r == [runner[l] EXCEPT !.phase = "prepared", !.mode = mode]
  <2>1. runner' = [runner EXCEPT ![l] = r]
    BY <1>1, <1>2 DEF Types
  <2>2. /\ r \in Runner /\ r.phase = "prepared" /\ r.root = runner[l].root
        /\ r.result = runner[l].result
    BY <1>1 DEF Runner
  <2> HIDE DEF r
  <2>3. runner'[l] = r
    BY <1>1, <2>1 DEF Types
  <2>4. RunnerSound(l)'
    BY <1>1, <2>2, <2>3 DEF RunnerSound
  <2>5. OthersTyped'
    BY <1>1, <1>2 DEF Types, OthersTyped
  <2>6. QED
    BY <1>1, <2>1, <2>2, <2>4, <2>5, RunnerMoves
<1>3. CASE /\ Unmount(l)
           /\ runner' = [runner EXCEPT ![l].phase = "done", ![l].result = "not started"]
  <2> DEFINE r == [runner[l] EXCEPT !.phase = "done", !.result = "not started"]
  <2>1. runner' = [runner EXCEPT ![l] = r]
    BY <1>1, <1>3 DEF Types
  <2>2. r \in Runner /\ r.phase = "done" /\ r.result = "not started"
    BY <1>1 DEF Runner, Results
  <2> HIDE DEF r
  <2>3. runner'[l] = r
    BY <1>1, <2>1 DEF Types
  <2>4. RunnerSound(l)'
    BY <2>2, <2>3 DEF RunnerSound
  <2>5. OthersTyped'
    BY <1>1, <1>3, UnmountTyped DEF Types, OthersTyped
  <2>6. QED
    BY <1>1, <2>1, <2>2, <2>4, <2>5, RunnerMoves
<1>4. QED
  BY <1>2, <1>3 DEF Prepare

\* abortPreparedLaunch.
LEMMA AbortGood == ASSUME Good, NEW l \in Launches, Abort(l) PROVE Good'
<1> DEFINE r == [runner[l] EXCEPT !.phase = "done", !.result = "not started"]
<1>1. /\ Types /\ runner[l] \in Runner /\ runner[l].phase = "prepared" /\ Unmount(l)
      /\ UNCHANGED <<proc, waiter, browsing, up, asked, unseen, faults>>
  BY DEF Good, Types, Abort
<1>2. runner' = [runner EXCEPT ![l] = r]
  BY <1>1 DEF Types, Abort
<1>3. r \in Runner /\ r.phase = "done" /\ r.result = "not started"
  BY <1>1 DEF Runner, Results
<1> HIDE DEF r
<1>4. runner'[l] = r
  BY <1>1, <1>2 DEF Types
<1>5. RunnerSound(l)'
  BY <1>3, <1>4 DEF RunnerSound
<1>6. OthersTyped'
  BY <1>1, UnmountTyped DEF Types, OthersTyped
<1>7. QED
  BY <1>1, <1>2, <1>3, <1>5, <1>6, RunnerMoves

\* afterRun.
LEMMA AfterRunGood == ASSUME Good, NEW l \in Launches, AfterRun(l) PROVE Good'
<1> DEFINE r == [runner[l] EXCEPT !.phase = "done"]
<1>1. /\ Types /\ RunnerSound(l) /\ runner[l] \in Runner /\ runner[l].phase = "queued"
      /\ Unmount(l)
      /\ UNCHANGED <<proc, waiter, browsing, up, asked, unseen, faults>>
  BY DEF Good, Sound, LaunchSound, Types, AfterRun
<1>2. runner' = [runner EXCEPT ![l] = r]
  BY <1>1 DEF Types, AfterRun
<1>3. r \in Runner /\ r.phase = "done" /\ r.result = runner[l].result
  BY <1>1 DEF Runner
<1> HIDE DEF r
<1>4. runner'[l] = r
  BY <1>1, <1>2 DEF Types
<1>5. RunnerSound(l)'
  <2>1. r.result = "completed" =>
           unseen[l] # {} \/ (Workload(l)' = {} /\ asked'[l] # "open")
    BY <1>1, <1>3 DEF RunnerSound, Workload, Running
  <2>2. QED
    BY <1>1, <1>3, <1>4, <2>1 DEF RunnerSound
<1>6. OthersTyped'
  BY <1>1, UnmountTyped DEF Types, OthersTyped
<1>7. QED
  BY <1>1, <1>2, <1>3, <1>5, <1>6, RunnerMoves

\* The first process of a launch, and the waiter.
LEMMA StartGood ==
  ASSUME Good, NEW l \in Launches, NEW p \in Procs, Start(l, p)
  PROVE  Good'
<1> DEFINE s == [state |-> "running", of |-> l, token |-> TRUE, name |-> "other",
                 parent |-> NoProc]
           r == [runner[l] EXCEPT !.root = p,
                    !.phase = IF runner[l].mode = "detached" THEN "done" ELSE "waiting"]
           w == IF runner[l].mode = "detached" THEN waiter[l]
                ELSE [waiter[l] EXCEPT !.at = "poll"]
<1>1. /\ Types /\ RunnerSound(l) /\ waiter[l] = NotWaiting /\ waiter[l] \in Waiter
      /\ runner[l] \in Runner /\ runner[l].phase = "prepared" /\ Fresh(p)
      /\ UNCHANGED <<mounted, browsing, up, asked, withdrawn, unseen, faults>>
  BY DEF Good, Sound, LaunchSound, Types, WaiterSound, Start
<1>2. /\ proc' = [proc EXCEPT ![p] = s] /\ runner' = [runner EXCEPT ![l] = r]
      /\ waiter' = [waiter EXCEPT ![l] = w]
  BY <1>1 DEF Types, Start
<1>3. /\ s \in Process /\ s.of = l /\ s.token /\ s.state = "running" /\ s.parent \notin Procs
  BY ProcNumbers DEF Process
<1>4. /\ r \in Runner /\ r.root = p /\ r.phase \in {"done", "waiting"}
      /\ r.result = "none" /\ (r.phase = "done" <=> runner[l].mode = "detached")
  BY <1>1 DEF Runner, RunnerSound
<1>5. /\ w \in Waiter /\ (r.phase = "done" => w = NotWaiting)
      /\ r.phase = "waiting" => w = [NotWaiting EXCEPT !.at = "poll"]
  <2>1. [waiter[l] EXCEPT !.at = "poll"] \in Waiter
    BY <1>1 DEF Waiter
  <2>2. QED
    BY <1>1, <1>4, <2>1
<1> HIDE DEF s, r, w
<1>6. /\ proc' \in [Procs -> Process] /\ \A q \in Procs : ProcSound(q)'
      /\ \A k \in Launches \ {l} : ProcStep(k)
  BY <1>1, <1>2, <1>3, Births
<1>7. proc'[p] = s /\ runner'[l] = r /\ waiter'[l] = w
      /\ \A k \in Launches \ {l} : /\ runner'[k] = runner[k] /\ waiter'[k] = waiter[k]
                                  /\ unseen'[k] = unseen[k]
  BY <1>1, <1>2 DEF Types
<1>8. Types'
  BY <1>1, <1>2, <1>4, <1>5, <1>6 DEF Types
<1>9. RunnerSound(l)'
  BY <1>4, <1>7 DEF RunnerSound
<1>10. WaiterSound(l)' /\ KillSound(l)'
  <2>1. CASE r.phase = "done"
    BY <1>5, <1>7, <2>1, RestingNext
  <2>2. CASE r.phase = "waiting"
    <3>1. /\ w.at = "poll" /\ ~w.rootExited /\ w.tracked = NoProc /\ w.pending = NoProc
          /\ w.timer = "off" /\ w.target = 1 /\ ~w.survived
      BY <1>5, <2>2 DEF NotWaiting
    <3>2. WaiterSound(l)'
      BY <1>3, <1>4, <1>7, <2>2, <3>1 DEF WaiterSound
    <3>3. KillSound(l)'
      BY <1>7, <3>1 DEF KillSound
    <3>4. QED
      BY <3>2, <3>3
  <2>3. QED
    BY <1>4, <2>1, <2>2
<1>11. QED
  BY <1>6, <1>7, <1>8, <1>9, <1>10, OneLaunch DEF LaunchSound

\* Everything else the user does.
LEMMA UserGood == ASSUME Good, User PROVE Good'
<1>1. CASE Browse \/ EndBrowse \/ Quit
  <2>1. Types
    BY DEF Good
  <2>2. UNCHANGED <<proc, runner, waiter, asked, unseen>>
    BY <1>1 DEF Browse, EndBrowse, Quit
  <2>3. OthersTyped'
    BY <1>1, <2>1, UnmountTyped DEF Types, OthersTyped, Browse, EndBrowse, Quit
  <2>4. QED
    BY <2>2, <2>3, Apart
<1>2. QED
  BY <1>1, PrepareGood, StartGood, AbortGood DEF User

-----------------------------------------------------------------------------
(* The invariant.                                                           *)

\* Nothing has been started; a stranger may be running.
LEMMA InitGood == Init => Good
<1> SUFFICES ASSUME Init
             PROVE  Good
  OBVIOUS
<1>1. ASSUME NEW p \in Procs
      PROVE  /\ proc[p] \in Process /\ proc[p].of = Stranger /\ proc[p].parent = NoProc
             /\ proc[p].state = "none" => proc[p] = Unused
  <2> DEFINE game(carries) == [Unused EXCEPT !.state = "running", !.name = "expected",
                                             !.token = carries]
  <2>1. proc[p] = Unused \/ \E carries \in BOOLEAN : proc[p] = game(carries)
    BY DEF Init
  <2>2. Unused \in Process /\ Unused.of = Stranger /\ Unused.parent = NoProc
    BY DEF Unused, Process
  <2>3. ASSUME NEW carries \in BOOLEAN
        PROVE  /\ game(carries) \in Process /\ game(carries).of = Stranger
               /\ game(carries).parent = NoProc /\ game(carries).state = "running"
    BY DEF Unused, Process
  <2> HIDE DEF game
  <2>4. QED
    BY <2>1, <2>2, <2>3
<1>2. proc \in [Procs -> Process]
  <2>1. proc = [p \in Procs |-> proc[p]]
    BY DEF Init
  <2>2. QED
    BY <1>1, <2>1
<1>3. Types
  <2>1. runner \in [Launches -> Runner]
    BY DEF Init, Runner, Modes, Results
  <2>2. waiter \in [Launches -> Waiter]
    <3>1. waiter = [l \in Launches |-> NotWaiting]
      BY DEF Init
    <3>2. NotWaiting \in Waiter
      BY DEF Waiter, NotWaiting, Timers
    <3>3. QED
      BY <3>1, <3>2
  <2>3. faults \in 0..MaxFaults
    <3>1. faults = 0
      BY DEF Init
    <3>2. QED
      BY <3>1, LaunchAssumption
  <2>4. QED
    BY <1>2, <2>1, <2>2, <2>3 DEF Init, Types
<1>4. \A p \in Procs : ProcSound(p)
  BY <1>1, LaunchAssumption, ProcNumbers DEF ProcSound
<1>5. ASSUME NEW l \in Launches
      PROVE  LaunchSound(l)
  <2>1. \A p \in Procs : proc[p].of # l
    BY <1>1, LaunchAssumption
  <2>2. RunnerSound(l)
    BY <2>1 DEF Init, RunnerSound
  <2>3. WaiterSound(l) /\ KillSound(l)
    BY Resting DEF Init
  <2>4. QED
    BY <2>2, <2>3 DEF LaunchSound
<1>6. QED
  BY <1>3, <1>4, <1>5 DEF Good, Sound

\* Every step keeps what is true of the processes and the waiters.
LEMMA NextGood == Good /\ [Next]_vars => Good'
<1> SUFFICES ASSUME Good, [Next]_vars
             PROVE  Good'
  OBVIOUS
<1>1. CASE UNCHANGED vars
  <2>1. UNCHANGED <<proc, runner, waiter, asked, unseen>> /\ OthersTyped'
    BY <1>1 DEF vars, OthersTyped, Good, Types
  <2>2. QED
    BY <2>1, Apart
<1>2. ASSUME NEW l \in Launches, Wait(l)
      PROVE  Good'
  BY <1>2, PollGood, PollFailsGood, ScanTreeGood, ScanPrefixGood, ScanPendingGood, ReportGood,
     SnapshotGood, StrikeGood, UnlockGood DEF Wait
<1>3. QED
  BY <1>1, <1>2, EnvironmentGood, UserGood, ElapseGood, AfterRunGood DEF Next

\* It holds in every state of every behaviour.
LEMMA AlwaysGood == Spec => []Good
<1>1. QED
  BY InitGood, NextGood, PTL DEF Spec

-----------------------------------------------------------------------------
(* What follows.                                                            *)

\* Every variable keeps its type, and a process is not tracked and pending at once.
THEOREM TypeCorrect == Spec => []TypeOK
<1>1. Good => TypeOK
  <2>1. ASSUME Good, NEW l \in Launches, waiter[l].tracked # NoProc
        PROVE  waiter[l].pending # waiter[l].tracked
    BY <2>1 DEF Good, Sound, LaunchSound, WaiterSound
  <2>2. QED
    BY <2>1 DEF Good, Types, TypeOK, Process, Runner, Waiter
<1>2. QED
  BY <1>1, AlwaysGood, PTL

\* When the waiter says that a launch completed, nothing of it runs any more but the
\* wineserver, and no daemon is about to start something of it; unless, since the waiter
\* last saw a process of the launch, one hid from it: a query overlooked it, or a daemon
\* took longer than the grace period.
THEOREM CompletedLaunchIsGone == Spec => []CompletedMeansGone
<1>1. Good => CompletedMeansGone
  BY DEF Good, Sound, LaunchSound, RunnerSound, CompletedMeansGone
<1>2. QED
  BY <1>1, AlwaysGood, PTL

\* Where the result of a launch may change.
LEMMA ResultChanges ==
  ASSUME Good, [Next]_vars, NEW l \in Launches, runner'[l].result # runner[l].result,
         runner'[l].result = "unlocked"
  PROVE  Unlock(l)
<1>1. Types /\ runner \in [Launches -> Runner]
  BY DEF Good, Types
<1>2. CASE UNCHANGED runner
  BY <1>2
<1>3. ASSUME NEW k \in Launches, NEW result, Return(k, result)
      PROVE  k = l /\ result = "unlocked"
  BY <1>1, <1>3 DEF Return, Runner
<1>4. ASSUME NEW k \in Launches, Wait(k)
      PROVE  Unlock(l)
  <2>1. ~PollFails(k)
    BY <1>3 DEF PollFails
  <2>2. ScanPending(k) => UNCHANGED runner
    <3>1. ScanPending(k) => UNCHANGED runner \/ Return(k, "completed")
      BY Zenon DEF ScanPending
    <3>2. ~Return(k, "completed")
      BY <1>3
    <3>3. QED
      BY <3>1, <3>2
  <2>3. Report(k) => UNCHANGED runner
    BY <1>3 DEF Report
  <2>4. Unlock(k) => k = l
    BY <1>3 DEF Unlock
  <2>5. Poll(k) \/ ScanTree(k) \/ ScanPrefix(k) \/ Snapshot(k) \/ Strike(k) => UNCHANGED runner
    BY DEF Poll, ScanTree, ScanPrefix, Snapshot, Strike
  <2>6. QED
    BY <1>2, <1>4, <2>1, <2>2, <2>3, <2>4, <2>5 DEF Wait
<1>5. ASSUME NEW k \in Launches, NEW mode \in Modes
      PROVE  ~Prepare(k, mode)
  <2>1. Prepare(k, mode) =>
           \/ runner' = [runner EXCEPT ![k].phase = "prepared", ![k].mode = mode]
           \/ runner' = [runner EXCEPT ![k].phase = "done", ![k].result = "not started"]
    BY DEF Prepare
  <2>2. runner' = [runner EXCEPT ![k].phase = "prepared", ![k].mode = mode] =>
           runner'[l].result = runner[l].result
    BY <1>1 DEF Runner
  <2>3. runner' = [runner EXCEPT ![k].phase = "done", ![k].result = "not started"] =>
           runner'[l].result \in {runner[l].result, "not started"}
    BY <1>1 DEF Runner
  <2>4. QED
    BY <2>1, <2>2, <2>3
<1>6. ASSUME NEW k \in Launches, NEW p \in Procs
      PROVE  ~Start(k, p)
  BY <1>1 DEF Start, Runner
<1>7. ASSUME NEW k \in Launches
      PROVE  ~Abort(k) /\ ~AfterRun(k)
  <2>1. Abort(k) \/ AfterRun(k) =>
           \/ runner' = [runner EXCEPT ![k].phase = "done"]
           \/ runner' = [runner EXCEPT ![k].phase = "done", ![k].result = "not started"]
    BY DEF Abort, AfterRun
  <2>2. runner' = [runner EXCEPT ![k].phase = "done"] => runner'[l].result = runner[l].result
    BY <1>1 DEF Runner
  <2>3. runner' = [runner EXCEPT ![k].phase = "done", ![k].result = "not started"] =>
           runner'[l].result \in {runner[l].result, "not started"}
    BY <1>1 DEF Runner
  <2>4. QED
    BY <2>1, <2>2, <2>3
<1>8. CASE User
  BY <1>2, <1>5, <1>6, <1>7, <1>8 DEF User, Browse, EndBrowse, Quit
<1>9. CASE Environment
  BY <1>2, <1>9 DEF Environment, Exec, Exit, Ask, Fork, Answer
<1>10. ASSUME NEW k \in Launches, Elapse(k)
       PROVE  UNCHANGED runner
  BY <1>10 DEF Elapse
<1>11. CASE UNCHANGED vars
  BY <1>2, <1>11 DEF vars
<1>12. QED
  BY <1>2, <1>4, <1>7, <1>8, <1>9, <1>10, <1>11 DEF Next

\* After a forced unlock the launched process, the game that was tracked and the process
\* that was to become it have exited, or the result is an error, or the
\* status of the survivor could not be read after the SIGTERM.
THEOREM UnlockedIsKilled == Spec => UnlockedMeansKilled
<1>1. ASSUME Good, [Next]_vars, NEW l \in Launches, runner'[l].result = "unlocked",
             runner[l].result # "unlocked"
      PROVE  Terminated(l, unseen[l])
  <2>1. Unlock(l)
    BY <1>1, ResultChanges
  <2>2. Types /\ KillSound(l) /\ waiter[l] \in Waiter
    BY <1>1 DEF Good, Sound, LaunchSound, Types
  <2>3. waiter[l].at = "kill" /\ waiter[l].target \notin DOMAIN Targets(l)
    BY <2>1 DEF Unlock, At
  <2>4. /\ waiter[l].target = 4
        /\ Targets(l) = <<Root(l), waiter[l].tracked, waiter[l].pending>>
    BY <1>1, <2>2, <2>3, TargetsKnown DEF Waiter
  <2>5. ~waiter[l].survived
    <3>1. Verdict(waiter[l].survived) = "unlocked"
      BY <1>1, <2>1, <2>2 DEF Unlock, Return, Types, Runner
    <3>2. QED
      BY <3>1 DEF Verdict
  <2>6. \A i \in 1..3 : Running(Targets(l)[i]) => Targets(l)[i] \in unseen[l]
    BY <2>2, <2>4, <2>5 DEF KillSound
  <2>7. /\ Targets(l)[1] = Root(l) /\ Targets(l)[2] = waiter[l].tracked
        /\ Targets(l)[3] = waiter[l].pending
    BY <2>4
  <2>8. QED
    BY <2>6, <2>7 DEF Terminated
<1>2. Good /\ [Next]_vars =>
        [\A l \in Launches :
          runner'[l].result = "unlocked" /\ runner[l].result # "unlocked" =>
              Terminated(l, unseen[l])]_vars
  BY <1>1
<1>3. QED
  BY <1>2, AlwaysGood, PTL DEF Spec, UnlockedMeansKilled

\* What a launch decides never takes the mount from its own processes, unless the user has
\* forced the lock open or they have hidden from the waiter.
THEOREM LaunchKeepsItsMount == Spec => OwnGameServed
<1>1. ASSUME Good, [Next]_vars, NEW l \in Launches, UnmountsOwn(l)
      PROVE  runner[l].result = "unlocked" \/ unseen[l] # {}
  <2>u. mounted /\ ~mounted' /\ withdrawn' = l /\ Workload(l) # {}
    BY <1>1 DEF UnmountsOwn
  <2>1. Types /\ RunnerSound(l) /\ l \notin {"browse", "quit"}
    BY <1>1, <2>u, LaunchAssumption DEF Good, Sound, LaunchSound
  <2>2. ASSUME NEW k \in Launches \cup {"browse", "quit"}, Unmount(k)
        PROVE  k = l
    BY <1>1, <2>u, <2>2 DEF Unmount
  <2>3. runner[l].phase \notin {"idle", "prepared"}
    BY <1>1, <2>u, <2>1 DEF RunnerSound, Workload
  <2>4. ASSUME NEW k \in Launches, NEW mode \in Modes
        PROVE  ~Prepare(k, mode)
    <3>1. Prepare(k, mode) => Unmount(k) /\ runner[k].phase = "idle"
      BY <1>1, <2>u DEF Prepare
    <3>2. QED
      BY <2>2, <2>3, <3>1
  <2>5. ASSUME NEW k \in Launches
        PROVE  ~Abort(k)
    BY <2>2, <2>3 DEF Abort
  <2>6. ~EndBrowse /\ ~Quit /\ ~Browse
    BY <1>1, <2>u, <2>1, <2>2 DEF EndBrowse, Quit, Browse
  <2>7. ASSUME NEW k \in Launches, AfterRun(k)
        PROVE  runner[l].result = "unlocked" \/ unseen[l] # {}
    <3>1. k = l /\ runner[l].phase = "queued"
      BY <2>2, <2>7 DEF AfterRun
    <3>2. QED
      BY <1>1, <2>u, <2>1, <3>1 DEF RunnerSound
  <2>8. ASSUME NEW k \in Launches, Wait(k) \/ Elapse(k)
        PROVE  FALSE
    <3>1. UNCHANGED mounted
      BY <2>8 DEF Wait, Poll, PollFails, ScanTree, ScanPrefix, ScanPending, Report, Snapshot,
                  Strike, Unlock, Elapse
    <3>2. QED
      BY <1>1, <2>u, <3>1
  <2>9. ~Environment
    BY <1>1, <2>u DEF Environment, Exec, Exit, Ask, Fork, Answer
  <2>10. ASSUME NEW k \in Launches, NEW p \in Procs
         PROVE  ~Start(k, p)
    BY <1>1, <2>u DEF Start
  <2>11. ~UNCHANGED vars
    BY <1>1, <2>u DEF vars
  <2>12. QED
    BY <1>1, <2>u, <2>4, <2>5, <2>6, <2>7, <2>8, <2>9, <2>10, <2>11 DEF Next, User
<1>2. Good /\ [Next]_vars =>
        [\A l \in Launches :
          UnmountsOwn(l) => runner[l].result = "unlocked" \/ unseen[l] # {}]_vars
  BY <1>1
<1>3. QED
  BY <1>2, AlwaysGood, PTL DEF Spec, OwnGameServed

\* A forced unlock kills nothing that carries the token of another launch, be it the same
\* game from the same prefix.
THEOREM UnlockIsSelective == Spec => UnlockSparesOthers
<1>1. ASSUME Good, [Next]_vars, NEW l \in Launches, waiter[l].at = "strike",
             waiter'[l].at # "strike", NEW p \in Procs, Running(p),
             proc'[p].state = "exited", proc[p].token
      PROVE  proc[p].of = l
  <2>1. Types /\ WaiterSound(l) /\ KillSound(l) /\ waiter[l] \in Waiter
    BY <1>1 DEF Good, Sound, LaunchSound, Types
  <2>2. ~UNCHANGED waiter
    BY <1>1
  <2>3. ASSUME NEW k \in Launches, NEW w, waiter' = [waiter EXCEPT ![k] = w]
        PROVE  k = l
    BY <1>1, <2>1, <2>3 DEF Types
  <2>4. Strike(l)
    <3>1. ~Environment
      BY <2>2 DEF Environment, Exec, Exit, Ask, Fork, Answer
    <3>2. ASSUME NEW k \in Launches, NEW q \in Procs
          PROVE  ~Start(k, q)
      <4>1. runner[l].phase = "waiting"
        BY <1>1, <2>1 DEF WaiterSound
      <4>2. CASE k = l
        BY <4>1, <4>2 DEF Start
      <4>3. CASE k # l
        <5>1. Start(k, q) => waiter'[l] = waiter[l]
          BY <2>1, <4>3 DEF Start, Types
        <5>2. QED
          BY <1>1, <5>1
      <4>4. QED
        BY <4>2, <4>3
    <3>3. ~User
      BY <2>2, <3>2 DEF User, Prepare, Abort, Browse, EndBrowse, Quit
    <3>4. ~UNCHANGED vars
      BY <2>2 DEF vars
    <3>5. ASSUME NEW k \in Launches
          PROVE  ~AfterRun(k)
      BY <2>2 DEF AfterRun
    <3>6. ASSUME NEW k \in Launches
          PROVE  ~Elapse(k)
      <4>1. CASE k = l
        BY <1>1, <4>1 DEF Elapse, At
      <4>2. CASE k # l
        <5>1. Elapse(k) => waiter'[l] = waiter[l]
          BY <2>1, <4>2 DEF Elapse, Types
        <5>2. QED
          BY <1>1, <5>1
      <4>3. QED
        BY <4>1, <4>2
    <3>7. ASSUME NEW k \in Launches, Wait(k)
          PROVE  Strike(l)
      <4>1. k = l
        <5>1. Poll(k) \/ ScanTree(k) \/ ScanPrefix(k) \/ Snapshot(k) \/ Strike(k) => k = l
          BY <2>3 DEF Poll, ScanTree, ScanPrefix, Snapshot, Strike, Set
        <5>2. PollFails(k) \/ ScanPending(k) \/ Report(k) \/ Unlock(k) => k = l
          BY <2>3 DEF PollFails, ScanPending, Report, Unlock, Return, Set
        <5>3. QED
          BY <3>7, <5>1, <5>2 DEF Wait
      <4>2. QED
        BY <1>1, <3>7, <4>1 DEF Wait, Poll, PollFails, ScanTree, ScanPrefix, ScanPending,
                                Report, Snapshot, Unlock, At
    <3>8. QED
      BY <1>1, <3>1, <3>3, <3>4, <3>5, <3>6, <3>7 DEF Next
  <2>5. PICK ps \in SUBSET waiter[l].doomed : proc' = Exited(ps)
    BY <2>4 DEF Strike
  <2>6. p \in ps
    <3>1. proc[p] \in Process /\ proc[p].state = "running"
      BY <1>1, <2>1 DEF Types, Running
    <3>2. proc'[p].state = IF p \in ps THEN "exited" ELSE proc[p].state
      <4>1. proc'[p] = IF p \in ps THEN [proc[p] EXCEPT !.state = "exited", !.parent = NoProc]
                       ELSE IF proc[p].parent \in ps THEN [proc[p] EXCEPT !.parent = NoProc]
                       ELSE proc[p]
        BY <2>5 DEF Exited
      <4>2. QED
        BY <3>1, <4>1 DEF Process
    <3>3. QED
      BY <1>1, <3>1, <3>2
  <2>7. Known(p, l)
    BY <1>1, <2>1, <2>6 DEF KillSound
  <2>8. QED
    BY <1>1, <2>7 DEF Known
<1>2. Good /\ [Next]_vars =>
        [\A l \in Launches : waiter[l].at = "strike" =>
          \A p \in Procs : Running(p) /\ proc'[p].state = "exited" /\ proc[p].token =>
              proc[p].of = l \/ waiter'[l].at = "strike"]_vars
  BY <1>1
<1>3. QED
  BY <1>2, AlwaysGood, PTL DEF Spec, UnlockSparesOthers
=============================================================================
