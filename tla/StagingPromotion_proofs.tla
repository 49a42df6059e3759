----------------------- MODULE StagingPromotion_proofs -----------------------
(***************************************************************************)
(* Proofs about StagingPromotion, for any paths, contents, destinations    *)
(* and bounds.                                                             *)
(***************************************************************************)
EXTENDS StagingPromotion, TLAPS

\* What buildJournal returns is a journal.
LEMMA BuildJournalType ==
  ASSUME TypeOK, NEW t \in Trees, NEW d \in Dests
  PROVE  buildJournal(t, d) \in Journal
  BY DEF TypeOK, Journal, buildJournal, Stored

\* Initial states are well typed and every action of Next keeps the types.
LEMMA TypeInductive == (Init => TypeOK) /\ (TypeOK /\ [Next]_vars => TypeOK')
<1> USE SentinelAssumption, BoundAssumption
        DEF TypeOK, Stored, Trees, Working, Empty, Entries
<1>1. Init => TypeOK
  <2> SUFFICES ASSUME Init PROVE TypeOK
    OBVIOUS
  <2>1. PICK legacy \in [Paths -> Contents \cup {Absent}], t \in Trees :
          /\ file = [u \in Trees |-> IF u = t THEN legacy ELSE Empty]
          /\ marker = IF legacy = Empty THEN "none" ELSE "unjournaled"
          /\ owed = legacy
    BY DEF Init
  <2>2. file \in [Trees -> [Paths -> Stored]] /\ owed \in [Paths -> Stored]
    BY <2>1
  <2>3. dst \in [Dests -> [Paths -> Stored]] /\ base \in [Dests -> [Paths -> Stored]]
    BY DEF Init
  <2>4. journal \in [Trees -> Journal \cup {NoJournal}] /\ jtmp \in [Trees -> BOOLEAN]
    BY DEF Init
  <2>5. QED
    BY <2>1, <2>2, <2>3, <2>4 DEF Init
<1>2. TypeOK /\ [Next]_vars => TypeOK'
  <2> SUFFICES ASSUME TypeOK, [Next]_vars PROVE TypeOK'
    OBVIOUS
  <2> USE DEF Idle, Goto, Throw, Return, StartJournal, StartReplay,
              disk, promo, memory, history
  <2>1. CASE NothingToDo
    BY <2>1 DEF NothingToDo
  <2>2. CASE PromoteJournals
    BY <2>2, BuildJournalType DEF PromoteJournals
  <2>3. CASE BlockedByMarker
    BY <2>3 DEF BlockedByMarker
  <2>4. CASE RecoverJournals
    BY <2>4, BuildJournalType DEF RecoverJournals
  <2>5. CASE RecoverArchives
    BY <2>5 DEF RecoverArchives
  <2>6. CASE RecoverReplays
    BY <2>6 DEF RecoverReplays
  <2>7. CASE ResumeArchive
    <3>1. ArchivedSource \in Trees
      BY DEF ArchivedSource
    <3>2. buildJournal(ArchivedSource, conf) \in Journal
      BY <3>1, BuildJournalType
    <3>3. journal[ArchivedSource] # NoJournal => journal[ArchivedSource] \in Journal
      BY <3>1
    <3>4. QED
      BY <2>7, <3>1, <3>2, <3>3 DEF ResumeArchive
  <2>8. CASE CreateJournalTemp
    BY <2>8 DEF CreateJournalTemp
  <2>9. CASE JournalTempExists
    BY <2>9 DEF JournalTempExists
  <2>10. CASE PublishJournal
    BY <2>10 DEF PublishJournal
  <2>11. CASE CopyVerifiedInstall
    BY <2>11 DEF CopyVerifiedInstall, Journal
  <2>12. CASE ReplayDone
    BY <2>12 DEF ReplayDone
  <2>13. CASE ClearMarker
    BY <2>13 DEF ClearMarker
  <2>14. CASE RemoveEntry
    <3>1. /\ file' \in [Trees -> [Paths -> Stored]]
          /\ journal' \in [Trees -> Journal \cup {NoJournal}]
      <4>1. CASE /\ \E p \in Paths : file' = [file EXCEPT ![src][p] = Absent]
                 /\ UNCHANGED journal
        BY <4>1
      <4>2. CASE journal' = [journal EXCEPT ![src] = NoJournal] /\ UNCHANGED file
        BY <4>2
      <4>3. QED
        BY <2>14, <4>1, <4>2 DEF RemoveEntry
    <3>2. UNCHANGED <<dst, tmp, jtmp, marker, conf, memory, history>>
      BY <2>14 DEF RemoveEntry
    <3>3. QED
      BY <3>1, <3>2
  <2>15. CASE RemoveDone
    BY <2>15 DEF RemoveDone
  <2>16. CASE CreateMarker
    BY <2>16 DEF CreateMarker
  <2>17. CASE WriteMarker
    BY <2>17 DEF WriteMarker
  <2>18. CASE MoveTree
    BY <2>18 DEF MoveTree
  <2>19. CASE Mount
    BY <2>19 DEF Mount
  <2>20. CASE Unmount
    BY <2>20 DEF Unmount, Truncated
  <2>21. CASE UnmountDiscarding
    BY <2>21 DEF UnmountDiscarding
  <2>22. CASE Crash
    <3>1. failures' \in Nat
      BY <2>22 DEF Crash
    <3>2. /\ Throw /\ tmp' \subseteq tmp
          /\ UNCHANGED <<dst, file, journal, jtmp, marker, conf, owed, base, torn, interventions>>
      BY <2>22 DEF Crash
    <3>3. QED
      BY <3>1, <3>2
  <2>23. CASE CopyVerifiedFails
    <3>1. failures' \in Nat
      BY <2>23 DEF CopyVerifiedFails
    <3>2. /\ Throw /\ tmp' \subseteq tmp
          /\ UNCHANGED <<dst, file, journal, jtmp, marker, conf, owed, base, torn, interventions>>
      BY <2>23 DEF CopyVerifiedFails
    <3>3. QED
      BY <3>1, <3>2
  <2>24. ASSUME NEW p \in Paths, ReplaySkip(p)
        PROVE  TypeOK'
    BY <2>24 DEF ReplaySkip
  <2>25. ASSUME NEW p \in Paths, ReplayCopy(p)
        PROVE  TypeOK'
    BY <2>25 DEF ReplayCopy, Journal
  <2>26. ASSUME NEW p \in Paths, ReplayBlock(p)
        PROVE  TypeOK'
    BY <2>26 DEF ReplayBlock
  <2>27. ASSUME NEW p \in Paths, CopyOnWriteBegin(p)
        PROVE  TypeOK'
    BY <2>27 DEF CopyOnWriteBegin
  <2>28. ASSUME NEW p \in Paths, CopyOnWriteFails(p)
        PROVE  TypeOK'
    BY <2>28 DEF CopyOnWriteFails
  <2>29. ASSUME NEW p \in Paths, NEW c \in Contents, StageWrite(p, c)
        PROVE  TypeOK'
    BY <2>29 DEF StageWrite
  <2>30. ASSUME NEW p \in Paths, NEW c \in Contents, CopyOnWriteEnd(p, c)
        PROVE  TypeOK'
    BY <2>30 DEF CopyOnWriteEnd
  <2>31. ASSUME NEW d \in Dests, NEW p \in Paths, NEW c \in Contents \cup {Absent}, Edit(d, p, c)
        PROVE  TypeOK'
    BY <2>31 DEF Edit
  <2>32. ASSUME NEW d \in Dests, Reconfigure(d)
        PROVE  TypeOK'
    BY <2>32 DEF Reconfigure
  <2>33. ASSUME NEW kept \in SUBSET Paths, Reconcile(kept)
        PROVE  TypeOK'
    BY <2>33 DEF Reconcile
  <2>34. CASE UNCHANGED vars
    BY <2>34 DEF vars
  <2>35. QED
    BY <2>1, <2>2, <2>3, <2>4, <2>5, <2>6, <2>7, <2>8, <2>9, <2>10, <2>11, <2>12, <2>13, <2>14, <2>15, <2>16, <2>17, <2>18, <2>19, <2>20, <2>21, <2>22, <2>23, <2>24, <2>25, <2>26, <2>27, <2>28, <2>29, <2>30, <2>31, <2>32, <2>33, <2>34
       DEF Next, Promotion, Session, Environment
<1>3. QED
  BY <1>1, <1>2

\* Every variable keeps its type.
THEOREM TypeCorrect == Spec => []TypeOK
  BY TypeInductive, PTL DEF Spec

-----------------------------------------------------------------------------
(* The inductive invariant: one lemma per conjunct, each of them assuming all. *)

\* A journal goes on describing the files next to it.
LEMMA JournalsDescribeStep ==
  ASSUME IndInv, TypeOK', Next
  PROVE  JournalsDescribe'
<1> USE SentinelAssumption DEF IndInv, TypeOK, Idle, Goto, Throw, Return,
    StartJournal, StartReplay, buildJournal, Empty, disk, promo, memory, history,
    JournalsDescribe, JournalDescribes, Trees, Working
<1>1. CASE
        \/ NothingToDo
        \/ PromoteJournals
        \/ BlockedByMarker
        \/ RecoverJournals
  BY <1>1 DEF NothingToDo, PromoteJournals, BlockedByMarker,
      RecoverJournals
<1>2. CASE
        \/ RecoverArchives
        \/ RecoverReplays
        \/ ResumeArchive
        \/ CreateJournalTemp
        \/ JournalTempExists
  BY <1>2 DEF RecoverArchives, RecoverReplays, ResumeArchive, CreateJournalTemp,
      JournalTempExists
<1>3. CASE
        \/ \E p \in Paths : ReplaySkip(p)
        \/ \E p \in Paths : ReplayCopy(p)
        \/ ReplayDone
        \/ ClearMarker
        \/ RemoveDone
  BY <1>3 DEF ReplaySkip, ReplayCopy, ReplayDone, ClearMarker, RemoveDone
<1>4. CASE
        \/ WriteMarker
        \/ Mount
        \/ Unmount
        \/ UnmountDiscarding
        \/ Crash
  BY <1>4 DEF WriteMarker, Mount, Unmount, UnmountDiscarding, Crash
<1>5. CASE
        \/ CopyVerifiedFails
        \/ \E p \in Paths : CopyOnWriteFails(p)
        \/ \E d \in Dests, p \in Paths, c \in Contents \cup {Absent} : Edit(d, p, c)
        \/ \E d \in Dests : Reconfigure(d)
        \/ \E kept \in SUBSET Paths : Reconcile(kept)
  BY <1>5 DEF CopyVerifiedFails, CopyOnWriteFails, Edit, Reconfigure, Reconcile
<1>6. CASE PublishJournal
  BY <1>6 DEF PublishJournal
<1>7. CASE CopyVerifiedInstall
  BY <1>7 DEF CopyVerifiedInstall
<1>8. CASE RemoveEntry
  BY <1>8 DEF RemoveEntry
<1>9. CASE MoveTree
  BY <1>9 DEF MoveTree
<1>10. CASE CreateMarker
  BY <1>10 DEF CreateMarker
<1>11. ASSUME NEW p \in Paths, ReplayBlock(p)
     PROVE  JournalsDescribe'
  BY <1>11 DEF ReplayBlock
<1>12. ASSUME NEW p \in Paths, CopyOnWriteBegin(p)
     PROVE  JournalsDescribe'
  <2>1. journal["staging"] = NoJournal /\ pc = "idle"
    BY <1>12 DEF CopyOnWriteBegin, TreesApart
  <2>2. /\ UNCHANGED <<journal, pc>>
        /\ file'["archive"] = file["archive"]
    BY <1>12 DEF CopyOnWriteBegin
  <2>3. QED
    BY <2>1, <2>2
<1>13. ASSUME NEW p \in Paths, NEW c \in Contents, StageWrite(p, c)
     PROVE  JournalsDescribe'
  <2>1. journal["staging"] = NoJournal /\ pc = "idle"
    BY <1>13 DEF StageWrite, TreesApart
  <2>2. /\ UNCHANGED <<journal, pc>>
        /\ file'["archive"] = file["archive"]
    BY <1>13 DEF StageWrite
  <2>3. QED
    BY <2>1, <2>2
<1>14. ASSUME NEW p \in Paths, NEW c \in Contents, CopyOnWriteEnd(p, c)
     PROVE  JournalsDescribe'
  <2>1. journal["staging"] = NoJournal /\ pc = "idle"
    BY <1>14 DEF CopyOnWriteEnd, TreesApart
  <2>2. /\ UNCHANGED <<journal, pc>>
        /\ file'["archive"] = file["archive"]
    BY <1>14 DEF CopyOnWriteEnd
  <2>3. QED
    BY <2>1, <2>2
<1>15. QED BY <1>1, <1>2, <1>3, <1>4, <1>5, <1>6, <1>7, <1>8, <1>9, <1>10, <1>11,
    <1>12, <1>13, <1>14 DEF Next, Promotion, Session, Environment

\* Entries replay is done with stay installed, the current one replaceable.
LEMMA InstalledSoFarStep ==
  ASSUME IndInv, TypeOK', Next
  PROVE  InstalledSoFar'
<1> USE SentinelAssumption DEF IndInv, TypeOK, Idle, Goto, Throw, Return,
    StartJournal, StartReplay, buildJournal, Empty, disk, promo, memory, history,
    InstalledSoFar, Installed, Replaceable, Entries, Working
<1>1. CASE
        \/ NothingToDo
        \/ PromoteJournals
        \/ BlockedByMarker
        \/ RecoverJournals
  BY <1>1 DEF NothingToDo, PromoteJournals, BlockedByMarker,
      RecoverJournals
<1>2. CASE
        \/ RecoverArchives
        \/ RecoverReplays
        \/ ResumeArchive
        \/ CreateJournalTemp
        \/ JournalTempExists
  BY <1>2 DEF RecoverArchives, RecoverReplays, ResumeArchive, CreateJournalTemp,
      JournalTempExists
<1>3. CASE
        \/ CreateMarker
        \/ WriteMarker
        \/ MoveTree
        \/ Mount
        \/ Unmount
  BY <1>3 DEF CreateMarker, WriteMarker, MoveTree, Mount, Unmount
<1>4. CASE
        \/ UnmountDiscarding
        \/ \E p \in Paths : CopyOnWriteBegin(p)
        \/ \E p \in Paths, c \in Contents : StageWrite(p, c)
        \/ \E p \in Paths, c \in Contents : CopyOnWriteEnd(p, c)
        \/ Crash
  BY <1>4 DEF UnmountDiscarding, CopyOnWriteBegin, StageWrite, CopyOnWriteEnd, Crash
<1>5. CASE
        \/ CopyVerifiedFails
        \/ \E p \in Paths : CopyOnWriteFails(p)
        \/ \E d \in Dests, p \in Paths, c \in Contents \cup {Absent} : Edit(d, p, c)
        \/ \E d \in Dests : Reconfigure(d)
        \/ \E kept \in SUBSET Paths : Reconcile(kept)
  BY <1>5 DEF CopyVerifiedFails, CopyOnWriteFails, Edit, Reconfigure, Reconcile
<1>6. CASE PublishJournal
  BY <1>6 DEF PublishJournal
<1>7. CASE CopyVerifiedInstall
  BY <1>7 DEF CopyVerifiedInstall
<1>8. ASSUME NEW p \in Paths, ReplayBlock(p)
     PROVE  InstalledSoFar'
  BY <1>8 DEF ReplayBlock
<1>9. ASSUME NEW p \in Paths, ReplaySkip(p)
     PROVE  InstalledSoFar'
  BY <1>9 DEF ReplaySkip
<1>10. ASSUME NEW p \in Paths, ReplayCopy(p)
     PROVE  InstalledSoFar'
  BY <1>10 DEF ReplayCopy
<1>11. CASE ReplayDone
  BY <1>11 DEF ReplayDone
<1>12. CASE ClearMarker
  BY <1>12 DEF ClearMarker
<1>13. CASE RemoveEntry
  <2>1. UNCHANGED <<dst, pc, jrn, todo>> /\ pc = "removeTree"
    BY <1>13 DEF RemoveEntry
  <2>2. QED
    BY <2>1
<1>14. CASE RemoveDone
  BY <1>14 DEF RemoveDone
<1>15. QED BY <1>1, <1>2, <1>3, <1>4, <1>5, <1>6, <1>7, <1>8, <1>9, <1>10, <1>11,
    <1>12, <1>13, <1>14 DEF Next, Promotion, Session, Environment

\* The journal stays on disk until replay has removed the tree.
LEMMA JournalOnDiskStep ==
  ASSUME IndInv, TypeOK', Next
  PROVE  JournalOnDisk'
<1> USE SentinelAssumption DEF IndInv, TypeOK, Idle, Goto, Throw, Return,
    StartJournal, StartReplay, buildJournal, Empty, disk, promo, memory, history,
    JournalOnDisk, Trees, Working
<1>1. CASE
        \/ NothingToDo
        \/ PromoteJournals
        \/ BlockedByMarker
        \/ RecoverJournals
        \/ RecoverArchives
  BY <1>1 DEF NothingToDo, PromoteJournals, BlockedByMarker,
      RecoverJournals, RecoverArchives
<1>2. CASE
        \/ RecoverReplays
        \/ ResumeArchive
        \/ CreateJournalTemp
        \/ JournalTempExists
        \/ PublishJournal
        \/ \E p \in Paths : ReplaySkip(p)
  BY <1>2 DEF RecoverReplays, ResumeArchive, CreateJournalTemp, JournalTempExists,
      PublishJournal, ReplaySkip
<1>3. CASE
        \/ \E p \in Paths : ReplayCopy(p)
        \/ \E p \in Paths : ReplayBlock(p)
        \/ CopyVerifiedInstall
        \/ ReplayDone
        \/ ClearMarker
        \/ RemoveEntry
  BY <1>3 DEF ReplayCopy, ReplayBlock, CopyVerifiedInstall, ReplayDone, ClearMarker,
      RemoveEntry
<1>4. CASE
        \/ RemoveDone
        \/ CreateMarker
        \/ WriteMarker
        \/ MoveTree
        \/ Mount
        \/ Unmount
  BY <1>4 DEF RemoveDone, CreateMarker, WriteMarker, MoveTree, Mount, Unmount
<1>5. CASE
        \/ UnmountDiscarding
        \/ \E p \in Paths : CopyOnWriteBegin(p)
        \/ \E p \in Paths, c \in Contents : StageWrite(p, c)
        \/ \E p \in Paths, c \in Contents : CopyOnWriteEnd(p, c)
        \/ Crash
        \/ CopyVerifiedFails
  BY <1>5 DEF UnmountDiscarding, CopyOnWriteBegin, StageWrite, CopyOnWriteEnd,
      Crash, CopyVerifiedFails
<1>6. CASE
        \/ \E p \in Paths : CopyOnWriteFails(p)
        \/ \E d \in Dests, p \in Paths, c \in Contents \cup {Absent} : Edit(d, p, c)
        \/ \E d \in Dests : Reconfigure(d)
        \/ \E kept \in SUBSET Paths : Reconcile(kept)
  BY <1>6 DEF CopyOnWriteFails, Edit, Reconfigure, Reconcile
<1>7. QED BY <1>1, <1>2, <1>3, <1>4, <1>5, <1>6 DEF Next, Promotion, Session,
    Environment

\* Each step sees the marker it expects.
LEMMA MarkerPhasesStep ==
  ASSUME IndInv, TypeOK', Next
  PROVE  MarkerPhases'
<1> USE SentinelAssumption DEF IndInv, TypeOK, Idle, Goto, Throw, Return,
    StartJournal, StartReplay, buildJournal, Empty, disk, promo, memory, history,
    MarkerPhases, Working, Trees
<1>1. CASE
        \/ NothingToDo
        \/ PromoteJournals
        \/ BlockedByMarker
        \/ RecoverJournals
        \/ RecoverArchives
  BY <1>1 DEF NothingToDo, PromoteJournals, BlockedByMarker,
      RecoverJournals, RecoverArchives
<1>2. CASE
        \/ RecoverReplays
        \/ ResumeArchive
        \/ CreateJournalTemp
        \/ JournalTempExists
        \/ PublishJournal
        \/ \E p \in Paths : ReplaySkip(p)
  BY <1>2 DEF RecoverReplays, ResumeArchive, CreateJournalTemp, JournalTempExists,
      PublishJournal, ReplaySkip
<1>3. CASE
        \/ \E p \in Paths : ReplayCopy(p)
        \/ \E p \in Paths : ReplayBlock(p)
        \/ CopyVerifiedInstall
        \/ ReplayDone
        \/ ClearMarker
        \/ RemoveEntry
  BY <1>3 DEF ReplayCopy, ReplayBlock, CopyVerifiedInstall, ReplayDone, ClearMarker,
      RemoveEntry
<1>4. CASE
        \/ RemoveDone
        \/ CreateMarker
        \/ WriteMarker
        \/ MoveTree
        \/ Mount
        \/ Unmount
  BY ZenonT(60), <1>4 DEF RemoveDone, CreateMarker, WriteMarker, MoveTree, Mount, Unmount
<1>5. CASE
        \/ UnmountDiscarding
        \/ \E p \in Paths : CopyOnWriteBegin(p)
        \/ \E p \in Paths, c \in Contents : StageWrite(p, c)
        \/ \E p \in Paths, c \in Contents : CopyOnWriteEnd(p, c)
        \/ Crash
        \/ CopyVerifiedFails
  BY <1>5 DEF UnmountDiscarding, CopyOnWriteBegin, StageWrite, CopyOnWriteEnd,
      Crash, CopyVerifiedFails
<1>6. CASE
        \/ \E p \in Paths : CopyOnWriteFails(p)
        \/ \E d \in Dests, p \in Paths, c \in Contents \cup {Absent} : Edit(d, p, c)
        \/ \E d \in Dests : Reconfigure(d)
        \/ \E kept \in SUBSET Paths : Reconcile(kept)
  BY <1>6 DEF CopyOnWriteFails, Edit, Reconfigure, Reconcile
<1>7. QED BY <1>1, <1>2, <1>3, <1>4, <1>5, <1>6 DEF Next, Promotion, Session,
    Environment

\* ClearMarker keeps the trees apart.
LEMMA ClearMarkerApart ==
  ASSUME TypeOK, TypeOK', MarkerPhases, TreesApart, ClearMarker
  PROVE  TreesApart'
<1>1. /\ hasPayload("staging")' = hasPayload("staging")
      /\ hasPayload("archive")' = hasPayload("archive")
  BY DEF ClearMarker, hasPayload, HasFiles, TypeOK, Trees
<1>2. UNCHANGED <<session, src, resume>> /\ marker' = "none" /\ pc' = "removeTree"
      /\ pc = "clearMarker"
  BY DEF ClearMarker, Goto

<1>3. (~resume => src = "staging")'
  BY <1>1, <1>2 DEF TreesApart
<1>4. (resume => /\ pc \in Working /\ session = "launching"
                 /\ src = "staging" => ~hasPayload("archive"))'
  BY <1>1, <1>2 DEF TreesApart, Working
<1>5. ((marker = "unjournaled" /\ hasPayload("archive")) \/ src = "archive"
         => ~hasPayload("staging"))'
  BY <1>1, <1>2 DEF TreesApart
<1>6. (session = "mounted" \/ pc = "promote" => journal["staging"] = NoJournal)'
  BY <1>1, <1>2 DEF TreesApart, TypeOK
<1>7. QED
  BY <1>3, <1>4, <1>5, <1>6 DEF TreesApart

\* RemoveEntry keeps the trees apart.
LEMMA RemoveEntryApart ==
  ASSUME TypeOK, TypeOK', MarkerPhases, TreesApart, RemoveEntry
  PROVE  TreesApart'
<1>1. /\ hasPayload("staging")' => hasPayload("staging")
      /\ hasPayload("archive")' => hasPayload("archive")
  BY DEF RemoveEntry, hasPayload, HasFiles, TypeOK, Trees
<1>2. UNCHANGED <<session, src, resume, marker, pc>> /\ pc = "removeTree"
  BY DEF RemoveEntry, memory, promo

<1>3. (~resume => src = "staging")'
  BY <1>1, <1>2 DEF TreesApart
<1>4. (resume => /\ pc \in Working /\ session = "launching"
                 /\ src = "staging" => ~hasPayload("archive"))'
  BY <1>1, <1>2 DEF TreesApart, Working
<1>5. ((marker = "unjournaled" /\ hasPayload("archive")) \/ src = "archive"
         => ~hasPayload("staging"))'
  BY <1>1, <1>2 DEF TreesApart
<1>6. (session = "mounted" \/ pc = "promote" => journal["staging"] = NoJournal)'
  BY <1>1, <1>2 DEF TreesApart, TypeOK
<1>7. QED
  BY <1>3, <1>4, <1>5, <1>6 DEF TreesApart

\* PublishJournal keeps the trees apart.
LEMMA PublishJournalApart ==
  ASSUME TypeOK, TypeOK', MarkerPhases, TreesApart, PublishJournal
  PROVE  TreesApart'
<1>1. /\ src = "archive" => hasPayload("staging")' = hasPayload("staging")
      /\ src = "staging" => hasPayload("archive")' = hasPayload("archive")
  BY DEF PublishJournal, hasPayload, HasFiles, TypeOK, Trees
<1>2. /\ UNCHANGED <<session, src, resume, marker>>
      /\ pc' = "replay" /\ pc = "publishJournal"
      /\ marker = "unjournaled" => resume
      /\ src \in {"staging", "archive"}
  BY DEF PublishJournal, Goto, MarkerPhases, Working, TypeOK, Trees

<1>3. (~resume => src = "staging")'
  BY <1>1, <1>2 DEF TreesApart
<1>4. (resume => /\ pc \in Working /\ session = "launching"
                 /\ src = "staging" => ~hasPayload("archive"))'
  BY <1>1, <1>2 DEF TreesApart, Working
<1>5. ((marker = "unjournaled" /\ hasPayload("archive")) \/ src = "archive"
         => ~hasPayload("staging"))'
  BY <1>1, <1>2 DEF TreesApart
<1>6. (session = "mounted" \/ pc = "promote" => journal["staging"] = NoJournal)'
  BY <1>1, <1>2 DEF TreesApart, TypeOK
<1>7. QED
  BY <1>3, <1>4, <1>5, <1>6 DEF TreesApart

\* ResumeArchive keeps the trees apart.
LEMMA ResumeArchiveApart ==
  ASSUME TypeOK, TypeOK', MarkerPhases, TreesApart, ResumeArchive
  PROVE  TreesApart'
<1>1. /\ hasPayload("staging")' = hasPayload("staging")
      /\ hasPayload("archive")' = hasPayload("archive")
  BY DEF ResumeArchive, hasPayload, HasFiles, TypeOK, Trees, disk
<1>2. /\ marker = "unjournaled" /\ UNCHANGED marker /\ session' # "mounted" /\ pc' # "promote"
      /\ \/ resume' = FALSE /\ src' = "staging"
         \/ /\ resume' = TRUE /\ src' = ArchivedSource /\ session = "launching"
            /\ session' = session /\ pc' \in Working
  <2>1. src' = ArchivedSource \/ src' = "staging"
    BY DEF ResumeArchive, StartJournal, StartReplay, Throw, Idle, Return
  <2>2. marker = "unjournaled" /\ UNCHANGED marker
    BY DEF ResumeArchive, disk
  <2>3. \/ resume' = FALSE /\ src' = "staging"
        \/ /\ resume' = TRUE /\ src' = ArchivedSource
           /\ session' = session /\ pc' \in Working
    BY DEF ResumeArchive, StartJournal, StartReplay, Throw, Idle, Return, Working
  <2>4. session = "launching"
    BY DEF ResumeArchive, MarkerPhases, TypeOK
  <2>5. session' # "mounted" /\ pc' # "promote"
    BY <2>3, <2>4 DEF ResumeArchive, StartJournal, StartReplay, Throw, Idle, Return
  <2>6. QED
    BY <2>2, <2>3, <2>4, <2>5

<1>3. (~resume => src = "staging")'
  BY <1>1, <1>2 DEF TreesApart
<1>4. (resume => /\ pc \in Working /\ session = "launching"
                 /\ src = "staging" => ~hasPayload("archive"))'
  BY <1>1, <1>2 DEF TreesApart, Working, ArchivedSource
<1>5. ((marker = "unjournaled" /\ hasPayload("archive")) \/ src = "archive"
         => ~hasPayload("staging"))'
  BY <1>1, <1>2 DEF TreesApart, ArchivedSource
<1>6. (session = "mounted" \/ pc = "promote" => journal["staging"] = NoJournal)'
  BY <1>1, <1>2 DEF TreesApart, TypeOK
<1>7. QED
  BY <1>3, <1>4, <1>5, <1>6 DEF TreesApart

\* CreateJournalTemp keeps the trees apart.
LEMMA CreateJournalTempApart ==
  ASSUME TypeOK, TypeOK', MarkerPhases, TreesApart, CreateJournalTemp
  PROVE  TreesApart'
<1>1. /\ src = "archive" => hasPayload("staging")' = hasPayload("staging")
      /\ src = "staging" => hasPayload("archive")' = hasPayload("archive")
  BY DEF CreateJournalTemp, hasPayload, HasFiles, TypeOK, Trees
<1>2. /\ UNCHANGED <<session, src, resume, marker>>
      /\ pc' = "publishJournal" /\ pc = "createJournal"
      /\ marker = "unjournaled" => resume
      /\ src \in {"staging", "archive"}
  BY DEF CreateJournalTemp, Goto, MarkerPhases, Working, TypeOK, Trees

<1>3. (~resume => src = "staging")'
  BY <1>1, <1>2 DEF TreesApart
<1>4. (resume => /\ pc \in Working /\ session = "launching"
                 /\ src = "staging" => ~hasPayload("archive"))'
  BY <1>1, <1>2 DEF TreesApart, Working
<1>5. ((marker = "unjournaled" /\ hasPayload("archive")) \/ src = "archive"
         => ~hasPayload("staging"))'
  BY <1>1, <1>2 DEF TreesApart
<1>6. (session = "mounted" \/ pc = "promote" => journal["staging"] = NoJournal)'
  BY <1>1, <1>2 DEF TreesApart, TypeOK
<1>7. QED
  BY <1>3, <1>4, <1>5, <1>6 DEF TreesApart

\* At most one tree is promoted, and an archive only by recoverUnjournaledArchive.
LEMMA TreesApartStep ==
  ASSUME IndInv, TypeOK', Next
  PROVE  TreesApart'
<1> USE SentinelAssumption DEF IndInv, TypeOK, Idle, Goto, Throw, Return,
    StartJournal, StartReplay, buildJournal, Empty, disk, promo, memory, history,
    TreesApart, Working, Trees
<1>1. CASE
        \/ NothingToDo
        \/ PromoteJournals
  BY <1>1 DEF hasPayload, HasFiles, NothingToDo, PromoteJournals
<1>2. CASE
        \/ BlockedByMarker
        \/ RecoverJournals
        \/ RecoverArchives
  BY <1>2 DEF hasPayload, HasFiles, BlockedByMarker, RecoverJournals,
      RecoverArchives
<1>3. CASE
        \/ RecoverReplays
        \/ JournalTempExists
        \/ \E p \in Paths : ReplaySkip(p)
  BY <1>3 DEF hasPayload, HasFiles, RecoverReplays, JournalTempExists, ReplaySkip
<1>4. CASE
        \/ \E p \in Paths : ReplayCopy(p)
        \/ \E p \in Paths : ReplayBlock(p)
        \/ CopyVerifiedInstall
  BY <1>4 DEF hasPayload, HasFiles, ReplayCopy, ReplayBlock, CopyVerifiedInstall
<1>5. CASE
        \/ ReplayDone
        \/ RemoveDone
        \/ Mount
  BY <1>5 DEF hasPayload, HasFiles, ReplayDone, RemoveDone, Mount
<1>6. CASE
        \/ Unmount
        \/ UnmountDiscarding
        \/ Crash
  BY <1>6 DEF hasPayload, HasFiles, Unmount, UnmountDiscarding, Crash
<1>7. CASE
        \/ CopyVerifiedFails
        \/ \E p \in Paths : CopyOnWriteFails(p)
        \/ \E d \in Dests, p \in Paths, c \in Contents \cup {Absent} : Edit(d, p, c)
  BY <1>7 DEF hasPayload, HasFiles, CopyVerifiedFails, CopyOnWriteFails, Edit
<1>8. CASE
        \/ \E d \in Dests : Reconfigure(d)
        \/ \E kept \in SUBSET Paths : Reconcile(kept)
  BY <1>8 DEF hasPayload, HasFiles, Reconfigure, Reconcile
<1>9. CASE CreateJournalTemp
  BY <1>9, CreateJournalTempApart
<1>10. CASE ResumeArchive
  BY <1>10, ResumeArchiveApart
<1>11. CASE PublishJournal
  BY <1>11, PublishJournalApart
<1>12. CASE ClearMarker
  BY <1>12, ClearMarkerApart
<1>13. CASE RemoveEntry
  BY <1>13, RemoveEntryApart
<1>14. CASE MoveTree
  BY <1>14 DEF MoveTree, hasPayload, HasFiles
<1>15. CASE CreateMarker
  BY <1>15 DEF CreateMarker, hasPayload, HasFiles
<1>16. CASE WriteMarker
  BY <1>16 DEF WriteMarker, hasPayload, HasFiles
<1>17. ASSUME NEW p \in Paths, CopyOnWriteBegin(p)
     PROVE  TreesApart'
  <2>1. /\ session = "mounted" /\ marker = "none" /\ src = "staging" /\ resume = FALSE
        /\ UNCHANGED <<session, marker, src, resume, journal, pc>>
    BY <1>17 DEF CopyOnWriteBegin, MarkerPhases
  <2>2. QED
    BY <2>1
<1>18. ASSUME NEW p \in Paths, NEW c \in Contents, StageWrite(p, c)
     PROVE  TreesApart'
  <2>1. /\ session = "mounted" /\ marker = "none" /\ src = "staging" /\ resume = FALSE
        /\ UNCHANGED <<session, marker, src, resume, journal, pc>>
    BY <1>18 DEF StageWrite, MarkerPhases
  <2>2. QED
    BY <2>1
<1>19. ASSUME NEW p \in Paths, NEW c \in Contents, CopyOnWriteEnd(p, c)
     PROVE  TreesApart'
  <2>1. /\ session = "mounted" /\ marker = "none" /\ src = "staging" /\ resume = FALSE
        /\ UNCHANGED <<session, marker, src, resume, journal, pc>>
    BY <1>19 DEF CopyOnWriteEnd, MarkerPhases
  <2>2. QED
    BY <2>1
<1>20. QED BY <1>1, <1>2, <1>3, <1>4, <1>5, <1>6, <1>7, <1>8, <1>9, <1>10, <1>11,
    <1>12, <1>13, <1>14, <1>15, <1>16, <1>17, <1>18, <1>19 DEF Next, Promotion,
    Session, Environment

\* Complete staged files stay the content owed for their paths.
LEMMA StagedIsOwedStep ==
  ASSUME IndInv, TypeOK', Next
  PROVE  StagedIsOwed'
<1> USE SentinelAssumption DEF IndInv, TypeOK, Idle, Goto, Throw, Return,
    StartJournal, StartReplay, buildJournal, Empty, disk, promo, memory, history,
    StagedIsOwed, Truncated, Trees, Working
<1>1. CASE
        \/ PromoteJournals
        \/ BlockedByMarker
  BY <1>1 DEF PromoteJournals, BlockedByMarker
<1>2. CASE
        \/ RecoverJournals
        \/ RecoverArchives
        \/ RecoverReplays
  BY <1>2 DEF RecoverJournals, RecoverArchives, RecoverReplays
<1>3. CASE
        \/ ResumeArchive
        \/ CreateJournalTemp
        \/ JournalTempExists
  BY <1>3 DEF ResumeArchive, CreateJournalTemp, JournalTempExists
<1>4. CASE
        \/ PublishJournal
        \/ \E p \in Paths : ReplaySkip(p)
        \/ \E p \in Paths : ReplayCopy(p)
  BY <1>4 DEF PublishJournal, ReplaySkip, ReplayCopy
<1>5. CASE
        \/ Mount
        \/ Unmount
        \/ Crash
  BY <1>5 DEF Mount, Unmount, Crash
<1>6. CASE
        \/ CopyVerifiedFails
        \/ \E p \in Paths : CopyOnWriteFails(p)
        \/ \E d \in Dests : Reconfigure(d)
  BY <1>6 DEF CopyVerifiedFails, CopyOnWriteFails, Reconfigure
<1>7. CASE NothingToDo
  <2>1. \A p \in Paths : file["staging"][p] = Absent
    BY <1>7 DEF NothingToDo, hasPayload, HasFiles
  <2>2. UNCHANGED <<file, owed, marker>> /\ pc' = "idle"
    BY <1>7 DEF NothingToDo
  <2>3. QED
    BY <2>1, <2>2
<1>8. CASE RemoveDone
  <2>1. \A p \in Paths : file["staging"][p] = Absent
    BY <1>8 DEF RemoveDone, TreesApart, MarkerPhases, hasPayload, HasFiles
  <2>2. UNCHANGED <<file, owed, marker>> /\ pc' = "idle"
    BY <1>8 DEF RemoveDone
  <2>3. QED
    BY <2>1, <2>2
<1>9. CASE RemoveEntry
  <2>1. /\ UNCHANGED <<owed, marker, session, pc>> /\ pc = "removeTree"
        /\ session # "mounted"
    BY <1>9 DEF RemoveEntry
  <2>2. \A p \in Paths, t \in Trees :
          file'[t][p] \in Contents => file'[t][p] = file[t][p]
    BY <1>9 DEF RemoveEntry
  <2>3. (\A p \in Paths, t \in Trees :
          file[t][p] \in Contents /\ (t = "archive" => marker # "none")
            => owed[p] = file[t][p])'
    BY <2>1, <2>2
  <2>4. QED
    BY <2>1, <2>3
<1>10. ASSUME NEW p \in Paths, NEW c \in Contents, StageWrite(p, c)
     PROVE  StagedIsOwed'
  <2>1. session = "mounted" /\ marker = "none" /\ UNCHANGED <<session, marker, dst, conf>>
    BY <1>10 DEF StageWrite, MarkerPhases
  <2>2. \A q \in Paths : file'["staging"][q] = IF q = p THEN c ELSE file["staging"][q]
    BY <1>10 DEF StageWrite
  <2>3. QED
    BY <1>10, <2>1, <2>2 DEF StageWrite
<1>11. ASSUME NEW p \in Paths, NEW c \in Contents, CopyOnWriteEnd(p, c)
     PROVE  StagedIsOwed'
  <2>1. session = "mounted" /\ marker = "none" /\ UNCHANGED <<session, marker, dst, conf>>
    BY <1>11 DEF CopyOnWriteEnd, MarkerPhases
  <2>2. \A q \in Paths : file'["staging"][q] = IF q = p THEN c ELSE file["staging"][q]
    BY <1>11 DEF CopyOnWriteEnd
  <2>3. QED
    BY <1>11, <2>1, <2>2 DEF CopyOnWriteEnd
<1>12. ASSUME NEW p \in Paths, CopyOnWriteBegin(p)
     PROVE  StagedIsOwed'
  <2>1. session = "mounted" /\ marker = "none" /\ UNCHANGED <<session, marker, dst, conf>>
    BY <1>12 DEF CopyOnWriteBegin, MarkerPhases
  <2>2. \A q \in Paths : file'["staging"][q] = IF q = p THEN Partial ELSE file["staging"][q]
    BY <1>12 DEF CopyOnWriteBegin
  <2>3. QED
    BY <1>12, <2>1, <2>2 DEF CopyOnWriteBegin
<1>13. ASSUME NEW d \in Dests, NEW p \in Paths, NEW c \in Contents \cup {Absent}, Edit(d, p, c)
     PROVE  StagedIsOwed'
  <2>1. /\ UNCHANGED <<file, marker, session, pc>>
        /\ session = "down" /\ pc = "idle"
        /\ owed' = [owed EXCEPT ![p] = IF Parked(p) THEN @ ELSE Absent]
    BY <1>13 DEF Edit
  <2>2. \A t \in Trees :
          file[t][p] \in Contents /\ (t = "archive" => marker # "none") => Parked(p)
    BY DEF Parked
  <2>3. QED
    BY <2>1, <2>2
<1>14. CASE UnmountDiscarding
  <2>1. marker = "none" /\ marker' = "none" /\ session' = "down" /\ pc' = "idle"
    BY <1>14 DEF UnmountDiscarding, MarkerPhases
  <2>2. \A p \in Paths : file'["staging"][p] = Absent
    BY <1>14 DEF UnmountDiscarding
  <2>3. owed' \in [Paths -> Contents \cup {Absent}]
    BY <1>14 DEF UnmountDiscarding
  <2>4. QED
    BY <2>1, <2>2, <2>3
<1>15. CASE CopyVerifiedInstall
  BY <1>15 DEF CopyVerifiedInstall
<1>16. ASSUME NEW p \in Paths, ReplayBlock(p)
     PROVE  StagedIsOwed'
  BY <1>16 DEF ReplayBlock
<1>17. CASE ReplayDone
  BY <1>17 DEF ReplayDone
<1>18. CASE WriteMarker
  <2>1. UNCHANGED <<file, owed>> /\ pc' = "moveTree"
    BY <1>18 DEF WriteMarker
  <2>2. \A p \in Paths : file["archive"][p] = Absent
    BY <1>18 DEF WriteMarker, MarkerPhases
  <2>3. QED
    BY <2>1, <2>2
<1>19. CASE CreateMarker
  BY <1>19 DEF CreateMarker
<1>20. CASE MoveTree
  BY <1>20 DEF MoveTree
<1>21. ASSUME NEW kept \in SUBSET Paths, Reconcile(kept)
     PROVE  StagedIsOwed'
  BY <1>21 DEF Reconcile
<1>22. CASE ClearMarker
  BY <1>22 DEF ClearMarker
<1>23. QED BY <1>1, <1>2, <1>3, <1>4, <1>5, <1>6, <1>7, <1>8, <1>9, <1>10, <1>11,
    <1>12, <1>13, <1>14, <1>15, <1>16, <1>17, <1>18, <1>19, <1>20, <1>21, <1>22 DEF
    Next, Promotion, Session, Environment

\* Journals name as previous only what was there at the last mount.
LEMMA PreviousSeenStep ==
  ASSUME IndInv, TypeOK', Next
  PROVE  PreviousSeen'
<1> USE SentinelAssumption DEF IndInv, TypeOK, Idle, Goto, Throw, Return,
    StartJournal, StartReplay, buildJournal, Empty, disk, promo, memory, history,
    PreviousSeen, PreviousOf, Entries, Working, Trees
<1>1. CASE
        \/ BlockedByMarker
        \/ RecoverArchives
  BY <1>1 DEF BlockedByMarker, RecoverArchives
<1>2. CASE
        \/ RecoverReplays
        \/ CreateJournalTemp
        \/ JournalTempExists
  BY ZenonT(60), <1>2 DEF RecoverReplays, CreateJournalTemp, JournalTempExists
<1>3. CASE
        \/ \E p \in Paths : ReplaySkip(p)
        \/ \E p \in Paths : ReplayCopy(p)
        \/ CopyVerifiedInstall
  BY ZenonT(60), <1>3 DEF ReplaySkip, ReplayCopy, CopyVerifiedInstall
<1>4. CASE
        \/ ReplayDone
        \/ ClearMarker
        \/ RemoveEntry
  <2>1. CASE ReplayDone
    BY <2>1 DEF ReplayDone
  <2>2. CASE ClearMarker
    BY <2>2 DEF ClearMarker
  <2>3. CASE RemoveEntry
    BY SMTT(60), <2>3 DEF RemoveEntry
  <2>4. QED
    BY <1>4, <2>1, <2>2, <2>3
<1>5. CASE
        \/ CopyVerifiedFails
        \/ \E p \in Paths : CopyOnWriteFails(p)
        \/ \E d \in Dests : Reconfigure(d)
  BY ZenonT(60), <1>5 DEF CopyVerifiedFails, CopyOnWriteFails, Reconfigure
<1>6. CASE NothingToDo
  <2>1. /\ journal["staging"] = NoJournal /\ UNCHANGED <<journal, marker, dst, torn>>
        /\ pc' = "idle"
    BY <1>6 DEF NothingToDo, hasPayload
  <2>2. CASE session' = "mounted"
    <3>1. marker = "none" /\ base' = dst
      BY <1>6, <2>2 DEF NothingToDo
    <3>2. QED
      BY <2>1, <3>1
  <2>3. CASE session' # "mounted"
    <3>1. base' = base
      BY <1>6, <2>3 DEF NothingToDo
    <3>2. QED
      BY <2>1, <2>3, <3>1
  <2>4. QED
    BY <2>2, <2>3
<1>7. CASE RemoveDone
  <2>1. /\ journal["staging"] = NoJournal /\ UNCHANGED <<journal, marker, dst, torn>>
        /\ pc' = "idle"
    BY <1>7 DEF RemoveDone, hasPayload, TreesApart
  <2>2. CASE session' = "mounted"
    <3>1. marker = "none" /\ base' = dst
      BY <1>7, <2>2 DEF RemoveDone, MarkerPhases
    <3>2. QED
      BY <2>1, <3>1
  <2>3. CASE session' # "mounted"
    <3>1. base' = base
      BY <1>7, <2>3 DEF RemoveDone
    <3>2. QED
      BY <2>1, <2>3, <3>1
  <2>4. QED
    BY <2>2, <2>3
<1>8. CASE PromoteJournals
  <2>1. /\ jrn' = buildJournal("staging", conf)
        /\ UNCHANGED <<journal, marker, session, base, dst, torn>>
        /\ session # "mounted" /\ pc' = "createJournal"
    BY <1>8 DEF PromoteJournals
  <2>2. PreviousOf(jrn)'
    <3> SUFFICES ASSUME NEW p \in Paths, file["staging"][p] # Absent
                 PROVE  /\ dst[conf][p] \in {Absent, file["staging"][p], base[conf][p]}
                        /\ file["staging"][p] = Partial =>
                              dst[conf][p] \in {Absent, Partial} \/ p \in torn
      BY <2>1
    <3> QED
      BY <1>8 DEF PromoteJournals, StagedIsOwed, Truncated
  <2>3. QED
    BY ZenonT(60), <2>1, <2>2
<1>9. CASE RecoverJournals
  <2>1. /\ jrn' = buildJournal("staging", conf)
        /\ UNCHANGED <<journal, marker, session, base, dst, torn>>
        /\ session # "mounted" /\ pc' = "createJournal"
    BY <1>9 DEF RecoverJournals
  <2>2. PreviousOf(jrn)'
    <3> SUFFICES ASSUME NEW p \in Paths, file["staging"][p] # Absent
                 PROVE  /\ dst[conf][p] \in {Absent, file["staging"][p], base[conf][p]}
                        /\ file["staging"][p] = Partial =>
                              dst[conf][p] \in {Absent, Partial} \/ p \in torn
      BY <2>1
    <3> QED
      BY <1>9 DEF RecoverJournals, Conflicting
  <2>3. QED
    BY ZenonT(60), <2>1, <2>2
<1>10. CASE ResumeArchive
  <2> DEFINE t == ArchivedSource
  <2>1. t \in Trees /\ marker = "unjournaled"
    BY <1>10 DEF ArchivedSource, ResumeArchive
  <2>2. /\ UNCHANGED <<journal, marker, dst, base, torn>>
        /\ session' # "mounted" /\ pc' # "promote"
    BY <1>10, <2>1 DEF ResumeArchive
  <2>3. pc' \in Working => PreviousOf(jrn)'
    <3>1. CASE jrn' = journal[t] /\ journal[t] # NoJournal
      BY <2>1, <2>2, <3>1
    <3>2. CASE jrn' = buildJournal(t, conf) /\ ~Conflicting(t, conf)
      BY <2>1, <2>2, <3>2 DEF Conflicting
    <3>3. QED
      BY <1>10, <3>1, <3>2 DEF ResumeArchive
  <2>4. QED
    BY ZenonT(60), <2>2, <2>3
<1>11. CASE UnmountDiscarding
  <2>1. UNCHANGED <<journal, marker, base, torn>> /\ session' = "down" /\ pc' = "idle"
    BY <1>11 DEF UnmountDiscarding
  <2>2. QED
    BY ZenonT(60), <2>1
<1>12. CASE Crash
  BY ZenonT(60), <1>12 DEF Crash
<1>13. CASE WriteMarker
  <2>1. UNCHANGED <<journal, jrn, base, session, torn>> /\ pc' = "moveTree" /\ session # "mounted"
    BY <1>13 DEF WriteMarker
  <2>2. journal["archive"] = NoJournal /\ marker = "torn"
    BY <1>13 DEF WriteMarker, MarkerPhases
  <2>3. QED
    BY <2>1, <2>2
<1>14. CASE Mount
  BY SMTT(30), <1>14 DEF Mount
<1>15. CASE Unmount
  <2>1. journal["staging"] = NoJournal /\ marker = "none"
    BY <1>15 DEF Unmount, TreesApart, MarkerPhases
  <2>2. /\ UNCHANGED <<journal, marker, dst, base>>
        /\ session = "mounted" /\ pc' = "promote"
    BY <1>15 DEF Unmount
  <2>3. QED
    BY <2>1, <2>2
<1>16. ASSUME NEW p \in Paths, CopyOnWriteBegin(p)
     PROVE  PreviousSeen'
  BY ZenonT(60), <1>16 DEF CopyOnWriteBegin
<1>17. ASSUME NEW p \in Paths, NEW c \in Contents, StageWrite(p, c)
     PROVE  PreviousSeen'
  <2>1. journal["staging"] = NoJournal /\ marker = "none" /\ pc = "idle" /\ dst = base
    BY <1>17 DEF StageWrite, TreesApart, MarkerPhases
  <2>2. UNCHANGED <<journal, marker, dst, base, pc>>
    BY <1>17 DEF StageWrite
  <2>3. QED
    BY <2>1, <2>2
<1>18. ASSUME NEW p \in Paths, NEW c \in Contents, CopyOnWriteEnd(p, c)
     PROVE  PreviousSeen'
  <2>1. journal["staging"] = NoJournal /\ marker = "none" /\ pc = "idle" /\ dst = base
    BY <1>18 DEF CopyOnWriteEnd, TreesApart, MarkerPhases
  <2>2. UNCHANGED <<journal, marker, dst, base, pc>>
    BY <1>18 DEF CopyOnWriteEnd
  <2>3. QED
    BY <2>1, <2>2
<1>19. CASE CreateMarker
  BY <1>19 DEF CreateMarker
<1>20. CASE MoveTree
  BY <1>20 DEF MoveTree
<1>21. CASE PublishJournal
  BY ZenonT(60), <1>21 DEF PublishJournal
<1>22. ASSUME NEW p \in Paths, ReplayBlock(p)
     PROVE  PreviousSeen'
  BY ZenonT(60), <1>22 DEF ReplayBlock
<1>23. ASSUME NEW kept \in SUBSET Paths, Reconcile(kept)
     PROVE  PreviousSeen'
  BY <1>23 DEF Reconcile
<1>24. ASSUME NEW d \in Dests, NEW p \in Paths, NEW c \in Contents \cup {Absent}, Edit(d, p, c)
     PROVE  PreviousSeen'
  BY ZenonT(60), <1>24 DEF Edit
<1>25. QED BY <1>1, <1>2, <1>3, <1>4, <1>5, <1>6, <1>7, <1>8, <1>9, <1>10, <1>11,
    <1>12, <1>13, <1>14, <1>15, <1>16, <1>17, <1>18, <1>19, <1>20, <1>21, <1>22,
    <1>23, <1>24 DEF Next, Promotion, Session, Environment

\* No step loses an accepted write.
LEMMA NoAcceptedWriteLostStep ==
  ASSUME IndInv, TypeOK', Next
  PROVE  NoAcceptedWriteLost'
<1> USE SentinelAssumption DEF IndInv, TypeOK, Idle, Goto, Throw, Return,
    StartJournal, StartReplay, buildJournal, Empty, disk, promo, memory, history,
    NoAcceptedWriteLost, Parked, Trees
<1>1. CASE
        \/ NothingToDo
        \/ PromoteJournals
        \/ BlockedByMarker
  BY <1>1 DEF NothingToDo, PromoteJournals, BlockedByMarker
<1>2. CASE
        \/ RecoverJournals
        \/ RecoverArchives
        \/ RecoverReplays
        \/ ResumeArchive
  BY <1>2 DEF RecoverJournals, RecoverArchives, RecoverReplays, ResumeArchive
<1>3. CASE
        \/ CreateJournalTemp
        \/ JournalTempExists
        \/ PublishJournal
        \/ \E p \in Paths : ReplaySkip(p)
  BY <1>3 DEF CreateJournalTemp, JournalTempExists, PublishJournal, ReplaySkip
<1>4. CASE
        \/ \E p \in Paths : ReplayCopy(p)
        \/ \E p \in Paths : ReplayBlock(p)
        \/ ReplayDone
        \/ RemoveDone
  BY <1>4 DEF ReplayCopy, ReplayBlock, ReplayDone, RemoveDone
<1>5. CASE
        \/ WriteMarker
        \/ Mount
        \/ Unmount
  BY <1>5 DEF WriteMarker, Mount, Unmount, Truncated
<1>6. CASE
        \/ \E p \in Paths : CopyOnWriteBegin(p)
        \/ \E p \in Paths, c \in Contents : StageWrite(p, c)
        \/ \E p \in Paths, c \in Contents : CopyOnWriteEnd(p, c)
        \/ Crash
  BY SMTT(30), <1>6 DEF CopyOnWriteBegin, StageWrite, CopyOnWriteEnd, Crash
<1>7. CASE
        \/ CopyVerifiedFails
        \/ \E p \in Paths : CopyOnWriteFails(p)
        \/ \E d \in Dests : Reconfigure(d)
  BY <1>7 DEF CopyVerifiedFails, CopyOnWriteFails, Reconfigure
<1>8. CASE CopyVerifiedInstall
  <2>1. /\ UNCHANGED <<file, marker, owed, torn>>
        /\ dst' = [dst EXCEPT ![jrn.dest][cur] = jrn.digest[cur]]
        /\ jrn \in Journal /\ cur \in todo /\ cur \in Paths /\ jrn.digest[cur] # Absent
        /\ src = "archive" => marker # "none"
    BY <1>8 DEF CopyVerifiedInstall, Working, Entries, TreesApart, MarkerPhases
  <2>2. file[src][cur] = jrn.digest[cur] /\ dst[jrn.dest][cur] = jrn.previous[cur]
    BY <1>8 DEF CopyVerifiedInstall, InstalledSoFar, Replaceable
  <2>3. jrn.digest[cur] \in Contents => owed[cur] = jrn.digest[cur]
    BY <2>1, <2>2 DEF StagedIsOwed
  <2>4. jrn.digest[cur] = Partial =>
           dst[jrn.dest][cur] \in {Absent, Partial} \/ cur \in torn
    BY <1>8, <2>1, <2>2 DEF CopyVerifiedInstall, PreviousSeen, PreviousOf, Working, Entries
  <2>5. jrn.digest[cur] \in Contents \cup {Partial} /\ jrn.dest \in Dests
    BY <2>1 DEF Journal, Stored
  <2>6. owed[cur] # Partial
    BY <2>1 DEF StagedIsOwed
  <2>7. ASSUME NEW p \in Paths, NEW d \in Dests, dst[d][p] = owed[p], owed[p] # Absent
        PROVE  dst'[d][p] = owed[p] \/ p \in torn
    BY <2>1, <2>3, <2>4, <2>5, <2>6, <2>7
  <2>8. QED
    BY <2>1, <2>7
<1>9. CASE ClearMarker
  <2>1. UNCHANGED <<file, owed, dst, torn>> /\ jrn \in Journal /\ src \in Trees
    BY <1>9 DEF ClearMarker, Working
  <2>2. src = "staging" => \A p \in Paths : file["archive"][p] = Absent
    BY <1>9 DEF ClearMarker, TreesApart, MarkerPhases, hasPayload, HasFiles
  <2>3. \A p \in Paths : file[src][p] # Absent => dst[jrn.dest][p] = file[src][p]
    BY <1>9 DEF ClearMarker, JournalsDescribe, JournalDescribes, InstalledSoFar, Installed,
             Entries, Working
  <2>4. jrn.dest \in Dests
    BY <2>1 DEF Journal
  <2>5. QED
    BY <2>1, <2>2, <2>3, <2>4
<1>10. CASE RemoveEntry
  <2>1. UNCHANGED <<owed, dst, marker, torn>> /\ marker = "none" /\ jrn \in Journal
    BY <1>10 DEF RemoveEntry, MarkerPhases, Working
  <2>2. \A p \in Paths : file[src][p] # Absent => dst[jrn.dest][p] = file[src][p]
    BY <1>10 DEF RemoveEntry, JournalsDescribe, JournalDescribes, InstalledSoFar, Installed,
             Entries, Working
  <2>3. \A p \in Paths : \/ file'["staging"][p] = file["staging"][p]
                         \/ src = "staging"
    BY <1>10 DEF RemoveEntry
  <2>4. \A p \in Paths : file'["staging"][p] = file["staging"][p] \/ file["staging"][p] # Absent
    BY <1>10 DEF RemoveEntry
  <2>5. jrn.dest \in Dests
    BY <2>1 DEF Journal
  <2>6. QED
    BY <2>1, <2>2, <2>3, <2>4, <2>5
<1>11. CASE CreateMarker
  <2>1. UNCHANGED <<owed, dst, torn>> /\ marker = "none" /\ file'["staging"] = file["staging"]
    BY <1>11 DEF CreateMarker, MarkerPhases
  <2>2. QED
    BY <2>1
<1>12. CASE MoveTree
  <2>1. /\ UNCHANGED <<owed, dst, marker, torn>> /\ marker = "conflict"
        /\ file'["archive"] = file["staging"]
    BY <1>12 DEF MoveTree, MarkerPhases
  <2>2. file["archive"] = [p \in Paths |-> Absent]
    BY <1>12 DEF MoveTree, MarkerPhases
  <2>3. QED
    BY <2>1, <2>2
<1>13. ASSUME NEW d \in Dests, NEW p \in Paths, NEW c \in Contents \cup {Absent}, Edit(d, p, c)
     PROVE  NoAcceptedWriteLost'
  <2>1. /\ UNCHANGED <<file, marker, torn>>
        /\ dst' = [dst EXCEPT ![d][p] = c]
        /\ owed' = [owed EXCEPT ![p] = IF Parked(p) THEN owed[p] ELSE Absent]
    BY <1>13 DEF Edit
  <2>2. ASSUME NEW q \in Paths, q # p
        PROVE  \A e \in Dests : dst'[e][q] = dst[e][q]
    BY <2>1, <2>2
  <2>3. ASSUME NEW q \in Paths
        PROVE  \/ owed'[q] = Absent
               \/ \E e \in Dests : dst'[e][q] = owed'[q]
               \/ Parked(q)'
               \/ q \in torn'
    <3>1. CASE q = p
      BY <2>1, <3>1
    <3>2. CASE q # p
      BY <2>1, <2>2, <3>2
    <3>3. QED
      BY <3>1, <3>2
  <2>4. QED
    BY <2>3
<1>14. ASSUME NEW kept \in SUBSET Paths, Reconcile(kept)
     PROVE  NoAcceptedWriteLost'
  <2>1. /\ file'["staging"] = file["staging"] /\ torn' = torn
        /\ \A q \in Paths : file["archive"][q] = Absent =>
              owed'[q] = owed[q] /\ \A e \in Dests : dst'[e][q] = dst[e][q]
        /\ \A q \in Paths : file["archive"][q] # Absent =>
              owed'[q] = Absent \/ (owed'[q] = owed[q] /\ file["staging"][q] = owed[q])
    BY <1>14 DEF Reconcile
  <2>2. ASSUME NEW q \in Paths
        PROVE  \/ owed'[q] = Absent
               \/ \E e \in Dests : dst'[e][q] = owed'[q]
               \/ Parked(q)'
               \/ q \in torn'
    <3>1. CASE file["archive"][q] = Absent
      BY <2>1, <3>1
    <3>2. CASE file["archive"][q] # Absent
      BY <2>1, <3>2
    <3>3. QED
      BY <3>1, <3>2
  <2>3. QED
    BY <2>2
<1>15. CASE UnmountDiscarding
  <2>1. UNCHANGED <<dst, marker, torn>> /\ marker = "none"
    BY <1>15 DEF UnmountDiscarding, MarkerPhases
  <2>2. ASSUME NEW p \in Paths, owed'[p] # Absent
        PROVE  owed'[p] = owed[p] /\ file["staging"][p] # owed[p]
    BY <1>15, <2>2 DEF UnmountDiscarding, StagedIsOwed
  <2>3. QED
    BY <2>1, <2>2
<1>16. QED BY <1>1, <1>2, <1>3, <1>4, <1>5, <1>6, <1>7, <1>8, <1>9, <1>10, <1>11,
    <1>12, <1>13, <1>14, <1>15 DEF Next, Promotion, Session, Environment

\* Every initial state satisfies the inductive invariant.
LEMMA IndInvInit == Init => IndInv
<1> SUFFICES ASSUME Init PROVE IndInv
  OBVIOUS
<1>1. TypeOK
  BY TypeInductive
<1>2. PICK legacy \in [Paths -> Contents \cup {Absent}], t \in Trees :
        /\ file = [u \in Trees |-> IF u = t THEN legacy ELSE Empty]
        /\ marker = IF legacy = Empty THEN "none" ELSE "unjournaled"
        /\ owed = legacy
  BY DEF Init
<1>3. /\ session = "down" /\ pc = "idle" /\ src = "staging" /\ resume = FALSE
      /\ journal = [u \in Trees |-> NoJournal] /\ jtmp = [u \in Trees |-> FALSE]
  BY DEF Init
<1>4. JournalsDescribe /\ InstalledSoFar /\ JournalOnDisk /\ PreviousSeen
  BY <1>3 DEF JournalsDescribe, InstalledSoFar, JournalOnDisk, PreviousSeen, Working
<1>5. MarkerPhases
  BY <1>3 DEF MarkerPhases, Working
<1>6. TreesApart
  BY <1>2, <1>3 DEF TreesApart, hasPayload, HasFiles, Empty, Trees
<1>7. StagedIsOwed
  <2>1. \A p \in Paths, u \in Trees : file[u][p] \in Contents => owed[p] = file[u][p]
    BY <1>2, SentinelAssumption DEF Empty
  <2>2. \A p \in Paths, u \in Trees : file[u][p] # Partial
    BY <1>2, SentinelAssumption DEF Empty
  <2>3. QED
    BY <1>2, <1>3, <2>1, <2>2 DEF StagedIsOwed
<1>8. NoAcceptedWriteLost
  <2>1. ASSUME NEW p \in Paths, owed[p] # Absent PROVE Parked(p)
    <3>1. legacy # Empty
      BY <1>2, <2>1 DEF Empty
    <3>2. file[t][p] = owed[p]
      BY <1>2
    <3>3. QED
      BY <1>2, <3>1, <3>2 DEF Parked, Trees
  <2>2. QED
    BY <2>1 DEF NoAcceptedWriteLost, Parked
<1>9. QED
  BY <1>1, <1>4, <1>5, <1>6, <1>7, <1>8 DEF IndInv

\* A step that changes nothing keeps it.
LEMMA IndInvStutter == IndInv /\ UNCHANGED vars => IndInv'
<1> SUFFICES ASSUME IndInv, UNCHANGED vars PROVE IndInv'
  OBVIOUS
<1>1. TypeOK'
  BY TypeInductive DEF IndInv
<1>2. JournalsDescribe' /\ InstalledSoFar' /\ JournalOnDisk'
  BY DEF IndInv, vars, disk, promo, memory, history, JournalsDescribe, JournalDescribes,
         InstalledSoFar, JournalOnDisk, Installed, Replaceable, Entries
<1>3. MarkerPhases' /\ TreesApart'
  BY DEF IndInv, vars, disk, promo, memory, history, MarkerPhases, TreesApart, hasPayload, HasFiles
<1>4. StagedIsOwed' /\ PreviousSeen' /\ NoAcceptedWriteLost'
  BY DEF IndInv, vars, disk, promo, memory, history, StagedIsOwed, PreviousSeen, PreviousOf,
         Entries, NoAcceptedWriteLost, Parked, Truncated
<1>5. QED
  BY <1>1, <1>2, <1>3, <1>4 DEF IndInv

\* Every step of the system keeps the inductive invariant.
LEMMA IndInvStep == IndInv /\ [Next]_vars => IndInv'
<1> SUFFICES ASSUME IndInv, [Next]_vars PROVE IndInv'
  OBVIOUS
<1>1. TypeOK'
  BY TypeInductive DEF IndInv
<1>2. CASE Next
  BY <1>1, <1>2, JournalsDescribeStep, InstalledSoFarStep, JournalOnDiskStep,
     MarkerPhasesStep, TreesApartStep, StagedIsOwedStep, PreviousSeenStep,
     NoAcceptedWriteLostStep DEF IndInv
<1>3. CASE UNCHANGED vars
  BY <1>3, IndInvStutter
<1>4. QED
  BY <1>2, <1>3

\* The inductive invariant holds in every reachable state.
THEOREM InvariantHolds == Spec => []IndInv
  BY IndInvInit, IndInvStep, PTL DEF Spec

\* No accepted write is lost, wherever a crash or a failure interrupts the
\* promotion, for any number of crashes, paths, contents and destinations.
THEOREM WritesSurvive == Spec => []NoAcceptedWriteLost
<1>1. IndInv => NoAcceptedWriteLost
  BY DEF IndInv
<1>2. QED
  BY <1>1, InvariantHolds, PTL

\* The VFS is never exposed over data that an earlier session left unresolved.
THEOREM ExposureIsComplete == Spec => []ExposedComplete
<1>1. IndInv => ExposedComplete
  <2> SUFFICES ASSUME IndInv, session = "mounted" PROVE ExposedComplete
    BY DEF ExposedComplete
  <2>1. marker = "none"
    <3>1. pc \notin {"writeMarker", "moveTree"}
      BY DEF IndInv, TypeOK
    <3>2. QED
      BY <3>1 DEF IndInv, MarkerPhases
  <2>2. QED
    BY <2>1 DEF IndInv, NoAcceptedWriteLost, Parked, ExposedComplete
<1>2. QED
  BY <1>1, InvariantHolds, PTL

-----------------------------------------------------------------------------
(* What a step of the promotion may never do.                               *)

\* The journal being replayed is one of those on disk.
LEMMA ReplayedJournalOnDisk ==
  ASSUME IndInv, pc \in {"replay", "install", "clearMarker"}
  PROVE  jrn \in JournalsOnDisk /\ jrn \in Journal
<1>1. journal[src] = jrn /\ jrn \in Journal /\ src \in Trees
  BY DEF IndInv, JournalOnDisk, TypeOK, Working
<1>2. src = "staging" \/ marker # "none"
  BY DEF IndInv, MarkerPhases, TreesApart, Working
<1>3. QED
  BY <1>1, <1>2, SentinelAssumption DEF JournalsOnDisk, Trees, Journal, Stored

\* Only the installation of a verified copy changes a destination.
LEMMA OnlyInstallTouches ==
  ASSUME Promotion, dst' # dst
  PROVE  CopyVerifiedInstall
BY DEF Promotion, NothingToDo, PromoteJournals, BlockedByMarker,
       RecoverJournals, RecoverArchives, RecoverReplays, ResumeArchive,
       CreateJournalTemp, JournalTempExists, PublishJournal, ReplaySkip, ReplayCopy,
       ReplayBlock, ReplayDone, ClearMarker, RemoveEntry, RemoveDone, CreateMarker,
       WriteMarker, MoveTree, disk

\* A destination changes only as a journal on disk says, and what it replaces was
\* seen by the last session.
THEOREM TouchesAreJournaled == Spec => JournalBeforeTouch
<1>1. ASSUME IndInv, Promotion, NEW d \in Dests, NEW p \in Paths, dst'[d][p] # dst[d][p]
      PROVE  /\ dst[d][p] \in {Absent, base[d][p]}
             /\ \E j \in JournalsOnDisk : j.dest = d /\ j.digest[p] = dst'[d][p]
  <2>1. CopyVerifiedInstall
    BY <1>1, OnlyInstallTouches
  <2>2. /\ pc = "install"
        /\ dst' = [dst EXCEPT ![jrn.dest][cur] = jrn.digest[cur]]
    BY <2>1 DEF CopyVerifiedInstall
  <2>3. /\ dst \in [Dests -> [Paths -> Stored]]
        /\ cur \in Entries(jrn)
    BY <1>1, <2>2 DEF IndInv, TypeOK, Working
  <2>4. d = jrn.dest /\ p = cur /\ dst'[d][p] = jrn.digest[p]
    BY <1>1, <2>2, <2>3
  <2>5. dst[d][p] = jrn.previous[p]
    BY <1>1, <2>2, <2>4 DEF IndInv, InstalledSoFar, Replaceable
  <2>6. jrn.previous[p] \in {Absent, jrn.digest[p], base[jrn.dest][p]}
    BY <1>1, <2>2, <2>3, <2>4 DEF IndInv, PreviousSeen, PreviousOf, Working
  <2>7. jrn \in JournalsOnDisk
    BY <1>1, <2>2, ReplayedJournalOnDisk
  <2>8. QED
    BY <1>1, <2>4, <2>5, <2>6, <2>7
<1>2. IndInv /\ [Next]_vars => [ Promotion => \A d \in Dests, p \in Paths :
          dst'[d][p] # dst[d][p] =>
            /\ dst[d][p] \in {Absent, base[d][p]}
            /\ \E j \in JournalsOnDisk : j.dest = d /\ j.digest[p] = dst'[d][p]
      ]_vars
  BY <1>1
<1>3. QED
  BY <1>2, InvariantHolds, PTL DEF Spec, JournalBeforeTouch

\* Steps that keep journals and marker keep the journals on disk.
LEMMA JournalsKept ==
  ASSUME UNCHANGED <<journal, marker>>
  PROVE  JournalsOnDisk' = JournalsOnDisk
BY DEF JournalsOnDisk

\* Replay has finished: every entry of the journal is installed.
LEMMA AllInstalled ==
  ASSUME IndInv, pc \in {"clearMarker", "removeTree"}
  PROVE  \A p \in Entries(jrn) : dst[jrn.dest][p] = jrn.digest[p]
BY DEF IndInv, InstalledSoFar, Installed, Working

\* A journal leaves the disk only when all of its entries are installed.
THEOREM JournalsAreRetained == Spec => JournalRetained
<1>1. ASSUME IndInv, Promotion, NEW j \in JournalsOnDisk \ (JournalsOnDisk')
      PROVE  \A p \in Entries(j) : dst[j.dest][p] = j.digest[p]
  <2>0. /\ journal \in [Trees -> Journal \cup {NoJournal}]
        /\ src \in Trees
    BY <1>1 DEF IndInv, TypeOK
  <2>1. CASE RemoveEntry
    <3>1. /\ pc = "removeTree" /\ UNCHANGED marker
          /\ journal' = [journal EXCEPT ![src] = NoJournal] \/ UNCHANGED journal
      BY <2>1 DEF RemoveEntry
    <3>2. j = journal[src]
      <4>1. PICK t \in IF marker = "none" THEN {"staging"} ELSE Trees : j = journal[t]
        BY <1>1 DEF JournalsOnDisk
      <4>2. t = src
        <5>1. SUFFICES ASSUME t # src PROVE FALSE
          OBVIOUS
        <5>2. journal'[t] = j
          BY <2>0, <3>1, <4>1, <5>1 DEF Trees
        <5>3. QED
          BY <1>1, <3>1, <4>1, <5>2 DEF JournalsOnDisk
      <4>3. QED
        BY <4>1, <4>2
    <3>3. j = jrn
      BY <1>1, <3>1, <3>2 DEF IndInv, JournalOnDisk, JournalsOnDisk
    <3>4. QED
      BY <1>1, <3>1, <3>3, AllInstalled
  <2>2. CASE ClearMarker
    <3>1. /\ pc = "clearMarker" /\ marker' = "none" /\ UNCHANGED journal
      BY <2>2 DEF ClearMarker
    <3>2. j = journal["archive"]
      BY <1>1, <3>1 DEF JournalsOnDisk, Trees
    <3>3. src = "archive"
      BY <1>1, <2>0, <3>1, <3>2 DEF IndInv, MarkerPhases, TreesApart, hasPayload,
         JournalsOnDisk, Trees
    <3>4. j = jrn
      BY <1>1, <3>1, <3>2, <3>3 DEF IndInv, JournalOnDisk
    <3>5. QED
      BY <1>1, <3>1, <3>4, AllInstalled
  <2>3. CASE CreateMarker
    <3>1. /\ journal' = [journal EXCEPT !["archive"] = NoJournal]
          /\ pc = "createMarker"
      BY <2>3 DEF CreateMarker
    <3>2. marker = "none" /\ marker' = "torn"
      BY <1>1, <2>3 DEF CreateMarker, IndInv, MarkerPhases
    <3>3. QED
      BY <1>1, <2>0, <3>1, <3>2 DEF JournalsOnDisk, Trees
  <2>4. CASE WriteMarker
    <3>1. marker = "torn" /\ marker' = "conflict" /\ UNCHANGED journal
      BY <1>1, <2>4 DEF WriteMarker, IndInv, MarkerPhases
    <3>2. QED
      BY <1>1, <3>1 DEF JournalsOnDisk
  <2>5. CASE MoveTree
    <3>1. /\ marker = "conflict" /\ UNCHANGED marker
          /\ journal["archive"] = NoJournal
          /\ journal' = [journal EXCEPT !["archive"] = journal["staging"],
                                        !["staging"] = NoJournal]
      BY <1>1, <2>5 DEF MoveTree, IndInv, MarkerPhases
    <3>2. QED
      BY <1>1, <2>0, <3>1 DEF JournalsOnDisk, Trees
  <2>6. CASE PublishJournal
    <3>1. /\ journal[src] = NoJournal /\ UNCHANGED marker
          /\ journal' = [journal EXCEPT ![src] = jrn]
      BY <1>1, <2>6 DEF PublishJournal, IndInv, JournalOnDisk
    <3>2. QED
      BY <1>1, <2>0, <3>1 DEF JournalsOnDisk
  <2>7. CASE UNCHANGED <<journal, marker>>
    BY <1>1, <2>7, JournalsKept
  <2>8. QED
    BY <1>1, <2>1, <2>2, <2>3, <2>4, <2>5, <2>6, <2>7
       DEF Promotion, NothingToDo, PromoteJournals, BlockedByMarker,
           RecoverJournals, RecoverArchives, RecoverReplays, ResumeArchive,
           CreateJournalTemp, JournalTempExists, ReplaySkip, ReplayCopy, ReplayBlock,
           CopyVerifiedInstall, ReplayDone, RemoveDone, disk
<1>2. IndInv /\ [Next]_vars => [ Promotion => \A j \in JournalsOnDisk \ (JournalsOnDisk') :
          \A p \in Entries(j) : dst[j.dest][p] = j.digest[p]
      ]_vars
  BY <1>1
<1>3. QED
  BY <1>2, InvariantHolds, PTL DEF Spec, JournalRetained

-----------------------------------------------------------------------------
(* The store that is implemented.                                           *)

\* Initial states are initial states of the store.
LEMMA StoreInit == Init => Store!Init
<1> SUFFICES ASSUME Init PROVE Store!Init
  OBVIOUS
<1>1. PICK legacy \in [Paths -> Contents \cup {Absent}], t \in Trees :
        /\ file = [u \in Trees |-> IF u = t THEN legacy ELSE Empty]
        /\ marker = IF legacy = Empty THEN "none" ELSE "unjournaled"
  BY DEF Init
<1>2. file \in [Trees -> [Paths -> Stored]] /\ dst \in [Dests -> [Paths -> Stored]]
  BY TypeInductive DEF TypeOK
<1>3. Store!Files = [Paths -> Stored] /\ Store!None = Empty
  BY DEF Store!Files, Store!None, Stored, Empty
<1>4. Empty \in [Paths -> Stored]
  BY DEF Empty, Stored
<1>5. session = "down" /\ interventions = 0
  BY DEF Init
<1>6. QED
  BY <1>2, <1>3, <1>4, <1>5 DEF Store!Init, Trees

\* What a step of the store may look like, as this module sees it: what is aside counts
\* while there is a marker.
Aside == IF marker = "none" THEN Empty ELSE file["archive"]
Seen  == <<dst, file["staging"], Aside, marker # "none", session = "mounted", interventions>>

\* A session ends, or a launch exposes what recovery has left.
LEMMA ReturnIsStoreStep ==
  ASSUME IndInv, IndInv', NEW blocked \in BOOLEAN, Return(blocked), pc # "idle",
         ~blocked => marker = "none",
         UNCHANGED <<dst, file, marker, interventions>>
  PROVE  [Store!Next]_Seen
<1>1. session # "mounted"
  BY DEF IndInv, TypeOK
<1>2. CASE session' = "mounted"
  <2>1. marker = "none"
    BY <1>2 DEF Return
  <2>2. Store!Expose
    BY <1>1, <1>2, <2>1 DEF Store!Expose
  <2>3. QED
    BY <2>2 DEF Store!Next
<1>3. CASE session' # "mounted"
  BY <1>1, <1>3 DEF Seen, Aside
<1>4. QED
  BY <1>2, <1>3

\* The steps of the promotion.
LEMMA PromotionIsStoreStep ==
  ASSUME IndInv, IndInv', Promotion
  PROVE  [Store!Next]_Seen
<1> USE DEF Seen, Aside
<1>1. CASE NothingToDo
  <2>1. pc # "idle" /\ marker = "none"
    BY <1>1 DEF NothingToDo, IndInv, MarkerPhases
  <2>2. QED
    BY <1>1, <2>1, ReturnIsStoreStep DEF NothingToDo, disk
<1>2. CASE BlockedByMarker
  BY <1>2, ReturnIsStoreStep DEF BlockedByMarker, disk
<1>3. CASE PromoteJournals \/ RecoverJournals \/ RecoverReplays
  BY <1>3 DEF PromoteJournals, RecoverJournals, RecoverReplays, StartJournal, StartReplay,
              disk, history
<1>4. CASE RecoverArchives
  BY <1>4 DEF RecoverArchives, Goto, disk, history
<1>5. CASE ResumeArchive
  <2>1. /\ UNCHANGED <<dst, file, marker, interventions>> /\ pc # "idle"
        /\ session # "mounted"
    BY <1>5 DEF ResumeArchive, disk, IndInv, TypeOK
  <2>2. UNCHANGED session \/ session' = "down"
    BY <1>5 DEF ResumeArchive, StartReplay, StartJournal, Throw, Return
  <2>3. QED
    BY <2>1, <2>2
<1>6. CASE CreateJournalTemp \/ PublishJournal
  BY <1>6 DEF CreateJournalTemp, PublishJournal, Goto, history
<1>7. CASE JournalTempExists
  BY <1>7 DEF JournalTempExists, Throw, disk, history, IndInv, TypeOK
<1>8. ASSUME NEW p \in Paths, ReplaySkip(p) \/ ReplayCopy(p)
      PROVE  UNCHANGED Seen
  BY <1>8 DEF ReplaySkip, ReplayCopy, disk, history
<1>9. ASSUME NEW p \in Paths, ReplayBlock(p)
      PROVE  [Store!Next]_Seen
  <2>1. CASE resume
    BY <1>9, <2>1, ReturnIsStoreStep DEF ReplayBlock, disk
  <2>2. CASE ~resume
    BY <1>9, <2>2 DEF ReplayBlock, Goto, disk
  <2>3. QED
    BY <2>1, <2>2
<1>10. CASE CopyVerifiedInstall
  <2>1. /\ pc = "install" /\ session # "mounted" /\ UNCHANGED <<file, marker, session, interventions>>
        /\ dst' = [dst EXCEPT ![jrn.dest][cur] = jrn.digest[cur]]
    BY <1>10 DEF CopyVerifiedInstall, IndInv, TypeOK, history
  <2>2. /\ cur \in Paths /\ jrn.dest \in Dests /\ jrn.digest[cur] # Absent
        /\ src = "staging" \/ (src = "archive" /\ marker # "none")
    BY <2>1 DEF IndInv, TypeOK, Working, Entries, Journal, TreesApart, MarkerPhases, Trees
  <2>3. file[src][cur] = jrn.digest[cur]
    BY <2>1 DEF IndInv, InstalledSoFar, Replaceable
  <2>4. jrn.digest[cur] \in {file["staging"][cur], Aside[cur]} \ {Absent}
    BY <2>2, <2>3
  <2>5. Store!Install(jrn.dest, cur)
    BY <2>1, <2>4 DEF Store!Install
  <2>6. QED
    BY <2>2, <2>5 DEF Store!Next
<1>11. CASE ReplayDone
  BY <1>11 DEF ReplayDone, Goto, disk, history
<1>12. CASE ClearMarker
  <2>1. /\ pc = "clearMarker" /\ marker = "unjournaled" /\ resume /\ marker' = "none"
        /\ session # "mounted" /\ UNCHANGED <<dst, file, session, interventions>>
    BY <1>12 DEF ClearMarker, Goto, history, IndInv, TypeOK, MarkerPhases
  <2>2. src = "staging" => \A p \in Paths : file["archive"][p] = Absent
    BY <2>1 DEF IndInv, TreesApart, hasPayload, HasFiles
  <2>3. \A p \in Paths : file[src][p] # Absent => dst[jrn.dest][p] = file[src][p]
    BY <2>1, AllInstalled DEF IndInv, JournalsDescribe, JournalDescribes, Entries, Working
  <2>4. src \in {"staging", "archive"} /\ jrn.dest \in Dests
    BY <2>1 DEF IndInv, TypeOK, Trees, Working, Journal
  <2>5. \A p \in Paths : Aside[p] = Absent \/ \E d \in Dests : dst[d][p] = Aside[p]
    BY <2>1, <2>2, <2>3, <2>4
  <2>6. Store!ReleaseAside
    BY <2>1, <2>5 DEF Store!ReleaseAside, Store!Reached, Store!None, Empty
  <2>7. QED
    BY <2>6 DEF Store!Next
<1>13. CASE RemoveEntry
  <2>1. /\ pc = "removeTree" /\ marker = "none" /\ session # "mounted"
        /\ UNCHANGED <<dst, marker, session, interventions>>
    BY <1>13 DEF RemoveEntry, memory, history, IndInv, TypeOK, MarkerPhases
  <2>2. CASE UNCHANGED file["staging"]
    BY <2>1, <2>2
  <2>3. CASE file'["staging"] # file["staging"]
    <3>1. PICK p \in Paths : file[src][p] # Absent /\ file' = [file EXCEPT ![src][p] = Absent]
      BY <1>13, <2>3 DEF RemoveEntry
    <3>2. file \in [Trees -> [Paths -> Stored]] /\ src = "staging" /\ jrn.dest \in Dests
      BY <2>1, <2>3, <3>1 DEF IndInv, TypeOK, Trees, Working, Journal
    <3>3. dst[jrn.dest][p] = file["staging"][p]
      BY <2>1, <3>1, <3>2, AllInstalled
         DEF IndInv, JournalsDescribe, JournalDescribes, Entries, Working
    <3>4. file'["staging"] = [file["staging"] EXCEPT ![p] = Absent]
      BY <3>1, <3>2 DEF Trees
    <3>5. Store!Release(p)
      BY <2>1, <3>2, <3>3, <3>4 DEF Store!Release, Store!Reached
    <3>6. QED
      BY <3>5 DEF Store!Next
  <2>4. QED
    BY <2>2, <2>3
<1>14. CASE RemoveDone
  <2>1. pc # "idle" /\ marker = "none"
    BY <1>14 DEF RemoveDone, IndInv, MarkerPhases
  <2>2. QED
    BY <1>14, <2>1, ReturnIsStoreStep DEF RemoveDone, disk
<1>15. CASE CreateMarker
  <2>1. /\ marker = "none" /\ marker' = "torn" /\ session # "mounted"
        /\ UNCHANGED <<dst, session, interventions>>
        /\ file' = [file EXCEPT !["archive"] = Empty]
    BY <1>15 DEF CreateMarker, Goto, history, IndInv, TypeOK, MarkerPhases
  <2>2. file'["archive"] = Empty /\ file'["staging"] = file["staging"]
    BY <2>1 DEF IndInv, TypeOK, Trees
  <2>3. Store!Warn
    BY <2>1, <2>2 DEF Store!Warn
  <2>4. QED
    BY <2>3 DEF Store!Next
<1>16. CASE WriteMarker
  BY <1>16 DEF WriteMarker, Goto, history, IndInv, MarkerPhases
<1>17. CASE MoveTree
  <2>1. /\ marker = "conflict" /\ session # "mounted" /\ session' # "mounted"
        /\ file["archive"] = Empty /\ UNCHANGED <<dst, marker, interventions>>
        /\ file' = [file EXCEPT !["archive"] = file["staging"], !["staging"] = Empty]
    BY <1>17 DEF MoveTree, Return, IndInv, TypeOK, MarkerPhases
  <2>2. file'["archive"] = file["staging"] /\ file'["staging"] = Empty
    BY <2>1 DEF IndInv, TypeOK, Trees
  <2>3. Store!SetAside
    BY <2>1, <2>2 DEF Store!SetAside, Store!None, Empty
  <2>4. QED
    BY <2>3 DEF Store!Next
<1>18. QED
  BY <1>1, <1>2, <1>3, <1>4, <1>5, <1>6, <1>7, <1>8, <1>9, <1>10, <1>11, <1>12, <1>13,
     <1>14, <1>15, <1>16, <1>17 DEF Promotion

\* The steps of a session, and those of users, other programs and crashes.
LEMMA OtherStepsAreStoreSteps ==
  ASSUME IndInv, IndInv', Session \/ Environment
  PROVE  [Store!Next]_Seen
<1> USE DEF Seen, Aside
<1>1. CASE Mount
  BY <1>1 DEF Mount, disk, history
<1>2. CASE Unmount
  <2>1. Store!Hide
    BY <1>2 DEF Unmount, disk, history, Store!Hide
  <2>2. QED
    BY <2>1 DEF Store!Next
<1>3. CASE UnmountDiscarding
  <2>1. file'["staging"] = Empty /\ file'["archive"] = file["archive"]
    BY <1>3 DEF UnmountDiscarding, IndInv, TypeOK, Trees
  <2>2. Store!Discard
    BY <1>3, <2>1 DEF UnmountDiscarding, Store!Discard, Store!None, Empty
  <2>3. QED
    BY <2>2 DEF Store!Next
<1>4. ASSUME NEW p \in Paths, NEW c \in Contents \cup {Partial}, session = "mounted",
             file' = [file EXCEPT !["staging"][p] = c],
             UNCHANGED <<dst, marker, session, interventions>>
      PROVE  Store!Next
  <2>1. /\ file'["staging"] = [file["staging"] EXCEPT ![p] = c]
        /\ file'["archive"] = file["archive"]
    BY <1>4 DEF IndInv, TypeOK, Trees
  <2>2. Store!Accept(p, c)
    BY <1>4, <2>1 DEF Store!Accept
  <2>3. QED
    BY <1>4, <2>2 DEF Store!Next
<1>5. ASSUME NEW p \in Paths, CopyOnWriteBegin(p)
      PROVE  Store!Next
  BY <1>4, <1>5 DEF CopyOnWriteBegin, history
<1>6. ASSUME NEW p \in Paths, NEW c \in Contents, StageWrite(p, c) \/ CopyOnWriteEnd(p, c)
      PROVE  Store!Next
  <2>1. session = "mounted"
    BY <1>6 DEF StageWrite, CopyOnWriteEnd, IndInv, TypeOK
  <2>2. QED
    BY <1>4, <1>6, <2>1 DEF StageWrite, CopyOnWriteEnd, memory
<1>7. ASSUME Throw, UNCHANGED <<dst, file, marker, interventions>>
      PROVE  [Store!Next]_Seen
  <2>1. CASE session = "mounted"
    <3>1. Store!Hide
      BY <1>7, <2>1 DEF Throw, Store!Hide
    <3>2. QED
      BY <3>1 DEF Store!Next
  <2>2. CASE session # "mounted"
    BY <1>7, <2>2 DEF Throw
  <2>3. QED
    BY <2>1, <2>2
<1>8. CASE Crash \/ CopyVerifiedFails
  BY <1>7, <1>8 DEF Crash, CopyVerifiedFails, disk
<1>9. ASSUME NEW p \in Paths, CopyOnWriteFails(p)
      PROVE  UNCHANGED Seen
  BY <1>9 DEF CopyOnWriteFails, disk
<1>10. ASSUME session = "down", session' = "down", interventions' = interventions + 1,
              UNCHANGED file["staging"],
              \/ UNCHANGED <<file["archive"], marker>>
              \/ marker # "none" /\ marker' = "none"
       PROVE  Store!Next
  <2>1. dst' \in [Dests -> Store!Files]
    BY DEF IndInv, TypeOK, Store!Files, Stored
  <2>2. Store!Outside
    BY <1>10, <2>1 DEF Store!Outside, Store!None, Empty
  <2>3. QED
    BY <2>2 DEF Store!Next
<1>11. ASSUME NEW d \in Dests, NEW p \in Paths, NEW c \in Contents \cup {Absent}, Edit(d, p, c)
       PROVE  Store!Next
  BY <1>10, <1>11 DEF Edit, memory
<1>12. ASSUME NEW d \in Dests, Reconfigure(d)
       PROVE  Store!Next
  BY <1>10, <1>12 DEF Reconfigure, memory, disk
<1>13. ASSUME NEW kept \in SUBSET Paths, Reconcile(kept)
       PROVE  Store!Next
  <2>1. UNCHANGED file["staging"]
    BY <1>13 DEF Reconcile, IndInv, TypeOK, Trees
  <2>2. QED
    BY <1>10, <1>13, <2>1 DEF Reconcile, memory
<1>14. QED
  BY <1>1, <1>2, <1>3, <1>5, <1>6, <1>8, <1>9, <1>11, <1>12, <1>13 DEF Session, Environment

\* Promotion implements the store: with its journals, markers and durable steps, and
\* interrupted between any two of them, it does nothing to destinations, staged files and
\* what is set aside but what WriteBackStore does.
THEOREM PromotionIsStore == Spec => ImplementsStore
<1>1. IndInv /\ IndInv' /\ [Next]_vars => [Store!Next]_Seen
  <2>1. UNCHANGED vars => UNCHANGED Seen
    BY DEF vars, disk, memory, history, promo, Seen, Aside
  <2>2. QED
    BY <2>1, PromotionIsStoreStep, OtherStepsAreStoreSteps DEF Next
<1>2. QED
  BY <1>1, StoreInit, InvariantHolds, PTL DEF Spec, ImplementsStore, Store!Spec, Store!vars, Seen, Aside
-----------------------------------------------------------------------------
(* What crashes alone do not do.                                            *)

\* Whether the journal of tree t still counts: that of the archive does while there is
\* a marker.
Counted(t) == journal[t] # NoJournal /\ (t = "archive" => marker # "none")

\* Each entry of j is installed, or can be from tree t.
Replayable(j, t) ==
    \A p \in Entries(j) :
        \/ dst[j.dest][p] = j.digest[p]
        \/ file[t][p] = j.digest[p] /\ dst[j.dest][p] = j.previous[p]

\* All journals are for the configured destination and can be replayed to their end, and
\* no journaled tree is archived.
JournalsReplayable ==
    /\ \A t \in Trees : Counted(t) => journal[t].dest = conf /\ Replayable(journal[t], t)
    /\ pc \in Working => jrn.dest = conf /\ Replayable(jrn, src)
    /\ pc \in {"createMarker", "writeMarker", "moveTree"} => journal["staging"] = NoJournal
    /\ marker = "conflict" => journal["archive"] = NoJournal

\* A temporary copy is that of an entry which is not installed yet.
Pending(x, t) ==
    /\ Counted(t)
    /\ \E p \in Entries(journal[t]) :
          x = <<conf, p, journal[t].digest[p]>> /\ dst[conf][p] # journal[t].digest[p]
CopiesPending == \A x \in tmp : \E t \in Trees : Pending(x, t)

\* As long as nobody has intervened.
Undisturbed == interventions = 0 => JournalsReplayable /\ CopiesPending

\* No step of a user or another program is without an intervention.
LEMMA StepsWithoutIntervention ==
  ASSUME IndInv, Next, interventions' = 0
  PROVE  /\ interventions = 0 /\ conf' = conf
         /\ \/ Promotion \/ Session
            \/ Crash \/ CopyVerifiedFails \/ \E p \in Paths : CopyOnWriteFails(p)
<1>1. interventions \in Nat
  BY DEF IndInv, TypeOK
<1>2. ~\E d \in Dests, p \in Paths, c \in Contents \cup {Absent} : Edit(d, p, c)
  BY <1>1 DEF Edit
<1>3. ~\E d \in Dests : Reconfigure(d)
  BY <1>1 DEF Reconfigure
<1>4. ~\E kept \in SUBSET Paths : Reconcile(kept)
  BY <1>1 DEF Reconcile
<1>5. Promotion \/ Session \/ Crash \/ CopyVerifiedFails \/ \E p \in Paths : CopyOnWriteFails(p)
  BY <1>2, <1>3, <1>4 DEF Next, Environment
<1>6. UNCHANGED <<conf, interventions>>
  <2>1. CASE Promotion
    BY <2>1 DEF Promotion, NothingToDo, PromoteJournals, BlockedByMarker, RecoverJournals,
       RecoverArchives, RecoverReplays, ResumeArchive, CreateJournalTemp, JournalTempExists,
       PublishJournal, ReplaySkip, ReplayCopy, ReplayBlock, CopyVerifiedInstall, ReplayDone,
       ClearMarker, RemoveEntry, RemoveDone, CreateMarker, WriteMarker, MoveTree, history
  <2>2. CASE Session
    BY <2>2 DEF Session, Mount, Unmount, UnmountDiscarding, CopyOnWriteBegin, StageWrite,
       CopyOnWriteEnd, history
  <2>3. CASE Crash \/ CopyVerifiedFails \/ \E p \in Paths : CopyOnWriteFails(p)
    BY <2>3 DEF Crash, CopyVerifiedFails, CopyOnWriteFails
  <2>4. QED
    BY <1>5, <2>1, <2>2, <2>3
<1>7. QED
  BY <1>5, <1>6

\* A step that leaves the disk alone and takes up no journal.
LEMMA QuietUndisturbed ==
  ASSUME Undisturbed, interventions' = 0, interventions = 0, conf' = conf,
         UNCHANGED <<dst, tmp, file, journal, marker>>,
         pc' \in Working => pc \in Working /\ UNCHANGED <<jrn, src>>,
         pc' \in {"createMarker", "writeMarker", "moveTree"} => journal["staging"] = NoJournal
  PROVE  Undisturbed'
<1>1. JournalsReplayable'
  BY DEF Undisturbed, JournalsReplayable, Counted, Replayable, Entries
<1>2. CopiesPending'
  BY DEF Undisturbed, CopiesPending, Pending, Counted, Entries
<1>3. QED
  BY <1>1, <1>2 DEF Undisturbed

\* The promotion begins with a journal that can be replayed.
LEMMA StartsUndisturbed ==
  ASSUME Undisturbed, interventions' = 0, interventions = 0, conf' = conf,
         UNCHANGED <<dst, tmp, file, journal, marker>>, NEW j, NEW t \in Trees,
         jrn' = j, src' = t, pc' \in Working,
         j.dest = conf /\ Replayable(j, t)
  PROVE  Undisturbed'
<1>1. JournalsReplayable'
  BY DEF Undisturbed, JournalsReplayable, Counted, Replayable, Entries, Working
<1>2. CopiesPending'
  BY DEF Undisturbed, CopiesPending, Pending, Counted, Entries
<1>3. QED
  BY <1>1, <1>2 DEF Undisturbed

\* A journal that was just made can be replayed.
LEMMA BuiltReplayable ==
  ASSUME NEW t \in Trees, NEW d \in Dests
  PROVE  buildJournal(t, d).dest = d /\ Replayable(buildJournal(t, d), t)
BY DEF buildJournal, Replayable, Entries

\* Nothing is temporary once no journal counts.
LEMMA NoCopies ==
  ASSUME CopiesPending, \A t \in Trees : ~Counted(t)
  PROVE  tmp = {}
BY DEF CopiesPending, Pending

\* The branches of promote and recover.
LEMMA BranchUndisturbed ==
  ASSUME IndInv, Undisturbed, interventions' = 0, interventions = 0, conf' = conf,
         \/ NothingToDo \/ PromoteJournals \/ BlockedByMarker \/ RecoverJournals
         \/ RecoverArchives \/ RecoverReplays \/ ResumeArchive
  PROVE  Undisturbed'
<1>0. conf \in Dests /\ JournalsReplayable
  BY DEF IndInv, TypeOK, Undisturbed
<1>1. CASE NothingToDo \/ BlockedByMarker
  BY <1>1, QuietUndisturbed DEF NothingToDo, BlockedByMarker, Return, Idle, disk, Working
<1>2. CASE PromoteJournals \/ RecoverJournals
  BY <1>0, <1>2, BuiltReplayable, StartsUndisturbed
     DEF PromoteJournals, RecoverJournals, StartJournal, disk, Trees, Working
<1>3. CASE RecoverReplays
  <2>1. journal["staging"].dest = conf /\ Replayable(journal["staging"], "staging")
    BY <1>0, <1>3 DEF RecoverReplays, JournalsReplayable, Counted, Trees
  <2>2. QED
    BY <1>3, <2>1, StartsUndisturbed DEF RecoverReplays, StartReplay, disk, Trees, Working
<1>4. CASE RecoverArchives
  <2>1. journal["staging"] = NoJournal
    BY <1>0, <1>4 DEF RecoverArchives, JournalsReplayable, Counted, Trees
  <2>2. QED
    BY <1>4, <2>1, QuietUndisturbed DEF RecoverArchives, Goto, disk, Working
<1>5. CASE ResumeArchive
  <2>0. PICK t : t = ArchivedSource
    OBVIOUS
  <2>1. t \in Trees /\ marker = "unjournaled" /\ UNCHANGED <<dst, tmp, file, journal, marker>>
    BY <1>5, <2>0 DEF ResumeArchive, ArchivedSource, Trees, disk
  <2>2. CASE Idle
    BY <1>5, <2>1, <2>2, QuietUndisturbed DEF Idle, Working
  <2>3. CASE journal[t] # NoJournal /\ StartReplay(t, journal[t], TRUE)
    <3>1. journal[t].dest = conf /\ Replayable(journal[t], t)
      BY <1>0, <2>1, <2>3 DEF JournalsReplayable, Counted
    <3>2. QED
      BY <2>1, <2>3, <3>1, StartsUndisturbed DEF StartReplay, Working
  <2>4. CASE StartJournal(t, buildJournal(t, conf), TRUE)
    BY <1>0, <2>1, <2>4, BuiltReplayable, StartsUndisturbed DEF StartJournal, Working
  <2>5. QED
    BY <1>5, <2>0, <2>2, <2>3, <2>4 DEF ResumeArchive, Throw, Return
<1>6. QED
  BY <1>1, <1>2, <1>3, <1>4, <1>5

\* The journal is written.
LEMMA PublishUndisturbed ==
  ASSUME IndInv, Undisturbed, interventions' = 0, interventions = 0, conf' = conf,
         PublishJournal
  PROVE  Undisturbed'
<1>1. /\ journal' = [journal EXCEPT ![src] = jrn] /\ UNCHANGED <<dst, tmp, file, marker, jrn, src>>
      /\ pc = "publishJournal" /\ pc' = "replay" /\ src \in Trees /\ jrn \in Journal
      /\ journal \in [Trees -> Journal \cup {NoJournal}] /\ marker # "conflict"
      /\ journal[src] = NoJournal
  BY DEF PublishJournal, Goto, IndInv, TypeOK, Working, MarkerPhases, JournalOnDisk
<1>2. \A t \in Trees : journal'[t] = IF t = src THEN jrn ELSE journal[t]
  BY <1>1
<1>3. JournalsReplayable /\ CopiesPending
  BY DEF Undisturbed
<1>4. JournalsReplayable'
  BY <1>1, <1>2, <1>3 DEF JournalsReplayable, Counted, Replayable, Entries, Working
<1>5. CopiesPending'
  <2>1. ASSUME NEW x \in tmp, NEW t \in Trees, Pending(x, t)
        PROVE  Pending(x, t)'
    BY <1>1, <1>2, <2>1 DEF Pending, Counted, Entries
  <2>2. QED
    BY <1>1, <1>3, <2>1 DEF CopiesPending
<1>6. QED
  BY <1>4, <1>5 DEF Undisturbed

\* Replay never blocks, and the copy it makes is of the entry it installs.
LEMMA ReplayUndisturbed ==
  ASSUME IndInv, Undisturbed, interventions' = 0, interventions = 0, conf' = conf,
         NEW p \in Paths, ReplaySkip(p) \/ ReplayCopy(p) \/ ReplayBlock(p)
  PROVE  Undisturbed'
<1>1. /\ pc = "replay" /\ p \in todo /\ todo \subseteq Entries(jrn) /\ jrn \in Journal
      /\ journal[src] = jrn /\ src \in Trees /\ (src = "archive" => marker # "none")
      /\ JournalsReplayable /\ CopiesPending
  BY DEF ReplaySkip, ReplayCopy, ReplayBlock, IndInv, TypeOK, Working, JournalOnDisk,
         Undisturbed, TreesApart, MarkerPhases
<1>2. jrn.dest = conf /\ (Installed(p) \/ Replaceable(p))
  BY <1>1 DEF JournalsReplayable, Replayable, Installed, Replaceable, Working
<1>3. CASE ReplaySkip(p)
  BY <1>1, <1>3, QuietUndisturbed DEF ReplaySkip, disk, Working
<1>4. CASE ReplayCopy(p)
  <2>1. /\ UNCHANGED <<dst, file, journal, marker, jrn, src>> /\ pc' = "install"
        /\ tmp' = tmp \cup {<<conf, p, jrn.digest[p]>>} /\ ~Installed(p)
    BY <1>2, <1>4 DEF ReplayCopy
  <2>2. JournalsReplayable'
    BY <1>1, <2>1 DEF JournalsReplayable, Counted, Replayable, Entries, Working
  <2>3. Pending(<<conf, p, jrn.digest[p]>>, src)
    BY <1>1, <1>2, <2>1, SentinelAssumption DEF Pending, Counted, Installed, Journal, Stored
  <2>4. \A x, t : Pending(x, t)' <=> Pending(x, t)
    BY <2>1 DEF Pending, Counted, Entries
  <2>5. QED
    BY <1>1, <2>1, <2>2, <2>3, <2>4 DEF CopiesPending, Undisturbed
<1>5. QED
  BY <1>2, <1>3, <1>4 DEF ReplayBlock

\* An entry is installed: its copy is gone, and the journal of the other tree, if there
\* is one, does not count.
LEMMA InstallUndisturbed ==
  ASSUME IndInv, Undisturbed, interventions' = 0, interventions = 0, conf' = conf,
         CopyVerifiedInstall
  PROVE  Undisturbed'
<1>1. /\ pc = "install" /\ pc' = "replay" /\ UNCHANGED <<file, journal, marker, jrn, src>>
      /\ dst' = [dst EXCEPT ![jrn.dest][cur] = jrn.digest[cur]]
      /\ tmp' = tmp \ {<<jrn.dest, cur, jrn.digest[cur]>>}
      /\ cur \in Paths /\ src \in Trees /\ jrn \in Journal /\ journal[src] = jrn
      /\ marker # "conflict" /\ JournalsReplayable /\ CopiesPending
      /\ dst \in [Dests -> [Paths -> Stored]]
  BY DEF CopyVerifiedInstall, IndInv, TypeOK, Working, JournalOnDisk, Undisturbed, MarkerPhases
<1>2. \A t \in Trees : Counted(t) => t = src
  <2>1. marker = "none" => src = "staging"
    BY <1>1 DEF IndInv, TreesApart, MarkerPhases, Working
  <2>2. marker # "none" => marker = "unjournaled" /\ resume
    BY <1>1 DEF IndInv, MarkerPhases, Working
  <2>3. \A t \in Trees : journal[t] # NoJournal => hasPayload(t)
    BY DEF hasPayload
  <2>4. QED
    BY <1>1, <2>1, <2>2, <2>3 DEF IndInv, TreesApart, Counted, Trees
<1>3. jrn.dest = conf /\ conf \in Dests
  BY <1>1 DEF JournalsReplayable, Working, IndInv, TypeOK
<1>4. \A p \in Paths : dst'[conf][p] = IF p = cur THEN jrn.digest[p] ELSE dst[conf][p]
  BY <1>1, <1>3
<1>5. Entries(jrn) \subseteq Paths /\ Replayable(jrn, src)
  BY <1>1 DEF Entries, JournalsReplayable, Working
<1>6. Replayable(jrn, src)'
  BY <1>1, <1>3, <1>4, <1>5 DEF Replayable, Entries
<1>7. JournalsReplayable'
  <2>1. \A t \in Trees : Counted(t)' => t = src
    BY <1>1, <1>2 DEF Counted
  <2>2. QED
    BY <1>1, <1>3, <1>6, <2>1 DEF JournalsReplayable, Working
<1>8. CopiesPending'
  <2>1. ASSUME NEW x \in tmp'
        PROVE  Pending(x, src)'
    <3>1. Pending(x, src)
      BY <1>1, <1>2, <2>1 DEF CopiesPending, Pending
    <3>2. PICK p \in Entries(jrn) :
             x = <<conf, p, jrn.digest[p]>> /\ dst[conf][p] # jrn.digest[p]
      BY <1>1, <3>1 DEF Pending
    <3>3. p # cur
      BY <1>1, <1>3, <2>1, <3>2
    <3>4. QED
      BY <1>1, <1>4, <1>5, <3>1, <3>2, <3>3 DEF Pending, Counted, Entries
  <2>2. QED
    BY <1>1, <2>1 DEF CopiesPending
<1>9. QED
  BY <1>7, <1>8 DEF Undisturbed

\* The clean-up: all is installed, so that no copy is left and nothing needs its file.
LEMMA CleanUpUndisturbed ==
  ASSUME IndInv, Undisturbed, interventions' = 0, interventions = 0, conf' = conf,
         ClearMarker \/ RemoveEntry
  PROVE  Undisturbed'
<1>1. /\ pc \in {"clearMarker", "removeTree"} /\ pc' = "removeTree"
      /\ UNCHANGED <<dst, tmp, jrn, src>> /\ marker' = "none" /\ src \in Trees
      /\ jrn \in Journal /\ journal[src] \in {jrn, NoJournal}
      /\ JournalsReplayable /\ CopiesPending
      /\ journal \in [Trees -> Journal \cup {NoJournal}] /\ file \in [Trees -> [Paths -> Stored]]
  BY DEF ClearMarker, RemoveEntry, Goto, memory, promo, IndInv, TypeOK, Working, JournalOnDisk,
         MarkerPhases, Undisturbed
<1>2. \A p \in Entries(jrn) : dst[jrn.dest][p] = jrn.digest[p]
  BY <1>1, AllInstalled
<1>3. jrn.dest = conf
  BY <1>1 DEF JournalsReplayable, Working
<1>4. \A t \in Trees : journal'[t] \in {journal[t], NoJournal}
  BY <1>1 DEF ClearMarker, RemoveEntry
<1>5. \A t \in Trees : t # src => journal'[t] = journal[t] /\ file'[t] = file[t]
  BY <1>1 DEF ClearMarker, RemoveEntry
<1>6. \A t \in Trees : Counted(t)' => Counted(t) /\ journal'[t] = journal[t]
  BY <1>1, <1>4 DEF Counted
<1>7. JournalsReplayable'
  <2>1. Replayable(jrn, src)'
    BY <1>1, <1>2 DEF Replayable, Entries
  <2>2. ASSUME NEW t \in Trees, Counted(t)'
        PROVE  journal'[t].dest = conf /\ Replayable(journal[t], t)'
    <3>1. CASE t = src
      BY <1>1, <1>3, <1>6, <2>1, <2>2, <3>1 DEF Counted, Replayable, Entries
    <3>2. CASE t # src
      BY <1>1, <1>5, <1>6, <2>2, <3>2 DEF JournalsReplayable, Replayable, Entries
    <3>3. QED
      BY <3>1, <3>2
  <2>3. QED
    BY <1>1, <1>3, <2>1, <2>2 DEF JournalsReplayable, Working
<1>8. tmp = {}
  <2>1. ASSUME NEW x \in tmp, NEW t \in Trees, Pending(x, t)
        PROVE  FALSE
    <3>1. CASE t = src
      BY <1>1, <1>2, <1>3, <2>1, <3>1 DEF Pending, Counted
    <3>2. CASE t # src
      BY <1>1, <2>1, <3>2 DEF Pending, Counted, IndInv, MarkerPhases, TreesApart, hasPayload, Trees
    <3>3. QED
      BY <3>1, <3>2
  <2>2. QED
    BY <1>1, <2>1 DEF CopiesPending
<1>9. QED
  BY <1>1, <1>7, <1>8 DEF Undisturbed, CopiesPending

\* What is archived has no journal, hence no copies.
LEMMA ArchiveUndisturbed ==
  ASSUME IndInv, Undisturbed, interventions' = 0, interventions = 0, conf' = conf,
         CreateMarker \/ WriteMarker \/ MoveTree
  PROVE  Undisturbed'
<1>1. /\ pc \in {"createMarker", "writeMarker", "moveTree"} /\ UNCHANGED <<dst, tmp>>
      /\ pc' \notin Working /\ JournalsReplayable /\ CopiesPending
      /\ journal["staging"] = NoJournal
      /\ pc = "createMarker" => marker = "none"
      /\ pc # "createMarker" => journal["archive"] = NoJournal
      /\ journal \in [Trees -> Journal \cup {NoJournal}]
  BY DEF CreateMarker, WriteMarker, MoveTree, Goto, Return, Idle, Working, IndInv, TypeOK,
         Undisturbed, JournalsReplayable, MarkerPhases
<1>2. tmp = {}
  BY <1>1, NoCopies DEF Counted, Trees
<1>3. journal' = [t \in Trees |-> NoJournal]
  BY <1>1 DEF CreateMarker, WriteMarker, MoveTree, Trees
<1>4. QED
  BY <1>1, <1>2, <1>3 DEF Undisturbed, JournalsReplayable, CopiesPending, Counted, Trees

\* In a session there is no journal, and what programs stage needs none.
LEMMA SessionUndisturbed ==
  ASSUME IndInv, Undisturbed, interventions' = 0, interventions = 0, conf' = conf, Session
  PROVE  Undisturbed'
<1>1. CASE Mount \/ Unmount
  BY <1>1, QuietUndisturbed DEF Mount, Unmount, disk, Working
<1>2. CASE ~(Mount \/ Unmount)
  <2>1. /\ session = "mounted" /\ marker = "none" /\ pc = "idle" /\ journal["staging"] = NoJournal
        /\ UNCHANGED <<dst, tmp, journal, marker, pc>> /\ CopiesPending
    BY <1>2 DEF Session, UnmountDiscarding, CopyOnWriteBegin, StageWrite, CopyOnWriteEnd,
            memory, promo, IndInv, TypeOK, MarkerPhases, TreesApart, Undisturbed
  <2>2. tmp = {}
    BY <2>1, NoCopies DEF Counted, Trees
  <2>3. QED
    BY <2>1, <2>2 DEF Undisturbed, JournalsReplayable, CopiesPending, Counted, Trees, Working
<1>3. QED
  BY <1>1, <1>2

\* Crashes and failures lose what is in memory; a failed copy is unlinked.
LEMMA FailureUndisturbed ==
  ASSUME IndInv, Undisturbed, interventions' = 0, interventions = 0, conf' = conf,
         Crash \/ CopyVerifiedFails \/ \E p \in Paths : CopyOnWriteFails(p)
  PROVE  Undisturbed'
<1>1. CASE Crash
  BY <1>1, QuietUndisturbed DEF Crash, Throw, Idle, disk, Working
<1>2. CASE \E p \in Paths : CopyOnWriteFails(p)
  <2>1. UNCHANGED <<dst, tmp, file, journal, marker, pc, jrn, src>>
    BY <1>2 DEF CopyOnWriteFails, disk, promo
  <2>2. QED
    BY <2>1, QuietUndisturbed DEF Undisturbed, JournalsReplayable
<1>3. CASE CopyVerifiedFails
  <2>1. /\ tmp' \subseteq tmp /\ UNCHANGED <<dst, file, journal, marker>> /\ pc' = "idle"
        /\ JournalsReplayable /\ CopiesPending
    BY <1>3 DEF CopyVerifiedFails, Throw, Idle, Undisturbed
  <2>2. JournalsReplayable'
    BY <2>1 DEF JournalsReplayable, Counted, Replayable, Entries, Working
  <2>3. CopiesPending'
    BY <2>1 DEF CopiesPending, Pending, Counted, Entries
  <2>4. QED
    BY <2>2, <2>3 DEF Undisturbed
<1>4. QED
  BY <1>1, <1>2, <1>3

\* Undisturbed is inductive.
LEMMA UndisturbedInductive ==
  /\ Init => Undisturbed
  /\ IndInv /\ Undisturbed /\ [Next]_vars => Undisturbed'
<1>1. Init => Undisturbed
  BY DEF Init, Undisturbed, JournalsReplayable, CopiesPending, Counted, Trees, Working
<1>2. ASSUME IndInv, Undisturbed, UNCHANGED vars
      PROVE  Undisturbed'
  <2>1. UNCHANGED <<dst, tmp, file, journal, marker, pc, jrn, src, conf, interventions>>
    BY <1>2 DEF vars, disk, memory, promo, history
  <2>2. QED
    BY <1>2, <2>1, QuietUndisturbed DEF Undisturbed, JournalsReplayable
<1>3. ASSUME IndInv, Undisturbed, Next, interventions' = 0
      PROVE  Undisturbed'
  <2>1. interventions = 0 /\ conf' = conf
    BY <1>3, StepsWithoutIntervention
  <2>2. CASE CreateJournalTemp \/ JournalTempExists \/ ReplayDone \/ RemoveDone
    BY <1>3, <2>1, <2>2, QuietUndisturbed
       DEF CreateJournalTemp, JournalTempExists, ReplayDone, RemoveDone, Goto, Throw, Return,
           Idle, disk, Working
  <2>3. CASE Promotion
    BY <1>3, <2>1, <2>2, <2>3, BranchUndisturbed, PublishUndisturbed, ReplayUndisturbed,
       InstallUndisturbed, CleanUpUndisturbed, ArchiveUndisturbed DEF Promotion
  <2>4. QED
    BY <1>3, <2>1, <2>3, StepsWithoutIntervention, SessionUndisturbed, FailureUndisturbed
<1>4. QED
  BY <1>1, <1>2, <1>3 DEF Undisturbed

\* Crashes and failures alone never turn a journaled promotion into a conflict: any number
\* of launches that are cut short is replayed by one that is not, and leaves no temporary
\* copy behind.
THEOREM CrashesAreReplayed == Spec => []CrashAloneNeverBlocks
<1>1. IndInv /\ Undisturbed => CrashAloneNeverBlocks
  <2> SUFFICES ASSUME IndInv, Undisturbed, interventions = 0
               PROVE  /\ marker = "conflict" => journal["archive"] = NoJournal
                      /\ session = "mounted" => tmp = {}
    BY DEF CrashAloneNeverBlocks
  <2>1. JournalsReplayable /\ CopiesPending
    BY DEF Undisturbed
  <2>2. ASSUME session = "mounted"
        PROVE  marker = "none" /\ journal["staging"] = NoJournal
    BY <2>2 DEF IndInv, TypeOK, MarkerPhases, TreesApart
  <2>3. QED
    BY <2>1, <2>2, NoCopies DEF JournalsReplayable, Counted, Trees
<1>2. QED
  BY <1>1, UndisturbedInductive, InvariantHolds, PTL DEF Spec
=============================================================================
