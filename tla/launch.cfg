SPECIFICATION Spec
CONSTANTS
  l1 = l1
  Launches = {l1}
  Stranger = Stranger
  Habits = {"browse", "quit"}
  MaxProcs = 3
  MaxFaults = 2
CHECK_DEADLOCK FALSE
INVARIANT TypeOK
INVARIANT CompletedMeansGone
PROPERTY UnlockedMeansKilled
PROPERTY OwnGameServed
PROPERTY UnlockSparesOthers
PROPERTY WaitEnds
