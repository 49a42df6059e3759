SPECIFICATION Spec
CONSTANTS
  l1 = l1
  l2 = l2
  Launches = {l1, l2}
  Stranger = Stranger
  Habits = {}
  MaxProcs = 2
  MaxFaults = 0
CHECK_DEADLOCK FALSE
INVARIANT ServedWhileRunning
