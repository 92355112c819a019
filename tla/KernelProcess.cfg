SPECIFICATION Spec
CONSTANTS
  t1 = t1
  t2 = t2
  t3 = t3
  UserTasks = {t1, t2, t3}
  Idle = Idle
  Shell = Shell
  NoTask = NoTask
  NumSlots = 2
  PidMax = 3
  NumSleeps = 1
  MaxTasks <- MCMaxTasks
  Workloads = {"family", "signal", "shell"}
  Overlap = FALSE
SYMMETRY MCSymmetry
INVARIANTS TypeOK UniquePids AddressSpaceAlive TeardownExact ZombieHasParent WaitReapsOwnChild NoMissedWakeup
