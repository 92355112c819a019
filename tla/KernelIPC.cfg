SPECIFICATION Spec
CONSTANTS
  t1 = t1
  t2 = t2
  t3 = t3
  p1 = p1
  p2 = p2
  UserTasks = {t1, t2, t3}
  Procs = {p1, p2}
  Idle = Idle
  Shell = Shell
  NoProc = NoProc
  PipeSize = 2
  Byte = {0, 1}
  Writes <- MCWrites
  Reads = {2}
  NumFds = 2
  MaxEnds = 3
  MaxTasks <- MCMaxTasks
  SemMax = 2
  Workloads = {"pipe", "kill", "sem", "shell"}
SYMMETRY MCSymmetry
INVARIANTS TypeOK ListsSound RefsExact NoMissedPipeEvent SemNeverStrands
PROPERTY ImplementsByteChannel
