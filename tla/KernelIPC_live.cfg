SPECIFICATION FairSpec
CONSTANTS
  t1 = t1
  t2 = t2
  t3 = t3
  p1 = p1
  UserTasks = {t1, t2, t3}
  Procs = {p1}
  Idle = Idle
  Shell = Shell
  NoProc = NoProc
  PipeSize = 1
  Byte = {0}
  Writes <- MCLiveWrites
  Reads = {1}
  NumFds = 2
  MaxEnds = 2
  MaxTasks <- MCMaxTasks
  SemMax = 2
  Workloads = {"pipe", "kill"}
PROPERTIES EveryReadyTaskRuns KilledTaskDies
