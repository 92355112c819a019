SPECIFICATION Spec
CONSTANTS
  cl = cl
  sv = sv
  Client = cl
  Server = sv
  Mod = 28
  Isn <- MCIsn
  Mss = 2
  Cwnds = {5}
  SndCap = 5
  MaxOoo = 6
  MaxRtx = 2
  DupThreshold = 1
  Workloads <- MCSlowReader
CHECK_DEADLOCK FALSE
PROPERTY
  AbortMeansUnreachable
