SPECIFICATION FairSpec
CONSTANTS
  cl = cl
  sv = sv
  Client = cl
  Server = sv
  Mod = 28
  Isn <- MCIsn
  Mss = 2
  Cwnds = {2, 5}
  SndCap = 5
  MaxOoo = 1
  MaxRtx = 1
  DupThreshold = 1
  Workloads <- MCLoads
CHECK_DEADLOCK FALSE
INVARIANTS
  TypeOK
  StreamIntegrity
  ReceiveBounded
  UnackedIsTracked
  AckedIsHeld
PROPERTIES
  WrittenIsRead
  HandshakesFinish
