CONSTANTS
  a = a
  b = b
  Home <- MCHome
  Value <- MCValue
  JournalBlocks = 3
  FaultModels <- MCFaultModels
SPECIFICATION Spec
INVARIANTS
  FailureAfterCommitRepairable
