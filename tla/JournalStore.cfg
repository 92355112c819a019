CONSTANTS
  a = a
  b = b
  Home <- MCHome
  Value <- MCValue
  JournalBlocks = 3
  FaultModels <- MCFaultModels
SPECIFICATION FairSpec
INVARIANTS
  CrashAtomic
  IdleReadsDurable
  ReportNeverMismatches
PROPERTIES
  NoRollback
  ImplementsAtomicStore
  RecoveryCompletes
