CONSTANTS
  a = a
  b = b
  Block <- MCBlock
  Value <- MCValue
SYMMETRY Contents
SPECIFICATION Spec
INVARIANTS
  Coherent
  CleanIsDurable
  DurableIsRecent
