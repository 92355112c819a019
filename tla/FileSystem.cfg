CONSTANTS
  a = a
  b = b
  x = x
  y = y
  root = root
  i = i
  j = j
  k = k
  Id <- MCIds4
  Root = root
  Name <- MCNames
  Data <- MCData3
  Value <- MCValue2
  MaxBatch = 2
  TableWords = 17
SYMMETRY Symmetry
SPECIFICATION Spec
INVARIANTS
  Consistent
  DirectoryTree
  PartialInstallRejected
  NoLeak
  Isolation
