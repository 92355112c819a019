CONSTANTS
  blank = blank
  x = x
  Setups <- MCSetups
  Size = 2
  Item <- MCItem
  Blank = blank
SPECIFICATION Spec
INVARIANTS
  FormattedIsEmpty
