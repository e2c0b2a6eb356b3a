SPECIFICATION Spec
SYMMETRY Symmetry
CONSTANTS
  Rows = {r1, r2, r3}
  MaxTime = 3
  DefaultLimit = 1
  MaxLimit = 2
  MaxInt = 7
  Limits <- MCLimits
INVARIANTS
  TypeOK
  PageIsRight
  NothingMissed
  NothingTwice
