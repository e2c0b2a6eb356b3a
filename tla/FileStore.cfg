SPECIFICATION Spec
SYMMETRY Symmetry
CONSTANTS
  Users = {u1, u2}
  FileIds = {f1, f2}
  Handlers = {h1, h2}
  Procs = {p1, p2}
  Nobody = Nobody
  MaxFaults = 2
  MaxCrashes = 1
  MaxRemovals = 1
  MaxCleanups = 0
INVARIANTS
  TypeOK
  RowHasFile
  NoStrayFile
  DeletesOnce
  AnswersHold
PROPERTIES
  OnlyOwnersDelete
  ImplementsLibrary
