SPECIFICATION Spec
SYMMETRY Symmetry
CONSTANTS
  Users = {u1}
  Names = {n1}
  ContainerIds = {c1}
  JobIds = {j1, j2}
  DockerIds = {d1}
  Handlers = {h1, h2}
  Workers = {w1, w2}
  Procs = {p1}
  NoDocker = NoDocker
  Nobody = Nobody
  Cap = 2
  EarlyAccess = FALSE
  LateBoot = FALSE
  MaxFaults = 0
  MaxCrashes = 1
  MaxRemovals = 0
  MaxCleanups = 0
INVARIANTS
  FinishedHasCompletedAt
