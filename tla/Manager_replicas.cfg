SPECIFICATION Spec
SYMMETRY Symmetry
CONSTANTS
  Users = {u1, u2}
  Names = {n1}
  ContainerIds = {c1, c2}
  JobIds = {j1, j2, j3}
  DockerIds = {d1, d2}
  Handlers = {h1, h2}
  Workers = {w1}
  Procs = {p1, p2}
  NoDocker = NoDocker
  Nobody = Nobody
  Cap = 3
  EarlyAccess = TRUE
  LateBoot = FALSE
  MaxFaults = 1
  MaxCrashes = 0
  MaxRemovals = 0
  MaxCleanups = 0
INVARIANTS
  OneActiveGuardedJob
  WorksForOwner
