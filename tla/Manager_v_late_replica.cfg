SPECIFICATION Spec
SYMMETRY Symmetry
CONSTANTS
  Users = {u1}
  Names = {n1}
  ContainerIds = {c1}
  JobIds = {j1, j2}
  DockerIds = {d1}
  Handlers = {h1, h2}
  Workers = {w1}
  Procs = {p1, p2}
  NoDocker = NoDocker
  Nobody = Nobody
  Cap = 2
  EarlyAccess = FALSE
  LateBoot = TRUE
  MaxFaults = 0
  MaxCrashes = 0
  MaxRemovals = 0
  MaxCleanups = 0
INVARIANTS
  WorkersApart
