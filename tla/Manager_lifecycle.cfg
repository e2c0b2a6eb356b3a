SPECIFICATION Spec
SYMMETRY Symmetry
CONSTANTS
  Users = {u1, u2}
  Names = {n1}
  ContainerIds = {c1}
  JobIds = {j1, j2, j3, j4}
  DockerIds = {d1}
  Handlers = {h1, h2}
  Workers = {w1, w2}
  Procs = {p1}
  NoDocker = NoDocker
  Nobody = Nobody
  Cap = 4
  EarlyAccess = FALSE
  LateBoot = FALSE
  MaxFaults = 0
  MaxCrashes = 0
  MaxRemovals = 1
  MaxCleanups = 1
INVARIANTS
  JobBelongsToOwner
  NoOrphanDocker
  RunningIsRecorded
  DeleteSucceedsFully
PROPERTIES
  DeletesOnlyStopped
