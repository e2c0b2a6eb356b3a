SPECIFICATION FairAppSpec
CONSTANTS
  Users = {u1}
  Names = {n1}
  ContainerIds = {c1}
  JobIds = {j1, j2, j3}
  DockerIds = {d1}
  Handlers = {h1, h2}
  Workers = {w1, w2}
  Procs = {p1}
  NoDocker = NoDocker
  Nobody = Nobody
  Cap = 3
  EarlyAccess = FALSE
  LateBoot = FALSE
  MaxFaults = 0
  MaxCrashes = 1
  MaxRemovals = 1
  MaxCleanups = 1
INVARIANTS
  StoppedIsIdle
  ActiveIsHeld
PROPERTIES
  JobsEnd
