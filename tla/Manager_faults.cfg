SPECIFICATION Spec
SYMMETRY Symmetry
CONSTANTS
  Users = {u1}
  Names = {n1}
  ContainerIds = {c1}
  JobIds = {j1, j2, j3}
  DockerIds = {d1, d2}
  Handlers = {h1, h2}
  Workers = {w1, w2}
  Procs = {p1}
  NoDocker = NoDocker
  Nobody = Nobody
  Cap = 3
  EarlyAccess = FALSE
  LateBoot = FALSE
  MaxFaults = 2
  MaxCrashes = 1
  MaxRemovals = 0
  MaxCleanups = 1
INVARIANTS
  TypeOK
  StopHasDockerId
  HeldOnce
  HeldIsActive
  OneActiveJob
  WorkersApart
PROPERTIES
  ResultsAreFinal
  ImplementsJobs
