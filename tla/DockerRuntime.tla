--------------------------- MODULE DockerRuntime ---------------------------
(***************************************************************************)
(* The Docker daemon as internal/repository/docker/container_runtime.go    *)
(* uses it.  A Docker container carries the name "aidms-" + container id,  *)
(* which Docker keeps unique among the containers that exist.  Its command *)
(* may end at any time, and an operator may remove it by hand.             *)
(***************************************************************************)
EXTENDS ContainerDB

VARIABLE docker

DockerUnused == [state |-> "unused"]
DockerRow == [state : {"created", "running", "exited", "removed"}, name : ContainerIds]

DockerTypeOK == docker \in [DockerIds -> DockerRow \cup {DockerUnused}]

DockerInit == docker = [d \in DockerIds |-> DockerUnused]

\* d names a container the daemon knows.
InDocker(d) == /\ d \in DockerIds
               /\ docker[d].state \in {"created", "running", "exited"}

NameInUse(c) == \E d \in DockerIds : InDocker(d) /\ docker[d].name = c

FreshDockerIds == {d \in DockerIds : docker[d].state = "unused"}
NewDockerId == CHOOSE d \in FreshDockerIds : TRUE

\* ContainerCreate, called with a name that is free
DockerCreate(d, c) == docker' = [docker EXCEPT ![d] = [state |-> "created", name |-> c]]

SetState(d, state) == docker' = [docker EXCEPT ![d] = [@ EXCEPT !.state = state]]

\* ContainerStart, ContainerStop and ContainerRemove (forced) on a known
\* container.  Starting a running container, or stopping one that is not
\* running, changes nothing and is not an error (304 Not Modified).
DockerStart(d)  == SetState(d, "running")
DockerStop(d)   == IF docker[d].state = "running" THEN SetState(d, "exited")
                   ELSE UNCHANGED docker
DockerRemove(d) == SetState(d, "removed")

\* Mutant of SyncOutcomes: every container is taken for a short-lived one.
AlwaysExited(d) == {"Exited"}

\* The status strings WaitExit and InspectState can lead syncContainerState to:
\* a container seen stopped is Exited, one seen running is Running, and one the
\* daemon cannot tell about is taken to be Running (the fallback).  A removal
\* during the wait ends it, so that it is read as an exit.
SyncOutcomes(d) ==
  CASE docker[d].state = "running" -> {"Running"}
    [] docker[d].state = "removed" -> {"Running", "Exited"}
    [] OTHER                       -> {"Exited"}

-----------------------------------------------------------------------------
\* The command of a running container ends.
DockerExit(d) ==
  /\ docker[d].state = "running"
  /\ SetState(d, "exited")
  /\ UNCHANGED <<containers, jobs, rowLock, spent>>

\* An operator removes a container with docker rm -f.
ManualRemove(d) ==
  /\ InDocker(d)
  /\ Spend("removals")
  /\ DockerRemove(d)
  /\ UNCHANGED <<containers, jobs, rowLock>>
=============================================================================
