---------------------------- MODULE ContainerDB ----------------------------
(***************************************************************************)
(* The PostgreSQL tables `containers` and `jobs` and the statements the    *)
(* repositories run on them (internal/repository/postgres).  Each          *)
(* statement is atomic.  A row is never forgotten: a deleted row keeps its *)
(* columns under the status "GONE", which no query returns, so that an     *)
(* identifier (a UUID) is used once and history can be spoken of.          *)
(***************************************************************************)
EXTENDS Environment

CONSTANTS Users,          \* rows of the users table
          Names,          \* container names a user may choose
          ContainerIds,   \* UUIDs given to containers
          JobIds,         \* UUIDs given to jobs
          DockerIds,      \* identifiers Docker gives to its containers
          NoDocker,       \* docker_container_id IS NULL
          Handlers,       \* HTTP connections, each with at most one request
          Nobody          \* no handler

ASSUME NoDockerAssumption == NoDocker \notin DockerIds
ASSUME NobodyAssumption == Nobody \notin Handlers

VARIABLES containers,     \* table containers
          jobs,           \* table jobs
          rowLock         \* the open transaction that holds SELECT ... FOR UPDATE

JobTypes == {"create", "start", "stop", "delete"}
Guarded  == {"start", "stop", "delete"}     \* inserted under the row lock
Active   == {"PENDING", "RUNNING"}
Terminal == {"SUCCESS", "FAILED"}

Unused == [status |-> "UNUSED"]             \* the UUID has not been generated

ContainerRow == [status : {"Created", "Running", "Exited", "GONE"},
                 owner : Users, name : Names, docker : DockerIds \cup {NoDocker}]

JobRow == [status : Active \cup Terminal \cup {"GONE"}, type : JobTypes,
           target : ContainerIds, user : Users, completed : BOOLEAN]

DBTypeOK ==
  /\ containers \in [ContainerIds -> ContainerRow \cup {Unused}]
  /\ jobs \in [JobIds -> JobRow \cup {Unused}]
  /\ rowLock \in [ContainerIds -> Handlers \cup {Nobody}]

DBInit == /\ containers = [c \in ContainerIds |-> Unused]
          /\ jobs = [j \in JobIds |-> Unused]
          /\ rowLock = [c \in ContainerIds |-> Nobody]

-----------------------------------------------------------------------------
(* containers *)

Generated(c) == containers[c].status # "UNUSED"

\* The row is in the table.
Stored(c) == containers[c].status \notin {"UNUSED", "GONE"}

FreshContainers == {c \in ContainerIds : ~Generated(c)}

\* UNIQUE (user_id, name)
NameTaken(u, n) == \E c \in ContainerIds : /\ Stored(c)
                                           /\ containers[c].owner = u
                                           /\ containers[c].name = n

\* INSERT INTO containers: the row starts as Created and without a Docker id.
SaveContainer(c, u, n) ==
  containers' = [containers EXCEPT ![c] =
    [status |-> "Created", owner |-> u, name |-> n, docker |-> NoDocker]]

\* Mutant of UpdateContainer: the statement forgets docker_container_id.
UpdateStatusOnly(c, status, docker) ==
  containers' = [containers EXCEPT ![c] = [@ EXCEPT !.status = status]]

\* UPDATE containers writes every mutable column from the caller's copy.
UpdateContainer(c, status, docker) ==
  containers' = [containers EXCEPT ![c] =
    [@ EXCEPT !.status = status, !.docker = docker]]

\* DELETE FROM containers
DeleteContainer(c) == containers' = [containers EXCEPT ![c] = [@ EXCEPT !.status = "GONE"]]

-----------------------------------------------------------------------------
(* jobs *)

\* INSERT INTO jobs: a job is PENDING and has no completed_at.
SaveJob(j, type, c, u) ==
  jobs' = [jobs EXCEPT ![j] = [status |-> "PENDING", type |-> type, target |-> c,
                               user |-> u, completed |-> FALSE]]

\* UPDATE jobs SET status, error_message, completed_at
UpdateJob(j, status, completed) ==
  jobs' = [jobs EXCEPT ![j] = [@ EXCEPT !.status = status, !.completed = completed]]

InJobs(j) == jobs[j].status \notin {"UNUSED", "GONE"}

\* Mutant of IsActive: the query asks for one of the two statuses only.
IsPending(j, c) == jobs[j].status = "PENDING" /\ jobs[j].target = c

IsActive(j, c) == /\ jobs[j].status \in Active
                  /\ jobs[j].target = c

\* FindPendingOrRunningByTarget returns a row.
HasActiveJob(c) == \E j \in JobIds : IsActive(j, c)

\* Mutant of PendingJobs: WHERE completed_at IS NULL.
UnfinishedJobs == {j \in JobIds : InJobs(j) /\ ~jobs[j].completed}

PendingJobs == {j \in JobIds : jobs[j].status = "PENDING"}

\* Mutant of MarkRunningAsFailed: WHERE status <> 'PENDING'.
MarkAllButPending ==
  jobs' = [j \in JobIds |-> IF InJobs(j) /\ jobs[j].status # "PENDING"
                            THEN [jobs[j] EXCEPT !.status = "FAILED"]
                            ELSE jobs[j]]

\* UPDATE jobs SET status = 'FAILED' WHERE status = 'RUNNING': completed_at is
\* left NULL.
MarkRunningAsFailed ==
  jobs' = [j \in JobIds |-> IF jobs[j].status = "RUNNING"
                            THEN [jobs[j] EXCEPT !.status = "FAILED"]
                            ELSE jobs[j]]

\* Terminal rows whose completed_at is set may be older than the retention.
Expirable == {j \in JobIds : /\ jobs[j].status \in Terminal
                             /\ jobs[j].completed}

\* DELETE FROM jobs WHERE status IN (...) AND completed_at < cutoff: `old` are
\* the rows past the cutoff.
DeleteExpired(old) ==
  jobs' = [j \in JobIds |-> IF j \in old THEN [jobs[j] EXCEPT !.status = "GONE"]
                            ELSE jobs[j]]
=============================================================================
