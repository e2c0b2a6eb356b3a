-------------------------- MODULE ManagerRefinement --------------------------
(***************************************************************************)
(* ContainerManager implements ContainerJobs: as long as one process uses  *)
(* the database and clients do not act on containers that are being        *)
(* created, all that locks, channel, restarts, retries and lost replies    *)
(* bring about looks like jobs carried out one at a time.                  *)
(***************************************************************************)
EXTENDS ManagerProperties

StatusOf(c) == CASE containers[c].status = "UNUSED" -> "none"
                 [] containers[c].status = "GONE"   -> "gone"
                 [] OTHER                           -> containers[c].status

StateOf(s) == IF s = "GONE" THEN "gone" ELSE s

JobRowOf(j) == IF jobs[j].status = "UNUSED" THEN [state |-> "none"]
               ELSE [state |-> StateOf(jobs[j].status), type |-> jobs[j].type,
                     target |-> jobs[j].target]

\* A worker that has reached the end of process without an error.
HasSucceeded(p, w) == wk[p][w].pc = "finish" /\ wk[p][w].ok

Statuses == [c \in ContainerIds |-> StatusOf(c)]
JobRows == [j \in JobIds |-> JobRowOf(j)]
Executing == {j \in JobIds : \E p \in Procs, w \in Workers : Working(p, w) /\ wk[p][w].job = j}
Done == {j \in JobIds : \E p \in Procs, w \in Workers : HasSucceeded(p, w) /\ wk[p][w].job = j}

CJ == INSTANCE ContainerJobs WITH
        status <- Statuses, job <- JobRows, executing <- Executing, done <- Done

\* Every behaviour of the service is one the abstract specification allows.
ImplementsJobs == CJ!JSpec
=============================================================================
