-------------------------- MODULE ManagerProperties --------------------------
(***************************************************************************)
(* What ContainerManager is meant to guarantee.  Each run states which of  *)
(* these it checks and in which environment they hold.                     *)
(***************************************************************************)
EXTENDS ContainerManager

\* Stop is never called with an empty Docker id, although processStop, unlike
\* processStart and processDelete, does not look: a stop job is only inserted
\* while the row is Running, and a row that was Running keeps its Docker id
\* until the worker reads it.
StopHasDockerId ==
  \A p \in Procs, w \in Workers :
    wk[p][w].pc = "dstop" => wk[p][w].docker \in DockerIds

\* No job acts for a user on another user's container: the owner check of the
\* guard reaches the job that a worker, which checks nothing, runs later.
JobBelongsToOwner ==
  \A j \in JobIds :
    jobs[j].status # "UNUSED" =>
      /\ Generated(jobs[j].target)
      /\ containers[jobs[j].target].owner = jobs[j].user

\* The Docker container a worker acts on was made for the container of its job, which
\* is the job's user's: in whatever replica it runs, whatever its calls return, nobody's
\* job starts, stops or removes what another user's container runs.
WorksForOwner ==
  \A p \in Procs, w \in Workers :
    Working(p, w) /\ wk[p][w].docker \in DockerIds =>
      LET c == docker[wk[p][w].docker].name
      IN c = TargetOf(p, w) /\ containers[c].owner = jobs[JobOf(p, w)].user

\* Only one transaction is between the guard and its end for a container.
GuardedExclusively ==
  \A h, k \in Handlers :
    req[h].pc = "commit" /\ req[k].pc = "commit" /\ req[h].ctr = req[k].ctr => h = k

\* At most one Start, Stop or Delete job is PENDING or RUNNING for a container:
\* the guard's answer is still true when its transaction commits.
OneActiveGuardedJob ==
  \A i, k \in JobIds :
    /\ jobs[i].status \in Active /\ jobs[k].status \in Active
    /\ jobs[i].target = jobs[k].target
    /\ jobs[i].type \in Guarded /\ jobs[k].type \in Guarded
    => i = k

\* The same with create jobs, which no guard protects.
OneActiveJob ==
  \A i, k \in JobIds :
    /\ jobs[i].status \in Active /\ jobs[k].status \in Active
    /\ jobs[i].target = jobs[k].target
    => i = k

\* Two workers are never at work on one container, in any process: every step
\* on Docker and on the row is part of the only job under way.
WorkersApart ==
  \A p, q \in Procs, v, w \in Workers :
    /\ Working(p, v) /\ Working(q, w)
    /\ TargetOf(p, v) = TargetOf(q, w)
    => p = q /\ v = w

\* The places a job in memory can be: with the handler that will send it, in a
\* channel, with a worker.
InSend(j) == {<<"handler", h>> : h \in {k \in Handlers : req[k].pc = "send" /\ req[k].job = j}}
InChan(j) == UNION {{<<"chan", p, i>> : i \in {n \in DOMAIN chan[p] : chan[p][n] = j}} : p \in Procs}
InWork(j) == UNION {{<<"worker", p, w>> : w \in {v \in Workers : Working(p, v) /\ wk[p][v].job = j}} : p \in Procs}
Held(j) == InSend(j) \cup InChan(j) \cup InWork(j)

\* A job is carried out by one goroutine: it is in at most one place in memory,
\* also after a restart that re-enqueues what the table still calls PENDING.
HeldOnce == \A j \in JobIds : \A x, y \in Held(j) : x = y

\* What memory holds is what the table calls PENDING or RUNNING, so that the
\* guard sees every job under way and the clean-up touches none.
HeldIsActive == \A j \in JobIds : Held(j) # {} => jobs[j].status \in Active

\* A PENDING job has someone who will bring it to a worker.
PendingIsHeld ==
  (\A p \in Procs : phase[p] = "up") =>
    \A j \in PendingJobs : Held(j) # {}

\* No job is lost: while processes run, each job the table calls PENDING or RUNNING is
\* with a handler that will send it, in a channel or with a worker, also after a restart.
ActiveIsHeld ==
  (\A p \in Procs : phase[p] = "up") =>
    \A j \in JobIds : jobs[j].status \in Active => Held(j) # {}

\* Some worker is between FindByID and the end of a job for container c.
WorkedOn(c) == \E p \in Procs, w \in Workers : Working(p, w) /\ TargetOf(p, w) = c

\* No zombie: a container Docker still has belongs to a row that names it, or a
\* worker is creating or deleting it.
NoOrphanDocker ==
  \A d \in DockerIds :
    InDocker(d) =>
      LET c == docker[d].name IN
      WorkedOn(c) \/ (Stored(c) /\ containers[c].docker = d)

\* Nothing runs behind the table's back: a running Docker container nobody is
\* working on is recorded as Running.
RunningIsRecorded ==
  \A d \in DockerIds :
    docker[d].state = "running" =>
      LET c == docker[d].name IN WorkedOn(c) \/ containers[c].status = "Running"

-----------------------------------------------------------------------------
\* A result is final: a job that is SUCCESS or FAILED changes no more, except
\* that the clean-up deletes it.
ResultsAreFinal ==
  [][\A j \in JobIds :
       jobs[j].status \in Terminal =>
         jobs'[j] = jobs[j] \/ jobs'[j].status = "GONE"]_vars

\* A row is deleted only when it does not say Running: Delete asks for a stop
\* first, and nothing starts the container between the guard and the worker.
DeletesOnlyStopped ==
  [][\A c \in ContainerIds :
       Stored(c) /\ containers'[c].status = "GONE" => containers[c].status # "Running"]_vars

\* A job that reports success has done what it says: a deleted container's row
\* is gone and so is every Docker container that carried its name.
DeleteSucceedsFully ==
  \A j \in JobIds :
    jobs[j].status = "SUCCESS" /\ jobs[j].type = "delete" =>
      ~Stored(jobs[j].target) /\ ~NameInUse(jobs[j].target)

-----------------------------------------------------------------------------
(* What documents or tests say and the code does not do.  Each is checked by a *)
(* run that expects a violation.                                               *)

\* A finished job has a completed_at, which the retention clean-up goes by.
FinishedHasCompletedAt ==
  \A j \in JobIds : jobs[j].status \in Terminal => jobs[j].completed

-----------------------------------------------------------------------------
\* Every job comes to an end, by its worker or, when that is stopped or dies, by the next
\* start; it takes calls that are answered and room for every job in the channel.
JobsEnd == \A j \in JobIds : jobs[j].status \in Active ~> jobs[j].status \notin Active

\* Every request is answered, also one that waits for the mutex of a request that waits
\* for room in the channel, or that a shutdown finds waiting.
RequestsEnd == \A h \in Handlers : Busy(h) ~> ~Busy(h)
=============================================================================
