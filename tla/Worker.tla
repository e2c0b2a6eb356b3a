------------------------------- MODULE Worker -------------------------------
(***************************************************************************)
(* The pool of worker goroutines of each process, as                       *)
(* internal/service/worker.go runs them: a worker takes a job from the     *)
(* channel, marks it RUNNING, carries it out against the database and      *)
(* Docker, and records how it ended.                                       *)
(*                                                                         *)
(*   create: find -> dcreate -> cstart -> sync -> update -> finish        *)
(*   start:  find -> dstart  -> sync -> update -> finish                   *)
(*   stop:   find -> dstop   -> update -> finish                           *)
(*   delete: find -> dremove -> dbdelete -> finish                         *)
(* A failed start of a new Docker container goes through cleanup.          *)
(* The worker keeps its own copy of the container row from find on, of     *)
(* which docker and status matter here.                                    *)
(***************************************************************************)
EXTENDS ContainerService

CONSTANTS Workers         \* goroutines of one process's pool

UpdateRetries == 3        \* updateRetries

VARIABLE wk

Free == [pc |-> "take"]
WorkerPC == {"mark", "find", "dcreate", "cstart", "cleanup", "dstart", "sync",
             "update", "dstop", "dremove", "dbdelete", "finish"}
Work == [pc : WorkerPC, job : JobIds, docker : DockerIds \cup {NoDocker},
         status : {"Created", "Running", "Exited"}, tries : 1 .. UpdateRetries,
         ok : BOOLEAN]

WorkerTypeOK == wk \in [Procs -> [Workers -> Work \cup {Free}]]

WorkerInit == wk = [p \in Procs |-> [w \in Workers |-> Free]]

Working(p, w) == wk[p][w].pc # "take"

SetWork(p, w, r) == wk' = [wk EXCEPT ![p] = [@ EXCEPT ![w] = r]]
Step(p, w, pc) == SetWork(p, w, [wk[p][w] EXCEPT !.pc = pc])

\* process returns to its last part with processErr nil or not.
Succeed(p, w) == SetWork(p, w, [wk[p][w] EXCEPT !.pc = "finish", !.ok = TRUE])
Fail(p, w)    == SetWork(p, w, [wk[p][w] EXCEPT !.pc = "finish", !.ok = FALSE])

\* Mutant of Retry: i <= updateRetries.
RetryOnceMore(p, w) == IF wk[p][w].tries <= UpdateRetries
                       THEN SetWork(p, w, [wk[p][w] EXCEPT !.tries = @ + 1])
                       ELSE Fail(p, w)

\* retryUpdate and retryDelete: three attempts, then the error.
Retry(p, w) == IF wk[p][w].tries < UpdateRetries
               THEN SetWork(p, w, [wk[p][w] EXCEPT !.tries = @ + 1])
               ELSE Fail(p, w)

JobOf(p, w) == wk[p][w].job
TypeOf(p, w) == jobs[wk[p][w].job].type
TargetOf(p, w) == jobs[wk[p][w].job].target

-----------------------------------------------------------------------------
\* case job := <-w.jobChan
Take(p, w) ==
  /\ phase[p] = "up"
  /\ ~Working(p, w)
  /\ chan[p] # <<>>
  /\ SetWork(p, w, [pc |-> "mark", job |-> Head(chan[p]), docker |-> NoDocker,
                    status |-> "Created", tries |-> 1, ok |-> FALSE])
  /\ chan' = [chan EXCEPT ![p] = Tail(@)]
  /\ UNCHANGED <<containers, jobs, rowLock, docker, phase, req, mutex, spent>>

\* Update to RUNNING; an error is logged and the job goes on.
Mark(p, w) ==
  /\ wk[p][w].pc = "mark"
  /\ Step(p, w, "find")
  /\ \/ NoFault /\ IF InJobs(JobOf(p, w)) THEN UpdateJob(JobOf(p, w), "RUNNING", FALSE)
                   ELSE UNCHANGED jobs
     \/ Fault /\ UNCHANGED jobs
  /\ UNCHANGED <<containers, rowLock, docker, phase, req, mutex, chan>>

\* Mutant of AfterFind: processDelete leaves the Docker container alone.
AfterFindRowOnly(type, d) ==
  CASE type = "create" -> "dcreate"
    [] type = "start"  -> IF d = NoDocker THEN "fail" ELSE "dstart"
    [] type = "stop"   -> "dstop"
    [] type = "delete" -> "dbdelete"

\* Where processX goes after FindByID, given the job type and the Docker id of
\* the row that was read; "fail" is an error return.
AfterFind(type, d) ==
  CASE type = "create" -> "dcreate"
    [] type = "start"  -> IF d = NoDocker THEN "fail" ELSE "dstart"
    [] type = "stop"   -> "dstop"
    [] type = "delete" -> IF d = NoDocker THEN "dbdelete" ELSE "dremove"

\* FindByID (a plain SELECT, which does not wait for the row lock), the check of
\* the Docker id in processStart and processDelete, and the MkdirAll of
\* processCreate, which may fail too.
Find(p, w) ==
  LET c == TargetOf(p, w)
      next == AfterFind(TypeOf(p, w), containers[c].docker)
  IN
  /\ wk[p][w].pc = "find"
  /\ \/ /\ NoFault /\ Stored(c) /\ next # "fail"
        /\ SetWork(p, w, [wk[p][w] EXCEPT !.pc = next, !.docker = containers[c].docker])
     \/ NoFault /\ (Stored(c) => next = "fail") /\ Fail(p, w)
     \/ Fault /\ Fail(p, w)
  /\ UNCHANGED <<containers, jobs, rowLock, docker, phase, req, mutex, chan>>

\* processCreate: ContainerCreate under the name "aidms-" + id.  When only the
\* reply is lost the container stays in Docker.
CreateInDocker(p, w) ==
  /\ wk[p][w].pc = "dcreate"
  /\ \/ /\ FreshDockerIds # {}
        /\ ~NameInUse(TargetOf(p, w))
        /\ DockerCreate(NewDockerId, TargetOf(p, w))
        /\ \/ NoFault /\ SetWork(p, w, [wk[p][w] EXCEPT !.pc = "cstart", !.docker = NewDockerId])
           \/ Fault /\ Fail(p, w)
     \/ NoFault /\ NameInUse(TargetOf(p, w)) /\ Fail(p, w) /\ UNCHANGED docker
     \/ Fault /\ Fail(p, w) /\ UNCHANGED docker
  /\ UNCHANGED <<containers, jobs, rowLock, phase, req, mutex, chan>>

\* ContainerStart, by CreateAndStart and by processStart: `failed` is where an
\* error leads.
StartInDocker(p, w, failed) ==
  LET d == wk[p][w].docker IN
  /\ \/ InDocker(d) /\ DockerStart(d) /\ ((NoFault /\ Step(p, w, "sync")) \/ (Fault /\ failed))
     \/ NoFault /\ ~InDocker(d) /\ failed /\ UNCHANGED docker
     \/ Fault /\ failed /\ UNCHANGED docker
  /\ UNCHANGED <<containers, jobs, rowLock, phase, req, mutex, chan>>

StartCreated(p, w) == /\ wk[p][w].pc = "cstart"
                      /\ StartInDocker(p, w, Step(p, w, "cleanup"))

StartExisting(p, w) == /\ wk[p][w].pc = "dstart"
                       /\ StartInDocker(p, w, Fail(p, w))

\* CreateAndStart removes the container it could not start; an error of the
\* removal is ignored.
Cleanup(p, w) ==
  /\ wk[p][w].pc = "cleanup"
  /\ Fail(p, w)
  /\ \/ NoFault /\ IF InDocker(wk[p][w].docker) THEN DockerRemove(wk[p][w].docker)
                   ELSE UNCHANGED docker
     \/ Fault /\ UNCHANGED docker
  /\ UNCHANGED <<containers, jobs, rowLock, phase, req, mutex, chan>>

\* syncContainerState: WaitExit, then InspectState.  What is seen is what held
\* when the wait ended or, after a timeout, at the inspection.
SyncState(p, w) ==
  /\ wk[p][w].pc = "sync"
  /\ \E s \in {"Running", "Exited"} :
       /\ \/ NoFault /\ s \in SyncOutcomes(wk[p][w].docker)
          \/ Fault /\ s = "Running"
       /\ SetWork(p, w, [wk[p][w] EXCEPT !.pc = "update", !.status = s])
  /\ UNCHANGED <<containers, jobs, rowLock, docker, phase, req, mutex, chan>>

\* ContainerStop: 304 is success, every other error, 404 included, is a failure.
\* An empty Docker id is refused by the client.
StopInDocker(p, w) ==
  LET d == wk[p][w].docker IN
  /\ wk[p][w].pc = "dstop"
  /\ \/ /\ InDocker(d) /\ DockerStop(d)
        /\ \/ /\ NoFault
              /\ SetWork(p, w, [wk[p][w] EXCEPT !.pc = "update", !.status = "Exited"])
           \/ Fault /\ Fail(p, w)
     \/ NoFault /\ ~InDocker(d) /\ Fail(p, w) /\ UNCHANGED docker
     \/ Fault /\ Fail(p, w) /\ UNCHANGED docker
  /\ UNCHANGED <<containers, jobs, rowLock, phase, req, mutex, chan>>

\* retryUpdate, one attempt.  The UPDATE waits for a transaction that holds the
\* row; no row, or an error, is a failed attempt.
UpdateRow(p, w) ==
  LET c == TargetOf(p, w) IN
  /\ wk[p][w].pc = "update"
  /\ rowLock[c] = Nobody
  /\ \/ /\ Stored(c) /\ UpdateContainer(c, wk[p][w].status, wk[p][w].docker)
        /\ ((NoFault /\ Succeed(p, w)) \/ (Fault /\ Retry(p, w)))
     \/ NoFault /\ ~Stored(c) /\ Retry(p, w) /\ UNCHANGED containers
     \/ Fault /\ Retry(p, w) /\ UNCHANGED containers
  /\ UNCHANGED <<jobs, rowLock, docker, phase, req, mutex, chan>>

\* processDelete: a container Docker no longer knows counts as removed.
RemoveInDocker(p, w) ==
  LET d == wk[p][w].docker IN
  /\ wk[p][w].pc = "dremove"
  /\ \/ InDocker(d) /\ DockerRemove(d) /\ ((NoFault /\ Step(p, w, "dbdelete")) \/ (Fault /\ Fail(p, w)))
     \/ NoFault /\ ~InDocker(d) /\ Step(p, w, "dbdelete") /\ UNCHANGED docker
     \/ Fault /\ Fail(p, w) /\ UNCHANGED docker
  /\ UNCHANGED <<containers, jobs, rowLock, phase, req, mutex, chan>>

\* retryDelete, one attempt.  An attempt after one whose reply was lost finds
\* no row and fails too.
DeleteRow(p, w) ==
  LET c == TargetOf(p, w) IN
  /\ wk[p][w].pc = "dbdelete"
  /\ rowLock[c] = Nobody
  /\ \/ /\ Stored(c) /\ DeleteContainer(c)
        /\ ((NoFault /\ Succeed(p, w)) \/ (Fault /\ Retry(p, w)))
     \/ NoFault /\ ~Stored(c) /\ Retry(p, w) /\ UNCHANGED containers
     \/ Fault /\ Retry(p, w) /\ UNCHANGED containers
  /\ UNCHANGED <<jobs, rowLock, docker, phase, req, mutex, chan>>

\* Mutant of Finish: processErr is not looked at.
FinishIgnoringError(p, w) ==
  /\ wk[p][w].pc = "finish"
  /\ SetWork(p, w, Free)
  /\ NoFault
  /\ UpdateJob(JobOf(p, w), "SUCCESS", TRUE)
  /\ UNCHANGED <<containers, rowLock, docker, phase, req, mutex, chan>>

\* The final Update, whose error is only logged: the row then keeps its status.
Finish(p, w) ==
  LET final == IF wk[p][w].ok THEN "SUCCESS" ELSE "FAILED" IN
  /\ wk[p][w].pc = "finish"
  /\ SetWork(p, w, Free)
  /\ \/ NoFault /\ IF InJobs(JobOf(p, w)) THEN UpdateJob(JobOf(p, w), final, TRUE)
                   ELSE UNCHANGED jobs
     \/ Fault /\ UNCHANGED jobs
  /\ UNCHANGED <<containers, rowLock, docker, phase, req, mutex, chan>>

WorkerStep(p, w) ==
  \/ Take(p, w) \/ Mark(p, w) \/ Find(p, w) \/ CreateInDocker(p, w)
  \/ StartCreated(p, w) \/ StartExisting(p, w) \/ Cleanup(p, w) \/ SyncState(p, w)
  \/ StopInDocker(p, w) \/ UpdateRow(p, w) \/ RemoveInDocker(p, w)
  \/ DeleteRow(p, w) \/ Finish(p, w)
=============================================================================
