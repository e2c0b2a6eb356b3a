--------------------------- MODULE ContainerManager ---------------------------
(***************************************************************************)
(* The whole service: replicas that start (app/handler.go), crash, serve   *)
(* requests (ContainerService), run jobs (Worker) and clean the jobs table *)
(* (job_cleaner.go), over one database and one Docker daemon.              *)
(***************************************************************************)
EXTENDS Worker, FiniteSets

\* However long the system runs, it has made finitely many jobs.
ASSUME JobsAssumption == IsFiniteSet(JobIds)

vars == <<spent, containers, jobs, rowLock, docker, phase, req, mutex, chan, wk>>

Init == EnvInit /\ DBInit /\ DockerInit /\ ServiceInit /\ WorkerInit

TypeOK == /\ spent \in [Budgets -> Nat]
          /\ DBTypeOK
          /\ DockerTypeOK
          /\ ServiceTypeOK
          /\ WorkerTypeOK

-----------------------------------------------------------------------------
\* NewHandler, stuck job recovery: an error of the UPDATE is ignored.
Recover(p) ==
  /\ phase[p] = "down"
  /\ phase' = [phase EXCEPT ![p] = "recovered"]
  /\ \/ NoFault /\ MarkRunningAsFailed
     \/ Fault /\ UNCHANGED jobs
  /\ UNCHANGED <<containers, rowLock, docker, req, mutex, chan, wk>>

Least(m, n) == IF m < n THEN m ELSE n

\* Mutant of Requeues: the loop ends one job early.
RequeuesButOne(pending) ==
  {s \in [1 .. Least(Cap, Cardinality(pending)) - 1 -> pending] :
     \A i, k \in DOMAIN s : s[i] = s[k] => i = k}

\* What the enqueue loop may put in the channel: the PENDING jobs, until it is
\* full.  ORDER BY created_at is the order in which the handlers made the jobs,
\* which neither the ids nor the order of insertion tells: any order is allowed.
Requeues(pending) ==
  {s \in [1 .. Least(Cap, Cardinality(pending)) -> pending] :
     \A i, k \in DOMAIN s : s[i] = s[k] => i = k}

\* Mutant of Boot: the PENDING jobs are also re-enqueued while the server runs.
BootAgain(p) ==
  /\ phase[p] \in {"recovered", "up"}
  /\ phase' = [phase EXCEPT ![p] = "up"]
  /\ NoFault
  /\ \E s \in Requeues(PendingJobs) : chan' = [chan EXCEPT ![p] = s]
  /\ UNCHANGED <<containers, jobs, rowLock, docker, req, mutex, wk>>

\* NewHandler: FindPendingJobs, the enqueue loop, and then the workers and the server
\* start.  The error of the query is dropped: the rows read before it are enqueued.
Boot(p) ==
  /\ phase[p] = "recovered"
  /\ phase' = [phase EXCEPT ![p] = "up"]
  /\ \/ NoFault /\ \E s \in Requeues(PendingJobs) : chan' = [chan EXCEPT ![p] = s]
     \/ /\ Fault
        /\ \E read \in SUBSET PendingJobs :
             \E s \in Requeues(read) : chan' = [chan EXCEPT ![p] = s]
  /\ UNCHANGED <<containers, jobs, rowLock, docker, req, mutex, wk>>

\* A process dies: its memory is gone, PostgreSQL rolls its open transactions
\* back, its clients' requests end.
Crash(p) ==
  LET lost == {h \in Handlers : Busy(h) /\ req[h].proc = p} IN
  /\ phase[p] # "down"
  /\ Spend("crashes")
  /\ phase' = [phase EXCEPT ![p] = "down"]
  /\ chan' = [chan EXCEPT ![p] = <<>>]
  /\ wk' = [wk EXCEPT ![p] = [w \in Workers |-> Free]]
  /\ mutex' = [mutex EXCEPT ![p] = [c \in ContainerIds |-> Nobody]]
  /\ req' = [h \in Handlers |-> IF h \in lost THEN Idle ELSE req[h]]
  /\ rowLock' = [c \in ContainerIds |-> IF rowLock[c] \in lost THEN Nobody ELSE rowLock[c]]
  /\ UNCHANGED <<containers, jobs, docker>>

\* One tick of a JobCleaner: the rows past the retention are some of those that
\* have a completed_at.
Clean ==
  /\ \E p \in Procs : phase[p] = "up"
  /\ Spend("cleanups")
  /\ \E old \in SUBSET Expirable : old # {} /\ DeleteExpired(old)
  /\ UNCHANGED <<containers, rowLock, docker, phase, req, mutex, chan, wk>>

\* Every identifier is used up and the system waits for requests: it stays so.
Quiescent ==
  /\ FreshJobs = {}
  /\ \A p \in Procs : /\ phase[p] = "up" /\ chan[p] = <<>>
                      /\ \A w \in Workers : ~Working(p, w)
  /\ \A h \in Handlers : ~Busy(h)
  /\ UNCHANGED vars

-----------------------------------------------------------------------------
DockerEnv == /\ \E d \in DockerIds : DockerExit(d) \/ ManualRemove(d)
             /\ UNCHANGED <<serviceVars, wk>>

Service == /\ \E h \in Handlers : CreateSave(h) \/ Submit(h) \/ HandlerStep(h)
           /\ UNCHANGED wk

Next == \/ Service
        \/ \E p \in Procs, w \in Workers : WorkerStep(p, w)
        \/ \E p \in Procs : Recover(p) \/ Boot(p) \/ Crash(p)
        \/ Clean
        \/ DockerEnv
        \/ Quiescent

Spec == Init /\ [][Next]_vars
=============================================================================
