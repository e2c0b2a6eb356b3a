-------------------------- MODULE ContainerService --------------------------
(***************************************************************************)
(* The HTTP requests that change containers, as                            *)
(* internal/service/container_svc.go handles them.  A process may be one   *)
(* of several replicas on the same database; each has its own job channel  *)
(* and its own table of per-container mutexes.                             *)
(*                                                                         *)
(* A handler takes these steps:                                            *)
(*   create:  idle -> savejob -> send -> idle                              *)
(*   others:  idle -> lock -> guard -> commit -> send -> idle              *)
(*                                  -> aborted -> idle                     *)
(* Start, Stop and Delete hold the container's mutex from "guard" to the   *)
(* reply and the row lock from "guard" to the end of the transaction.      *)
(* Create takes neither.  A handler that gives up goes back to idle: the   *)
(* status code of the reply is not modelled.                               *)
(***************************************************************************)
EXTENDS DockerRuntime, Sequences

CONSTANTS Procs,          \* server processes
          Cap,            \* capacity of jobChan (100 in the code)
          EarlyAccess,    \* may a client act on a container it saw in the list
                          \* while the request that creates it is not answered?
          LateBoot        \* may requests come before every replica has started?

ASSUME CapAssumption == Cap \in Nat \ {0}
ASSUME SwitchAssumption == {EarlyAccess, LateBoot} \subseteq BOOLEAN

VARIABLES phase,          \* start-up of each process: down, recovered, up
          req,            \* the request each connection is being served
          mutex,          \* containerMu of each process
          chan            \* jobChan of each process

serviceVars == <<phase, req, mutex, chan>>

Idle == [pc |-> "idle"]
HandlerPC == {"savejob", "lock", "guard", "aborted", "commit", "send"}
Request == [pc : HandlerPC, proc : Procs, op : JobTypes, user : Users,
            ctr : ContainerIds, job : JobIds]

ServiceTypeOK ==
  /\ phase \in [Procs -> {"down", "recovered", "up"}]
  /\ req \in [Handlers -> Request \cup {Idle}]
  /\ mutex \in [Procs -> [ContainerIds -> Handlers \cup {Nobody}]]
  /\ chan \in [Procs -> Seq(JobIds)]

ServiceInit ==
  /\ phase = [p \in Procs |-> "down"]
  /\ req = [h \in Handlers |-> Idle]
  /\ mutex = [p \in Procs |-> [c \in ContainerIds |-> Nobody]]
  /\ chan = [p \in Procs |-> <<>>]

Busy(h) == req[h].pc # "idle"

\* uuid.New(): an identifier no row and no other request has.
FreshJobs == {j \in JobIds : /\ jobs[j].status = "UNUSED"
                             /\ \A h \in Handlers : Busy(h) => req[h].job # j}
NewJobId == CHOOSE j \in FreshJobs : TRUE
NewContainerId == CHOOSE c \in FreshContainers : TRUE

Goto(h, pc) == req' = [req EXCEPT ![h] = [@ EXCEPT !.pc = pc]]

\* Mutant of Unlock: the error returns before sendJob leave the mutex locked.
UnlockOnSuccess(h) == IF req[h].pc # "send" THEN UNCHANGED mutex
                      ELSE mutex' = [mutex EXCEPT ![req[h].proc] =
                                       [@ EXCEPT ![req[h].ctr] = Nobody]]

\* The deferred mutex.Unlock; Create holds no mutex.
Unlock(h) == IF req[h].op = "create" THEN UNCHANGED mutex
             ELSE mutex' = [mutex EXCEPT ![req[h].proc] =
                              [@ EXCEPT ![req[h].ctr] = Nobody]]

\* The handler returns and the response is written.
Reply(h) == /\ req' = [req EXCEPT ![h] = Idle]
            /\ Unlock(h)

Accepting(p) == /\ phase[p] = "up"
                /\ LateBoot \/ \A q \in Procs : phase[q] = "up"

\* A handler is creating container c: its client has not been given the id.
BeingCreated(c) == \E h \in Handlers : /\ Busy(h)
                                       /\ req[h].op = "create"
                                       /\ req[h].ctr = c

-----------------------------------------------------------------------------
\* Create, up to its first statement, the INSERT of the container row.  A name
\* that is taken, or a statement that fails without effect, ends the request
\* with nothing changed.  When only the reply is lost the row stays, without a
\* job.
CreateSave(h) ==
  /\ ~Busy(h)
  /\ FreshJobs # {} /\ FreshContainers # {}
  /\ \E p \in Procs, u \in Users, n \in Names :
       /\ Accepting(p)
       /\ ~NameTaken(u, n)
       /\ SaveContainer(NewContainerId, u, n)
       /\ \/ /\ NoFault
             /\ req' = [req EXCEPT ![h] =
                  [pc |-> "savejob", proc |-> p, op |-> "create", user |-> u,
                   ctr |-> NewContainerId, job |-> NewJobId]]
          \/ Fault /\ UNCHANGED req
  /\ UNCHANGED <<jobs, rowLock, docker, phase, mutex, chan>>

\* Create: the INSERT of the job, in a statement of its own.
CreateSaveJob(h) ==
  /\ req[h].pc = "savejob"
  /\ \/ /\ SaveJob(req[h].job, "create", req[h].ctr, req[h].user)
        /\ \/ NoFault /\ Goto(h, "send") /\ UNCHANGED mutex
           \/ Fault /\ Reply(h)
     \/ UNCHANGED jobs /\ Fault /\ Reply(h)
  /\ UNCHANGED <<containers, rowLock, docker, phase, chan>>

\* A request to start, stop or delete a container arrives.
Submit(h) ==
  /\ ~Busy(h)
  /\ FreshJobs # {}
  /\ \E p \in Procs, op \in Guarded, u \in Users, c \in ContainerIds :
       /\ Accepting(p)
       /\ Generated(c)
       /\ EarlyAccess \/ ~BeingCreated(c)
       /\ req' = [req EXCEPT ![h] = [pc |-> "lock", proc |-> p, op |-> op,
                                     user |-> u, ctr |-> c, job |-> NewJobId]]
  /\ UNCHANGED <<containers, jobs, rowLock, docker, phase, mutex, chan, spent>>

\* mu.Lock()
Lock(h) ==
  /\ req[h].pc = "lock"
  /\ mutex[req[h].proc][req[h].ctr] = Nobody
  /\ mutex' = [mutex EXCEPT ![req[h].proc] = [@ EXCEPT ![req[h].ctr] = h]]
  /\ Goto(h, "guard")
  /\ UNCHANGED <<containers, jobs, rowLock, docker, phase, chan, spent>>

\* Mutants of StatusAllows: Delete of a container in any status, and Stop of one
\* that has not run yet.
DeleteInAnyStatus(op, status) == CASE op = "stop"   -> status = "Running"
                                   [] op = "start"  -> status # "Running"
                                   [] op = "delete" -> TRUE
StopUnlessExited(op, status) == IF op = "stop" THEN status # "Exited"
                                ELSE status # "Running"

StatusAllows(op, status) == IF op = "stop" THEN status = "Running"
                            ELSE status # "Running"

\* Mutant of Accepts: no owner check.
AcceptsAnyOwner(op, u, c) == /\ Stored(c) /\ ~HasActiveJob(c)
                             /\ StatusAllows(op, containers[c].status)

\* What is left of the conditions when the query for a job under way fails, which
\* the closures take for "no job".  Also the mutant of Accepts that never asks.
AcceptsBusy(op, u, c) == /\ Stored(c) /\ containers[c].owner = u
                         /\ StatusAllows(op, containers[c].status)

\* The conditions of the guard closures of Start, Stop and Delete.
Accepts(op, u, c) ==
  /\ Stored(c)                                      \* else 404
  /\ containers[c].owner = u                        \* else 403
  /\ ~HasActiveJob(c)                               \* else 409
  /\ StatusAllows(op, containers[c].status)         \* else 409

\* Mutant of Guard: a plain SELECT in place of SELECT ... FOR UPDATE.
GuardWithoutRowLock(h) ==
  LET r == req[h] IN
  /\ r.pc = "guard"
  /\ IF Accepts(r.op, r.user, r.ctr) THEN Goto(h, "commit") /\ UNCHANGED mutex ELSE Reply(h)
  /\ NoFault
  /\ UNCHANGED <<containers, jobs, rowLock, docker, phase, chan>>

\* BEGIN; SELECT ... FOR UPDATE; SELECT jobs.  SELECT FOR UPDATE waits for the
\* row's lock.  The two reads are one step: the row cannot change between them,
\* and waiting longer for the lock gives the same result.  An error of the second
\* read does not end the request, but it ends the transaction and its lock.
Guard(h) ==
  LET r == req[h] IN
  /\ r.pc = "guard"
  /\ rowLock[r.ctr] = Nobody
  /\ \/ /\ NoFault
        /\ Accepts(r.op, r.user, r.ctr)
        /\ rowLock' = [rowLock EXCEPT ![r.ctr] = h]
        /\ Goto(h, "commit")
        /\ UNCHANGED mutex
     \/ /\ Fault
        /\ AcceptsBusy(r.op, r.user, r.ctr)
        /\ Goto(h, "aborted")
        /\ UNCHANGED <<rowLock, mutex>>
     \/ /\ \/ Fault
           \/ NoFault /\ ~Accepts(r.op, r.user, r.ctr)
        /\ UNCHANGED rowLock
        /\ Reply(h)
  /\ UNCHANGED <<containers, jobs, docker, phase, chan>>

\* Mutant of Abort: the query ran outside the transaction, which its error therefore
\* did not abort, and the INSERT takes effect.
InsertsAllTheSame(h) ==
  /\ req[h].pc = "aborted"
  /\ SaveJob(req[h].job, req[h].op, req[h].ctr, req[h].user)
  /\ Goto(h, "send")
  /\ UNCHANGED <<containers, rowLock, docker, phase, mutex, chan, spent>>

\* The INSERT of a transaction that was aborted fails, and WithTx rolls back.
Abort(h) ==
  /\ req[h].pc = "aborted"
  /\ Reply(h)
  /\ UNCHANGED <<containers, jobs, rowLock, docker, phase, chan, spent>>

\* INSERT of the job and COMMIT, which makes it visible and ends the lock.  A
\* COMMIT that returns an error may have taken effect.
Commit(h) ==
  LET r == req[h] IN
  /\ r.pc = "commit"
  /\ rowLock' = [rowLock EXCEPT ![r.ctr] = Nobody]
  /\ \/ /\ SaveJob(r.job, r.op, r.ctr, r.user)
        /\ \/ NoFault /\ Goto(h, "send") /\ UNCHANGED mutex
           \/ Fault /\ Reply(h)
     \/ UNCHANGED jobs /\ Fault /\ Reply(h)
  /\ UNCHANGED <<containers, docker, phase, chan>>

\* sendJob, and the 202 reply.
Send(h) ==
  LET p == req[h].proc IN
  /\ req[h].pc = "send"
  /\ Len(chan[p]) < Cap
  /\ chan' = [chan EXCEPT ![p] = Append(@, req[h].job)]
  /\ Reply(h)
  /\ UNCHANGED <<containers, jobs, rowLock, docker, phase, spent>>

\* sendJob gives up: the channel was full for 10 s, or the request was cancelled
\* (a fault of the client).  The job row stays PENDING.
SendTimeout(h) ==
  /\ req[h].pc = "send"
  /\ \/ Len(chan[req[h].proc]) = Cap /\ NoFault
     \/ Fault
  /\ Reply(h)
  /\ UNCHANGED <<containers, jobs, rowLock, docker, phase, chan>>

\* The steps that serve the request of h once it has arrived.
HandlerStep(h) == \/ CreateSaveJob(h) \/ Lock(h) \/ Guard(h) \/ Abort(h)
                  \/ Commit(h) \/ Send(h) \/ SendTimeout(h)
=============================================================================
