------------------------------ MODULE JobProofs ------------------------------
(***************************************************************************)
(* Where jobs are, and how many are under way for a container.  While one  *)
(* process uses the database, restarted as often as it may be, or several  *)
(* that all start before the first request and do not crash, a job is in   *)
(* one place of memory at a time and active there, and results are final.  *)
(* With a replica that starts beside a live one this is false (run         *)
(* v_late_replica).  Without faults, and while the channel has room, no    *)
(* job is lost.                                                            *)
(***************************************************************************)
EXTENDS ContainerManagerProofs

\* The environments of the theorems.
One == \E p \in Procs : Procs = {p}
Sole == One \/ (LateBoot = FALSE /\ MaxCrashes = 0)

-----------------------------------------------------------------------------
(* What one step does to requests, channels, workers and jobs. *)

\* A request arrives, with a new job id, and for Create with a new container id.
Claims(h) ==
  /\ \E p \in Procs : Accepting(p)
  /\ req[h].pc = "idle"
  /\ \E r \in Request :
       /\ \/ /\ r.pc = "savejob" /\ r.op = "create"
             /\ ~Generated(r.ctr) /\ containers'[r.ctr].status = "Created"
          \/ /\ r.pc = "lock" /\ r.op \in Guarded
             /\ Generated(r.ctr) /\ (EarlyAccess \/ ~BeingCreated(r.ctr))
             /\ UNCHANGED containers
       /\ r.job \in FreshJobs
       /\ req' = [req EXCEPT ![h] = r]
  /\ UNCHANGED <<jobs, phase, chan, wk>>

\* The handler inserts its job, and goes on or gives up.
Inserts(h) ==
  /\ req[h].pc \in Deciding
  /\ SaveJob(req[h].job, IF req[h].pc = "savejob" THEN "create" ELSE req[h].op,
             req[h].ctr, req[h].user)
  /\ Goto(h, "send") \/ req' = [req EXCEPT ![h] = Idle]
  /\ UNCHANGED <<phase, chan, wk>>

\* The handler goes on before its INSERT, or ends its request.
Settles(h) ==
  /\ Busy(h)
  /\ \/ req' = [req EXCEPT ![h] = Idle]
     \/ req[h].pc = "lock" /\ Goto(h, "guard")
     \/ /\ req[h].pc = "guard" /\ Goto(h, "commit")
        /\ Accepts(req[h].op, req[h].user, req[h].ctr)
     \/ req[h].pc = "guard" /\ Goto(h, "aborted")
  /\ UNCHANGED <<jobs, phase, chan, wk>>

\* The handler puts its job in the channel.
Sends(h) ==
  /\ req[h].pc = "send"
  /\ req' = [req EXCEPT ![h] = Idle]
  /\ chan' = [chan EXCEPT ![req[h].proc] = Append(@, req[h].job)]
  /\ UNCHANGED <<jobs, phase, wk>>

\* Worker (p, w) is touched alone.
OnlyWorker(p, w) == \A q \in Procs, v \in Workers : <<q, v>> # <<p, w>> => wk'[q][v] = wk[q][v]

Takes(p, w) ==
  /\ ~Working(p, w)
  /\ chan[p] # <<>>
  /\ wk'[p][w].pc = "mark" /\ wk'[p][w].job = Head(chan[p])
  /\ OnlyWorker(p, w)
  /\ chan' = [chan EXCEPT ![p] = Tail(@)]
  /\ UNCHANGED <<jobs, phase, req>>

\* The worker goes on with its job, which may become RUNNING, or records its end
\* and is free.
Works(p, w) ==
  /\ Working(p, w)
  /\ OnlyWorker(p, w)
  /\ \/ /\ wk'[p][w].pc = "take" \/ wk'[p][w].job = wk[p][w].job
        /\ UNCHANGED jobs
     \/ /\ wk'[p][w].pc = "find" /\ wk'[p][w].job = wk[p][w].job
        /\ InJobs(wk[p][w].job) /\ UpdateJob(wk[p][w].job, "RUNNING", FALSE)
     \/ /\ wk'[p][w].pc = "take"
        /\ \E s \in Terminal : InJobs(wk[p][w].job) /\ UpdateJob(wk[p][w].job, s, TRUE)
  /\ UNCHANGED <<phase, req, chan>>

JobStep ==
  \/ \E h \in Handlers : Claims(h) \/ Inserts(h) \/ Settles(h) \/ Sends(h)
  \/ \E p \in Procs, w \in Workers : Takes(p, w) \/ Works(p, w)
  \/ \E p \in Procs : Recover(p) \/ Boot(p) \/ Crash(p)
  \/ Clean
  \/ UNCHANGED <<jobs, phase, req, chan, wk>>

LEMMA ServiceJobSteps ==
  ASSUME TypeInv, Service
  PROVE  JobStep
<1> USE DEF TypeInv, TypeOK
<1>1. PICK h \in Handlers : CreateSave(h) \/ Submit(h) \/ HandlerStep(h)
  BY DEF Service
<1>2. UNCHANGED wk
  BY DEF Service
<1>3. ASSUME FreshJobs # {} PROVE NewJobId \in FreshJobs /\ NewJobId \in JobIds
  BY <1>3 DEF NewJobId, FreshJobs
<1>4. CASE CreateSave(h)
  <2>1. NewContainerId \in ContainerIds
    BY <1>4 DEF CreateSave, NewContainerId, FreshContainers
  <2>2. PICK p \in Procs, u \in Users, n \in Names :
          /\ Accepting(p)
          /\ SaveContainer(NewContainerId, u, n)
          /\ \/ req' = [req EXCEPT ![h] =
                  [pc |-> "savejob", proc |-> p, op |-> "create", user |-> u,
                   ctr |-> NewContainerId, job |-> NewJobId]]
             \/ UNCHANGED req
    BY <1>4 DEF CreateSave
  <2> DEFINE r == [pc |-> "savejob", proc |-> p, op |-> "create", user |-> u,
                   ctr |-> NewContainerId, job |-> NewJobId]
  <2>3. r \in Request /\ r.pc = "savejob" /\ r.op = "create" /\ r.job \in FreshJobs
    BY <1>3, <1>4, <2>1 DEF CreateSave, Request, HandlerPC, JobTypes
  <2>5. ~Generated(r.ctr) /\ containers'[r.ctr].status = "Created"
    <3>1. NewContainerId \in FreshContainers
      BY <1>4 DEF CreateSave, NewContainerId
    <3>2. ~Generated(NewContainerId)
      BY <3>1 DEF FreshContainers
    <3>3. containers'[NewContainerId].status = "Created"
      BY <2>1, <2>2 DEF SaveContainer, DBTypeOK
    <3> QED BY <3>2, <3>3
  <2>4. CASE req' = [req EXCEPT ![h] = r]
    <3> HIDE DEF r
    <3>1. Claims(h)
      BY <1>2, <1>4, <2>2, <2>3, <2>4, <2>5 DEF Claims, CreateSave, Busy
    <3> QED BY <3>1 DEF JobStep
  <2> QED BY <1>2, <1>4, <2>2, <2>4 DEF JobStep, CreateSave
<1>5. CASE Submit(h)
  <2>1. PICK p \in Procs, op \in Guarded, u \in Users, c \in ContainerIds :
          /\ Accepting(p)
          /\ Generated(c) /\ (EarlyAccess \/ ~BeingCreated(c))
          /\ req' = [req EXCEPT ![h] = [pc |-> "lock", proc |-> p, op |-> op,
                                        user |-> u, ctr |-> c, job |-> NewJobId]]
    BY <1>5 DEF Submit
  <2> DEFINE r == [pc |-> "lock", proc |-> p, op |-> op, user |-> u, ctr |-> c,
                   job |-> NewJobId]
  <2>2. /\ r \in Request /\ r.pc = "lock" /\ r.op \in Guarded /\ r.job \in FreshJobs
        /\ Generated(r.ctr) /\ (EarlyAccess \/ ~BeingCreated(r.ctr))
    BY <1>3, <1>5, <2>1 DEF Submit, Request, HandlerPC, JobTypes, Guarded
  <2>3. req' = [req EXCEPT ![h] = r]
    BY <2>1
  <2> HIDE DEF r
  <2>4. Claims(h)
    BY <1>2, <1>5, <2>1, <2>2, <2>3 DEF Claims, Submit, Busy
  <2> QED BY <2>4 DEF JobStep
<1>6. CASE CreateSaveJob(h) \/ Commit(h)
  <2>1. req[h].pc \in Deciding /\ Busy(h)
    BY <1>6 DEF CreateSaveJob, Commit, Deciding, Busy
  <2>2. /\ UNCHANGED <<phase, chan>>
        /\ \/ /\ SaveJob(req[h].job, IF req[h].pc = "savejob" THEN "create" ELSE req[h].op,
                         req[h].ctr, req[h].user)
              /\ Goto(h, "send") \/ Reply(h)
           \/ UNCHANGED jobs /\ Reply(h)
    BY <1>6 DEF CreateSaveJob, Commit
  <2>3. Inserts(h) \/ Settles(h)
    BY <1>2, <2>1, <2>2 DEF Inserts, Settles, Reply
  <2> QED BY <2>3 DEF JobStep
<1>7. CASE Lock(h) \/ Guard(h) \/ Abort(h) \/ SendTimeout(h)
  <2>1. Settles(h)
    BY <1>2, <1>7 DEF Lock, Guard, Abort, SendTimeout, Settles, Reply, Busy
  <2> QED BY <2>1 DEF JobStep
<1>8. CASE Send(h)
  <2>1. Sends(h)
    BY <1>2, <1>8 DEF Send, Sends, Reply
  <2> QED BY <2>1 DEF JobStep
<1> QED BY <1>1, <1>4, <1>5, <1>6, <1>7, <1>8 DEF HandlerStep

LEMMA StepKeepsJob ==
  ASSUME WorkerTypeOK, NEW p \in Procs, NEW w \in Workers, Working(p, w), NEW pc,
         Step(p, w, pc) \/ Succeed(p, w) \/ Fail(p, w) \/ Retry(p, w)
  PROVE  wk'[p][w].job = wk[p][w].job
<1>1. wk[p][w] \in Work
  BY WorkFields
<1>2. \A r : SetWork(p, w, r) => wk'[p][w] = r
  BY SetWorkElsewhere
<1> QED BY <1>1, <1>2 DEF Step, Succeed, Fail, Retry, Work

\* A worker is free before Take and after Finish; in between it keeps its job.
LEMMA WorkerKeepsJob ==
  ASSUME TypeInv, NEW p \in Procs, NEW w \in Workers, WorkerStep(p, w), ~Take(p, w),
         ~Finish(p, w)
  PROVE  /\ Working(p, w)
         /\ wk'[p][w].job = wk[p][w].job
<1> USE DEF TypeInv, TypeOK
<1>1. Working(p, w)
  BY DEF WorkerStep, Mark, Find, CreateInDocker, StartCreated, StartExisting, Cleanup,
     SyncState, StopInDocker, UpdateRow, RemoveInDocker, DeleteRow, Working
<1>2. wk[p][w] \in Work
  BY <1>1, WorkFields
<1>3. \A r : SetWork(p, w, r) => wk'[p][w] = r
  BY SetWorkElsewhere
<1>4. ASSUME NEW pc, NEW d, SetWork(p, w, [wk[p][w] EXCEPT !.pc = pc, !.docker = d])
      PROVE  wk'[p][w].job = wk[p][w].job
  BY <1>2, <1>3, <1>4 DEF Work
<1>5. ASSUME NEW s, SetWork(p, w, [wk[p][w] EXCEPT !.pc = "update", !.status = s])
      PROVE  wk'[p][w].job = wk[p][w].job
  BY <1>2, <1>3, <1>5 DEF Work
<1>6. \/ \E pc : Step(p, w, pc) \/ Succeed(p, w) \/ Fail(p, w) \/ Retry(p, w)
      \/ \E pc, d : SetWork(p, w, [wk[p][w] EXCEPT !.pc = pc, !.docker = d])
      \/ \E s : SetWork(p, w, [wk[p][w] EXCEPT !.pc = "update", !.status = s])
  BY DEF WorkerStep, Mark, Find, CreateInDocker, StartCreated, StartExisting, StartInDocker,
     Cleanup, SyncState, StopInDocker, UpdateRow, RemoveInDocker, DeleteRow
<1> QED BY <1>1, <1>4, <1>5, <1>6, StepKeepsJob

LEMMA WorkerJobSteps ==
  ASSUME TypeInv, NEW p \in Procs, NEW w \in Workers, WorkerStep(p, w)
  PROVE  JobStep
<1> USE DEF TypeInv, TypeOK
<1>1. PICK r : SetWork(p, w, r)
  BY DEF WorkerStep, Take, Mark, Find, CreateInDocker, StartCreated, StartExisting,
     StartInDocker, Cleanup, SyncState, StopInDocker, UpdateRow, RemoveInDocker,
     DeleteRow, Finish, Step, Succeed, Fail, Retry
<1>2. wk'[p][w] = r /\ OnlyWorker(p, w)
  BY <1>1, SetWorkElsewhere DEF OnlyWorker
<1>3. CASE Take(p, w)
  <2>1. wk'[p][w] = [pc |-> "mark", job |-> Head(chan[p]), docker |-> NoDocker,
                     status |-> "Created", tries |-> 1, ok |-> FALSE]
    BY <1>3, SetWorkElsewhere DEF Take
  <2>2. Takes(p, w)
    BY <1>2, <1>3, <2>1 DEF Take, Takes
  <2> QED BY <2>2 DEF JobStep
<1>4. CASE Finish(p, w)
  <2>1. wk'[p][w] = Free
    BY <1>4, SetWorkElsewhere DEF Finish
  <2>2. Working(p, w) /\ wk'[p][w].pc = "take"
    BY <1>4, <2>1 DEF Finish, Working, Free
  <2>3. \/ UNCHANGED jobs
        \/ \E s \in Terminal : InJobs(wk[p][w].job) /\ UpdateJob(wk[p][w].job, s, TRUE)
    BY <1>4 DEF Finish, JobOf, Terminal
  <2>4. UNCHANGED <<phase, req, chan>>
    BY <1>4 DEF Finish
  <2>5. Works(p, w)
    BY <1>2, <2>2, <2>3, <2>4 DEF Works
  <2> QED BY <2>5 DEF JobStep
<1>5. CASE ~Take(p, w) /\ ~Finish(p, w)
  <2>1. Working(p, w) /\ wk'[p][w].job = wk[p][w].job
    BY <1>5, WorkerKeepsJob
  <2>2. CASE Mark(p, w)
    <3>1. wk'[p][w].pc = "find"
      BY <2>1, <2>2, StepGoes DEF Mark
    <3>2. Works(p, w)
      BY <1>2, <2>1, <2>2, <3>1 DEF Mark, Works, JobOf
    <3> QED BY <3>2 DEF JobStep
  <2>3. CASE ~Mark(p, w)
    <3>1. UNCHANGED <<jobs, phase, req, chan>>
      BY <1>5, <2>3 DEF WorkerStep, Find, CreateInDocker, StartCreated, StartExisting,
         StartInDocker, Cleanup, SyncState, StopInDocker, UpdateRow, RemoveInDocker, DeleteRow
    <3>2. Works(p, w)
      BY <1>2, <2>1, <3>1 DEF Works
    <3> QED BY <3>2 DEF JobStep
  <2> QED BY <2>2, <2>3
<1> QED BY <1>3, <1>4, <1>5

LEMMA JobSteps ==
  ASSUME TypeInv, [Next]_vars
  PROVE  JobStep
<1>1. CASE Service
  BY <1>1, ServiceJobSteps
<1>2. CASE \E p \in Procs, w \in Workers : WorkerStep(p, w)
  BY <1>2, WorkerJobSteps
<1>3. CASE (\E p \in Procs : Recover(p) \/ Boot(p) \/ Crash(p)) \/ Clean
  BY <1>3 DEF JobStep
<1>4. CASE DockerEnv
  BY <1>4 DEF DockerEnv, DockerExit, ManualRemove, serviceVars, JobStep
<1>5. CASE UNCHANGED vars
  BY <1>5 DEF vars, JobStep
<1> QED BY <1>1, <1>2, <1>3, <1>4, <1>5 DEF Next, Quiescent

-----------------------------------------------------------------------------
(* The invariant. *)

Sending(h) == req[h].pc = "send"

\* A job that is not inserted yet belongs to one request.
ClaimsFresh == \A h \in Handlers : Busy(h) /\ ~Sending(h) => jobs[req[h].job].status = "UNUSED"
ClaimsApart == \A h, k \in Handlers : Busy(h) /\ Busy(k) /\ req[h].job = req[k].job => h = k

\* Memory holds active jobs.
SentPending == \A h \in Handlers : Sending(h) => jobs[req[h].job].status = "PENDING"
QueuedPending == \A p \in Procs : \A i \in DOMAIN chan[p] : jobs[chan[p][i]].status = "PENDING"
WorkedActive == \A p \in Procs, w \in Workers : Working(p, w) => jobs[wk[p][w].job].status \in Active

\* It holds each of them once.
SentNotQueued == \A h \in Handlers, p \in Procs : \A i \in DOMAIN chan[p] :
                   Sending(h) => chan[p][i] # req[h].job
SentNotWorked == \A h \in Handlers, p \in Procs, w \in Workers :
                   Sending(h) /\ Working(p, w) => wk[p][w].job # req[h].job
QueuedOnce == \A p, q \in Procs : \A i \in DOMAIN chan[p], k \in DOMAIN chan[q] :
                chan[p][i] = chan[q][k] => p = q /\ i = k
QueuedNotWorked == \A p, q \in Procs, w \in Workers : \A i \in DOMAIN chan[p] :
                     Working(q, w) => wk[q][w].job # chan[p][i]
WorkedOnce == \A p, q \in Procs, v, w \in Workers :
                Working(p, v) /\ Working(q, w) /\ wk[p][v].job = wk[q][w].job => p = q /\ v = w

PlacesInv == /\ ClaimsFresh /\ ClaimsApart
             /\ SentPending /\ QueuedPending /\ WorkedActive
             /\ SentNotQueued /\ SentNotWorked
             /\ QueuedOnce /\ QueuedNotWorked /\ WorkedOnce

\* Nothing is in memory, and no job has been made unless by the only process.
Still == /\ \A h \in Handlers : ~Busy(h)
         /\ \A p \in Procs : DOMAIN chan[p] = {}
         /\ \A p \in Procs, w \in Workers : ~Working(p, w)
         /\ One \/ \A j \in JobIds : jobs[j].status = "UNUSED"

StartInv == (\E p \in Procs : phase[p] # "up") => Still

LEMMA PlacesInit == Init => PlacesInv /\ StartInv
BY DEF Init, DBInit, ServiceInit, WorkerInit, PlacesInv, ClaimsFresh, ClaimsApart, SentPending,
   QueuedPending, WorkedActive, SentNotQueued, SentNotWorked, QueuedOnce, QueuedNotWorked,
   WorkedOnce, StartInv, Still, Busy, Sending, Working, Idle, Free, Unused

\* Memory only loses jobs, and the table changes no job that stays there but from
\* PENDING to RUNNING by its worker.
LEMMA PlacesShrink ==
  ASSUME PlacesInv,
         \A h \in Handlers :
           req'[h].pc # "idle" =>
             /\ Busy(h) /\ req'[h].job = req[h].job
             /\ req'[h].pc = "send" <=> Sending(h),
         \A p \in Procs : chan'[p] = chan[p] \/ DOMAIN chan'[p] = {},
         \A p \in Procs, w \in Workers :
           wk'[p][w].pc # "take" =>
             /\ Working(p, w) /\ wk'[p][w].job = wk[p][w].job
             /\ jobs'[wk[p][w].job].status \in Active,
         \A h \in Handlers : Busy(h) => jobs'[req[h].job].status = jobs[req[h].job].status,
         \A p \in Procs : \A i \in DOMAIN chan[p] :
           jobs'[chan[p][i]].status = jobs[chan[p][i]].status
  PROVE  PlacesInv'
<1> USE DEF PlacesInv
<1>1. ClaimsFresh' /\ ClaimsApart' /\ SentPending'
  BY DEF ClaimsFresh, ClaimsApart, SentPending, Busy, Sending
<1>2. QueuedPending' /\ WorkedActive'
  BY DEF QueuedPending, WorkedActive, Working
<1>3. SentNotQueued'
  BY DEF SentNotQueued, Sending
<1>4. SentNotWorked'
  BY DEF SentNotWorked, Sending, Working, Busy
<1>5. QueuedOnce'
  BY DEF QueuedOnce
<1>6. QueuedNotWorked'
  BY DEF QueuedNotWorked, Working
<1>7. WorkedOnce'
  BY DEF WorkedOnce, Working
<1> QED BY <1>1, <1>2, <1>3, <1>4, <1>5, <1>6, <1>7

LEMMA PlacesClaims ==
  ASSUME TypeInv, PlacesInv, NEW h \in Handlers, Claims(h)
  PROVE  PlacesInv'
<1> USE DEF PlacesInv, TypeInv, TypeOK, ServiceTypeOK
<1>1. PICK r \in Request : /\ r.pc # "send"
                           /\ r.job \in FreshJobs
                           /\ req' = [req EXCEPT ![h] = r]
  BY DEF Claims
<1>2. /\ jobs[r.job].status = "UNUSED"
      /\ \A k \in Handlers : Busy(k) => req[k].job # r.job
  BY <1>1 DEF FreshJobs
<1>3. req'[h] = r /\ \A k \in Handlers : k # h => req'[k] = req[k]
  BY <1>1
<1>4. UNCHANGED <<jobs, chan, wk>>
  BY DEF Claims
<1>5. ClaimsFresh' /\ SentPending'
  BY <1>1, <1>2, <1>3, <1>4 DEF ClaimsFresh, SentPending, Busy, Sending
<1>6. ClaimsApart'
  BY <1>2, <1>3, <1>4 DEF ClaimsApart, Busy
<1>7. SentNotQueued' /\ SentNotWorked'
  BY <1>1, <1>3, <1>4 DEF SentNotQueued, SentNotWorked, Sending, Working
<1>8. QueuedPending' /\ WorkedActive' /\ QueuedOnce' /\ QueuedNotWorked' /\ WorkedOnce'
  BY <1>4 DEF QueuedPending, WorkedActive, QueuedOnce, QueuedNotWorked, WorkedOnce, Working
<1> QED BY <1>5, <1>6, <1>7, <1>8

LEMMA PlacesInserts ==
  ASSUME TypeInv, PlacesInv, NEW h \in Handlers, Inserts(h)
  PROVE  PlacesInv'
<1> USE DEF PlacesInv, TypeInv, TypeOK, ServiceTypeOK, DBTypeOK
<1> DEFINE j == req[h].job
<1>1. req[h] \in Request /\ Busy(h) /\ ~Sending(h)
  BY RequestFields DEF Inserts, Deciding, Busy, Sending
<1>2. j \in JobIds /\ jobs[j].status = "UNUSED"
  BY <1>1 DEF Request, ClaimsFresh
<1>3. jobs'[j].status = "PENDING" /\ \A k \in JobIds : k # j => jobs'[k] = jobs[k]
  BY <1>2 DEF Inserts, SaveJob
<1>4. /\ req'[h] = Idle \/ (req'[h].pc = "send" /\ req'[h].job = j)
      /\ \A k \in Handlers : k # h => req'[k] = req[k]
  <2>1. CASE Goto(h, "send")
    <3>1. req' = [req EXCEPT ![h] = [req[h] EXCEPT !.pc = "send"]]
      BY <2>1 DEF Goto
    <3> QED BY <1>1, <3>1 DEF Request
  <2> QED BY <2>1 DEF Inserts
<1>5. UNCHANGED <<chan, wk>>
  BY DEF Inserts
<1>6. \A k \in Handlers : Busy(k) /\ k # h => req[k].job \in JobIds /\ req[k].job # j
  BY <1>1, RequestFields DEF ClaimsApart, Busy, Request
<1>7. \A p \in Procs : \A i \in DOMAIN chan[p] : chan[p][i] \in JobIds /\ chan[p][i] # j
  BY <1>2 DEF QueuedPending
<1>8. \A p \in Procs, w \in Workers : Working(p, w) => wk[p][w].job \in JobIds /\ wk[p][w].job # j
  BY <1>2, TargetType DEF WorkedActive, Active
<1> HIDE DEF j, TypeInv, TypeOK, ServiceTypeOK, DBTypeOK
<1>9. ClaimsFresh' /\ SentPending'
  BY <1>3, <1>4, <1>5, <1>6 DEF ClaimsFresh, SentPending, Busy, Sending, Idle
<1>10. ClaimsApart'
  BY <1>4, <1>6 DEF ClaimsApart, Busy, Idle
<1>11. QueuedPending' /\ WorkedActive'
  BY <1>3, <1>5, <1>7, <1>8 DEF QueuedPending, WorkedActive, Working
<1>12. SentNotQueued' /\ SentNotWorked'
  BY <1>4, <1>5, <1>7, <1>8 DEF SentNotQueued, SentNotWorked, Sending, Working, Idle
<1>13. QueuedOnce' /\ QueuedNotWorked' /\ WorkedOnce'
  BY <1>5 DEF QueuedOnce, QueuedNotWorked, WorkedOnce, Working
<1> QED BY <1>9, <1>10, <1>11, <1>12, <1>13

\* The places of a sequence with one more element.
LEMMA AppendPlaces ==
  ASSUME NEW S, NEW s \in Seq(S), NEW e \in S
  PROVE  LET t == Append(s, e)
             n == Len(s) + 1
         IN /\ t[n] = e
            /\ \A i \in DOMAIN t : i = n \/ (i \in DOMAIN s /\ t[i] = s[i])
OBVIOUS

LEMMA PlacesSends ==
  ASSUME TypeInv, PlacesInv, NEW h \in Handlers, Sends(h)
  PROVE  PlacesInv'
<1> USE DEF PlacesInv, TypeInv, TypeOK, ServiceTypeOK
<1> DEFINE j == req[h].job
           x == req[h].proc
           n == Len(chan[x]) + 1
<1>1. req[h] \in Request /\ Busy(h) /\ Sending(h)
  BY RequestFields DEF Sends, Busy, Sending
<1>2. j \in JobIds /\ x \in Procs /\ chan[x] \in Seq(JobIds)
  BY <1>1 DEF Request
<1>3. req'[h] = Idle /\ \A k \in Handlers : k # h => req'[k] = req[k]
  BY DEF Sends
<1>4. chan'[x] = Append(chan[x], j) /\ \A p \in Procs : p # x => chan'[p] = chan[p]
  BY <1>2 DEF Sends
<1>5. /\ chan'[x][n] = j
      /\ \A i \in DOMAIN chan'[x] : i = n \/ (i \in DOMAIN chan[x] /\ chan'[x][i] = chan[x][i])
  BY <1>2, <1>4, AppendPlaces
<1>6. UNCHANGED <<jobs, wk>>
  BY DEF Sends
<1>7. jobs[j].status = "PENDING"
  BY <1>1 DEF SentPending
<1>8. /\ \A k \in Handlers : k # h /\ Busy(k) => req[k].job # j
      /\ \A p \in Procs : \A i \in DOMAIN chan[p] : chan[p][i] # j
      /\ \A p \in Procs, w \in Workers : Working(p, w) => wk[p][w].job # j
  BY <1>1 DEF ClaimsApart, SentNotQueued, SentNotWorked
<1> HIDE DEF j, x, n, TypeInv, TypeOK, ServiceTypeOK
\* A place of a channel after the step is an old one or the new one.
<1>9. ASSUME NEW p \in Procs, NEW i \in DOMAIN chan'[p]
      PROVE  \/ i \in DOMAIN chan[p] /\ chan'[p][i] = chan[p][i]
             \/ p = x /\ i = n /\ chan'[p][i] = j
  BY <1>4, <1>5, <1>9
<1>10. ClaimsFresh' /\ ClaimsApart' /\ SentPending' /\ SentNotWorked'
  BY <1>3, <1>6 DEF ClaimsFresh, ClaimsApart, SentPending, SentNotWorked, Busy, Sending, Working, Idle
<1>11. QueuedPending'
  BY <1>6, <1>7, <1>9 DEF QueuedPending
<1>12. WorkedActive' /\ WorkedOnce'
  BY <1>6 DEF WorkedActive, WorkedOnce, Working
<1>13. SentNotQueued'
  BY <1>3, <1>8, <1>9 DEF SentNotQueued, Sending, Busy, Idle
<1>14. QueuedOnce'
  BY <1>8, <1>9 DEF QueuedOnce
<1>15. QueuedNotWorked'
  BY <1>6, <1>8, <1>9 DEF QueuedNotWorked, Working
<1> QED BY <1>10, <1>11, <1>12, <1>13, <1>14, <1>15

LEMMA PlacesTakes ==
  ASSUME TypeInv, PlacesInv, NEW p \in Procs, NEW w \in Workers, Takes(p, w)
  PROVE  PlacesInv'
<1> USE DEF PlacesInv, TypeInv, TypeOK, ServiceTypeOK
<1> DEFINE s == chan[p]
           j == Head(s)
<1>1. s \in Seq(JobIds) /\ s # <<>>
  BY DEF Takes
<1>2. /\ j = s[1] /\ 1 \in DOMAIN s
      /\ \A i \in DOMAIN Tail(s) : i \in Nat /\ i + 1 \in DOMAIN s /\ i + 1 # 1 /\ Tail(s)[i] = s[i + 1]
  BY <1>1
<1>3. chan'[p] = Tail(s) /\ \A q \in Procs : q # p => chan'[q] = chan[q]
  BY DEF Takes
<1>4. /\ wk'[p][w].pc = "mark" /\ wk'[p][w].job = j
      /\ \A q \in Procs, v \in Workers : <<q, v>> # <<p, w>> => wk'[q][v] = wk[q][v]
  BY DEF Takes, OnlyWorker
<1>5. UNCHANGED <<jobs, req>>
  BY DEF Takes
<1>6. jobs[j].status = "PENDING"
  BY <1>2 DEF QueuedPending
<1>7. /\ \A k \in Handlers : Sending(k) => req[k].job # j
      /\ \A q \in Procs : \A i \in DOMAIN chan[q] : chan[q][i] = j => q = p /\ i = 1
      /\ \A q \in Procs, v \in Workers : Working(q, v) => wk[q][v].job # j
  BY <1>2 DEF SentNotQueued, QueuedOnce, QueuedNotWorked
<1>8. ASSUME NEW q \in Procs, NEW i \in DOMAIN chan'[q]
      PROVE  \E k \in DOMAIN chan[q] : /\ chan'[q][i] = chan[q][k]
                                       /\ q = p => k = i + 1 /\ k # 1 /\ i \in Nat
                                       /\ q # p => k = i
  <2>1. CASE q = p
    <3>1. i \in DOMAIN Tail(s) /\ chan'[q][i] = Tail(s)[i]
      BY <1>3, <1>8, <2>1
    <3>2. i \in Nat /\ i + 1 \in DOMAIN chan[q] /\ i + 1 # 1 /\ chan'[q][i] = chan[q][i + 1]
      BY <1>2, <2>1, <3>1
    <3> QED BY <2>1, <3>2
  <2>2. CASE q # p
    BY <1>3, <1>8, <2>2
  <2> QED BY <2>1, <2>2
<1> HIDE DEF s, j, TypeInv, TypeOK, ServiceTypeOK
<1>9. ClaimsFresh' /\ ClaimsApart' /\ SentPending'
  BY <1>5 DEF ClaimsFresh, ClaimsApart, SentPending, Busy, Sending
<1>10. QueuedPending'
  BY <1>5, <1>8 DEF QueuedPending
<1>11. WorkedActive'
  BY <1>4, <1>5, <1>6 DEF WorkedActive, Working, Active
<1>12. SentNotQueued'
  BY <1>5, <1>8 DEF SentNotQueued, Sending
<1>13. SentNotWorked'
  BY <1>4, <1>5, <1>7 DEF SentNotWorked, Sending, Working
<1>14. QueuedOnce'
  <2>1. SUFFICES ASSUME NEW q \in Procs, NEW o \in Procs, NEW i \in DOMAIN chan'[q],
                        NEW k \in DOMAIN chan'[o], chan'[q][i] = chan'[o][k]
                 PROVE  q = o /\ i = k
    BY DEF QueuedOnce
  <2>2. PICK a \in DOMAIN chan[q] : /\ chan'[q][i] = chan[q][a]
                                    /\ q = p => a = i + 1 /\ i \in Nat
                                    /\ q # p => a = i
    BY <1>8
  <2>3. PICK b \in DOMAIN chan[o] : /\ chan'[o][k] = chan[o][b]
                                    /\ o = p => b = k + 1 /\ k \in Nat
                                    /\ o # p => b = k
    BY <1>8
  <2>4. chan[q][a] = chan[o][b]
    BY <2>1, <2>2, <2>3
  <2>5. q = o /\ a = b
    BY <2>4 DEF QueuedOnce
  <2> QED BY <2>2, <2>3, <2>5
<1>15. QueuedNotWorked'
  BY <1>4, <1>7, <1>8 DEF QueuedNotWorked, Working
<1>16. WorkedOnce'
  BY <1>4, <1>7 DEF WorkedOnce, Working
<1> QED BY <1>9, <1>10, <1>11, <1>12, <1>13, <1>14, <1>15, <1>16

LEMMA PlacesWorks ==
  ASSUME TypeInv, PlacesInv, NEW p \in Procs, NEW w \in Workers, Works(p, w)
  PROVE  PlacesInv'
<1> DEFINE j == wk[p][w].job
<1>1. j \in JobIds /\ jobs[j] \in JobRow
  BY TargetType DEF Works
<1>2. /\ UNCHANGED <<req, chan>>
      /\ \A q \in Procs, v \in Workers : <<q, v>> # <<p, w>> => wk'[q][v] = wk[q][v]
  BY DEF Works, OnlyWorker
<1>3. jobs[j].status \in Active
  BY DEF Works, PlacesInv, WorkedActive
<1>4. \A k \in JobIds : k # j => jobs'[k] = jobs[k]
  BY DEF Works, UpdateJob, TypeInv, TypeOK, DBTypeOK
<1>5. wk'[p][w].pc # "take" => wk'[p][w].job = j /\ jobs'[j].status \in Active
  <2>1. CASE UNCHANGED jobs /\ (wk'[p][w].pc = "take" \/ wk'[p][w].job = j)
    BY <1>3, <2>1
  <2>2. CASE wk'[p][w].job = j /\ UpdateJob(j, "RUNNING", FALSE)
    <3>1. jobs'[j] = [jobs[j] EXCEPT !.status = "RUNNING", !.completed = FALSE]
      BY <1>1, <2>2 DEF UpdateJob, TypeInv, TypeOK, DBTypeOK
    <3> QED BY <1>1, <2>2, <3>1 DEF JobRow, Active
  <2> QED BY <2>1, <2>2 DEF Works
<1>6. /\ \A h \in Handlers : Busy(h) => req[h].job \in JobIds /\ req[h].job # j
      /\ \A q \in Procs : \A i \in DOMAIN chan[q] : chan[q][i] \in JobIds /\ chan[q][i] # j
  <2>1. \A h \in Handlers : Busy(h) => req[h].job \in JobIds
    BY RequestFields DEF TypeInv, TypeOK, Busy, Request
  <2>2. \A h \in Handlers : Busy(h) => req[h].job # j
    BY <1>3 DEF Works, PlacesInv, SentNotWorked, ClaimsFresh, Active
  <2>3. \A q \in Procs : \A i \in DOMAIN chan[q] : chan[q][i] \in JobIds
    BY DEF TypeInv, TypeOK, ServiceTypeOK
  <2>4. \A q \in Procs : \A i \in DOMAIN chan[q] : chan[q][i] # j
    BY DEF Works, PlacesInv, QueuedNotWorked
  <2> QED BY <2>1, <2>2, <2>3, <2>4
<1>7. \A q \in Procs, v \in Workers :
        Working(q, v) /\ <<q, v>> # <<p, w>> =>
          wk[q][v].job # j /\ wk[q][v].job \in JobIds /\ jobs[wk[q][v].job].status \in Active
  BY TargetType DEF Works, PlacesInv, WorkedOnce, WorkedActive
<1> HIDE DEF j
<1>8. \A q \in Procs, v \in Workers :
        wk'[q][v].pc # "take" =>
          /\ Working(q, v) /\ wk'[q][v].job = wk[q][v].job
          /\ jobs'[wk[q][v].job].status \in Active
  <2> SUFFICES ASSUME NEW q \in Procs, NEW v \in Workers, wk'[q][v].pc # "take"
               PROVE  /\ Working(q, v) /\ wk'[q][v].job = wk[q][v].job
                      /\ jobs'[wk[q][v].job].status \in Active
    OBVIOUS
  <2>1. CASE <<q, v>> = <<p, w>>
    BY <1>5, <2>1 DEF Works, j
  <2>2. CASE <<q, v>> # <<p, w>>
    BY <1>2, <1>4, <1>7, <2>2 DEF Working
  <2> QED BY <2>1, <2>2
<1>9. \A h \in Handlers : Busy(h) => jobs'[req[h].job].status = jobs[req[h].job].status
  BY <1>4, <1>6
<1>10. \A q \in Procs : \A i \in DOMAIN chan[q] : jobs'[chan[q][i]].status = jobs[chan[q][i]].status
  BY <1>4, <1>6
<1> QED BY <1>2, <1>8, <1>9, <1>10, PlacesShrink DEF Busy, Sending

\* Start-up meets an empty memory.
LEMMA PlacesRecovers ==
  ASSUME PlacesInv, StartInv, NEW p \in Procs, Recover(p)
  PROVE  PlacesInv'
<1>1. Still
  BY DEF StartInv, Recover
<1>2. UNCHANGED <<req, chan, wk>>
  BY DEF Recover
<1> QED BY <1>1, <1>2, PlacesShrink DEF Still, Busy, Working

LEMMA PlacesBoots ==
  ASSUME TypeInv, PlacesInv, StartInv, NEW p \in Procs, Boot(p)
  PROVE  PlacesInv'
<1>1. Still /\ UNCHANGED <<jobs, req, wk>>
  BY DEF StartInv, Boot
<1>2. ASSUME NEW read \in SUBSET PendingJobs, NEW s \in Requeues(read),
             chan' = [chan EXCEPT ![p] = s]
      PROVE  PlacesInv'
  <2>1. \A i \in DOMAIN s : jobs[s[i]].status = "PENDING"
    BY RequeueType
  <2>2. \A i, k \in DOMAIN s : s[i] = s[k] => i = k
    BY DEF Requeues
  <2>3. \A q \in Procs : \A i \in DOMAIN chan'[q] : q = p /\ i \in DOMAIN s /\ chan'[q][i] = s[i]
    <3>1. chan'[p] = s /\ \A q \in Procs : q # p => chan'[q] = chan[q]
      BY <1>2 DEF TypeInv, TypeOK, ServiceTypeOK
    <3> QED BY <1>1, <3>1 DEF Still
  <2>4. ClaimsFresh' /\ ClaimsApart' /\ SentPending' /\ SentNotQueued' /\ SentNotWorked'
    BY <1>1 DEF Still, Busy, Sending, ClaimsFresh, ClaimsApart, SentPending, SentNotQueued,
       SentNotWorked
  <2>5. WorkedActive' /\ WorkedOnce' /\ QueuedNotWorked'
    BY <1>1 DEF Still, Working, WorkedActive, WorkedOnce, QueuedNotWorked
  <2>6. QueuedPending'
    BY <1>1, <2>1, <2>3 DEF QueuedPending
  <2>7. QueuedOnce'
    BY <2>2, <2>3 DEF QueuedOnce
  <2> QED BY <2>4, <2>5, <2>6, <2>7 DEF PlacesInv
<1> QED BY <1>2 DEF Boot

LEMMA PlacesCrashes ==
  ASSUME TypeInv, PlacesInv, NEW p \in Procs, Crash(p)
  PROVE  PlacesInv'
<1>1. /\ \A h \in Handlers : req'[h] = Idle \/ req'[h] = req[h]
      /\ \A q \in Procs : chan'[q] = chan[q] \/ DOMAIN chan'[q] = {}
      /\ \A q \in Procs, w \in Workers : wk'[q][w] = Free \/ wk'[q][w] = wk[q][w]
      /\ UNCHANGED jobs
  BY DEF Crash, TypeInv, TypeOK, ServiceTypeOK, WorkerTypeOK
<1>2. \A q \in Procs, w \in Workers : Working(q, w) => jobs[wk[q][w].job].status \in Active
  BY DEF PlacesInv, WorkedActive
<1> QED BY <1>1, <1>2, PlacesShrink DEF Idle, Free, Busy, Sending, Working

LEMMA PlacesCleans ==
  ASSUME TypeInv, PlacesInv, Clean
  PROVE  PlacesInv'
<1>1. /\ UNCHANGED <<req, chan, wk>>
      /\ \A j \in JobIds : jobs[j].status \notin Terminal => jobs'[j] = jobs[j]
  BY DEF Clean, DeleteExpired, Expirable
<1>2. /\ \A h \in Handlers : Busy(h) => req[h].job \in JobIds
      /\ \A p \in Procs : \A i \in DOMAIN chan[p] : chan[p][i] \in JobIds
      /\ \A p \in Procs, w \in Workers : Working(p, w) => wk[p][w].job \in JobIds
  BY RequestFields, TargetType DEF TypeInv, TypeOK, ServiceTypeOK, Busy, Request
<1>3. /\ \A h \in Handlers : Busy(h) => jobs[req[h].job].status \notin Terminal
      /\ \A p \in Procs : \A i \in DOMAIN chan[p] : jobs[chan[p][i]].status \notin Terminal
      /\ \A p \in Procs, w \in Workers : Working(p, w) => jobs[wk[p][w].job].status \in Active
  BY DEF PlacesInv, ClaimsFresh, SentPending, QueuedPending, WorkedActive, Active, Terminal
<1>4. \A p \in Procs, w \in Workers : Working(p, w) => jobs'[wk[p][w].job].status \in Active
  BY <1>1, <1>2, <1>3 DEF Active, Terminal
<1>5. /\ \A h \in Handlers : Busy(h) => jobs'[req[h].job].status = jobs[req[h].job].status
      /\ \A p \in Procs : \A i \in DOMAIN chan[p] :
           jobs'[chan[p][i]].status = jobs[chan[p][i]].status
  BY <1>1, <1>2, <1>3
<1> QED BY <1>1, <1>4, <1>5, PlacesShrink DEF Busy, Sending, Working

LEMMA PlacesNext == TypeInv /\ PlacesInv /\ StartInv /\ [Next]_vars => PlacesInv'
<1> SUFFICES ASSUME TypeInv, PlacesInv, StartInv, [Next]_vars PROVE PlacesInv'
  OBVIOUS
<1>1. ASSUME NEW h \in Handlers, Settles(h) PROVE PlacesInv'
  <2>1. req[h] \in Request /\ Busy(h)
    BY <1>1, RequestFields DEF Settles, TypeInv, TypeOK, Busy
  <2>2. /\ UNCHANGED <<jobs, chan, wk>>
        /\ \A k \in Handlers : k # h => req'[k] = req[k]
    BY <1>1 DEF Settles, Goto, TypeInv, TypeOK, ServiceTypeOK
  <2>3. \/ req'[h] = Idle
        \/ req'[h].job = req[h].job /\ req'[h].pc # "send" /\ ~Sending(h)
    <3>1. ASSUME NEW pc \in {"guard", "commit", "aborted"}, req[h].pc \in {"lock", "guard"}, Goto(h, pc)
          PROVE  req'[h].job = req[h].job /\ req'[h].pc # "send" /\ ~Sending(h)
      <4>1. req'[h] = [req[h] EXCEPT !.pc = pc]
        BY <3>1 DEF Goto, TypeInv, TypeOK, ServiceTypeOK
      <4> QED BY <2>1, <3>1, <4>1 DEF Request, Sending
    <3> QED BY <1>1, <3>1 DEF Settles, TypeInv, TypeOK, ServiceTypeOK
  <2>4. \A p \in Procs, w \in Workers : Working(p, w) => jobs[wk[p][w].job].status \in Active
    BY DEF PlacesInv, WorkedActive
  <2> QED BY <2>1, <2>2, <2>3, <2>4, PlacesShrink DEF Busy, Sending, Working, Idle
<1>2. CASE UNCHANGED <<jobs, phase, req, chan, wk>>
  BY <1>2 DEF PlacesInv, ClaimsFresh, ClaimsApart, SentPending, QueuedPending, WorkedActive,
     SentNotQueued, SentNotWorked, QueuedOnce, QueuedNotWorked, WorkedOnce, Busy, Sending, Working
<1> QED BY <1>1, <1>2, JobSteps, PlacesClaims, PlacesInserts, PlacesSends, PlacesTakes,
           PlacesWorks, PlacesRecovers, PlacesBoots, PlacesCrashes, PlacesCleans DEF JobStep

\* While some process is not up nothing happens but start-up, crashes and clean-ups.
LEMMA StartNext ==
  ASSUME Sole
  PROVE  TypeInv /\ StartInv /\ [Next]_vars => StartInv'
<1> SUFFICES ASSUME TypeInv, StartInv, [Next]_vars, NEW z \in Procs, phase'[z] # "up"
             PROVE  Still'
  BY DEF StartInv
<1> USE DEF TypeInv, TypeOK
<1>1. ASSUME NEW p \in Procs, Crash(p) PROVE Still'
  <2>1. One
    <3>1. spent["crashes"] \in Nat /\ spent["crashes"] < MaxCrashes
      BY <1>1 DEF Crash, Spend, Budgets, Limit
    <3>2. MaxCrashes # 0
      BY <3>1
    <3> QED BY <3>2 DEF Sole
  <2>2. Procs = {p}
    BY <2>1 DEF One
  <2>3. \A h \in Handlers : req'[h] = Idle
    <3>1. \A h \in Handlers : Busy(h) => req[h].proc = p
      BY <2>2, RequestFields DEF Busy, Request
    <3>2. \A h \in Handlers : ~Busy(h) => req[h] = Idle
      BY DEF ServiceTypeOK, Busy, Request, HandlerPC
    <3> QED BY <1>1, <3>1, <3>2 DEF Crash
  <2>4. DOMAIN chan'[p] = {} /\ \A w \in Workers : wk'[p][w] = Free
    BY <1>1 DEF Crash, ServiceTypeOK, WorkerTypeOK
  <2> QED BY <2>1, <2>2, <2>3, <2>4 DEF Still, Busy, Idle, Working, Free
<1>2. CASE \A p \in Procs : phase[p] = "up"
  <2>1. phase' # phase
    BY <1>2
  <2> QED BY <1>1, <1>2, <2>1, JobSteps DEF JobStep, Claims, Inserts, Settles, Sends, Takes, Works,
             Recover, Boot, Clean
<1>3. CASE \E p \in Procs : phase[p] # "up"
  <2>1. Still
    BY <1>3 DEF StartInv
  <2>2. ASSUME NEW h \in Handlers PROVE ~Claims(h) /\ ~Inserts(h) /\ ~Settles(h) /\ ~Sends(h)
    <3>1. ~Claims(h)
      BY <1>3 DEF Claims, Accepting, Sole, One
    <3> QED BY <2>1, <3>1 DEF Still, Inserts, Settles, Sends, Busy, Deciding
  <2>3. ASSUME NEW p \in Procs, NEW w \in Workers PROVE ~Takes(p, w) /\ ~Works(p, w)
    <3>1. ASSUME chan[p] # <<>> PROVE FALSE
      <4>1. chan[p] \in Seq(JobIds)
        BY DEF ServiceTypeOK
      <4>2. 1 \in DOMAIN chan[p]
        BY <3>1, <4>1
      <4> QED BY <2>1, <4>2 DEF Still
    <3> QED BY <2>1, <3>1 DEF Still, Takes, Works
  <2>4. ASSUME NEW p \in Procs, Recover(p) PROVE Still'
    <3>1. UNCHANGED <<req, chan, wk>>
      BY <2>4 DEF Recover
    <3>2. (\A j \in JobIds : jobs[j].status = "UNUSED") => \A j \in JobIds : jobs'[j].status = "UNUSED"
      BY <2>4 DEF Recover, MarkRunningAsFailed
    <3> QED BY <2>1, <3>1, <3>2 DEF Still, Busy, Working
  <2>5. ASSUME NEW p \in Procs, Boot(p) PROVE Still'
    <3>1. UNCHANGED <<jobs, req, wk>>
      BY <2>5 DEF Boot
    <3>2. phase' = [phase EXCEPT ![p] = "up"]
      BY <2>5 DEF Boot
    <3>3. ~One
      BY <3>2 DEF One, ServiceTypeOK
    <3>4. \A q \in Procs : DOMAIN chan'[q] = {}
      <4>1. ASSUME NEW read \in SUBSET PendingJobs, NEW s \in Requeues(read)
            PROVE  DOMAIN s = {}
        <5>1. s \in Seq(JobIds) /\ \A i \in DOMAIN s : jobs[s[i]].status = "PENDING"
          BY RequeueType
        <5>2. \A i \in DOMAIN s : s[i] \in JobIds
          BY <5>1
        <5>3. \A j \in JobIds : jobs[j].status = "UNUSED"
          BY <2>1, <3>3 DEF Still
        <5> QED BY <5>1, <5>2, <5>3
      <4>2. PICK read \in SUBSET PendingJobs : \E s \in Requeues(read) : chan' = [chan EXCEPT ![p] = s]
        BY <2>5 DEF Boot
      <4> QED BY <2>1, <4>1, <4>2 DEF Still, ServiceTypeOK
    <3> QED BY <2>1, <3>1, <3>4 DEF Still, Busy, Working
  <2>6. CASE Clean
    <3>1. UNCHANGED <<req, chan, wk>>
      BY <2>6 DEF Clean
    <3>2. (\A j \in JobIds : jobs[j].status = "UNUSED") => \A j \in JobIds : jobs'[j].status = "UNUSED"
      BY <2>6 DEF Clean, DeleteExpired, Expirable, Terminal
    <3> QED BY <2>1, <3>1, <3>2 DEF Still, Busy, Working
  <2>7. CASE UNCHANGED <<jobs, phase, req, chan, wk>>
    BY <2>1, <2>7 DEF Still, Busy, Working
  <2> QED BY <1>1, <2>2, <2>3, <2>4, <2>5, <2>6, <2>7, JobSteps DEF JobStep
<1> QED BY <1>2, <1>3

LEMMA PlacesInvariant ==
  ASSUME Sole
  PROVE  Spec => [](TypeInv /\ PlacesInv)
<1>1. Spec => []StartInv
  BY PlacesInit, StartNext, TypeCorrect, PTL DEF Spec
<1> QED BY <1>1, PlacesInit, PlacesNext, TypeCorrect, PTL DEF Spec

\* A job is carried out by one goroutine: in memory it is in one place, whatever
\* crashes and restarts put it there.
THEOREM OnePlace ==
  ASSUME Sole
  PROVE  Spec => []HeldOnce
<1>1. TypeInv /\ PlacesInv => HeldOnce
  <2> SUFFICES ASSUME PlacesInv, NEW j \in JobIds, NEW x \in Held(j), NEW y \in Held(j)
               PROVE  x = y
    BY DEF HeldOnce
  <2>1. ASSUME NEW z \in Held(j)
        PROVE  \/ \E h \in Handlers : z = <<"handler", h>> /\ Sending(h) /\ req[h].job = j
               \/ \E p \in Procs : \E i \in DOMAIN chan[p] : z = <<"chan", p, i>> /\ chan[p][i] = j
               \/ \E p \in Procs, w \in Workers :
                    z = <<"worker", p, w>> /\ Working(p, w) /\ wk[p][w].job = j
    BY <2>1 DEF Held, InSend, InChan, InWork, Sending
  <2>2. \A h \in Handlers : Sending(h) => Busy(h)
    BY DEF Sending, Busy
  <2> QED BY <2>1, <2>2 DEF PlacesInv, ClaimsApart, SentNotQueued, SentNotWorked, QueuedOnce,
             QueuedNotWorked, WorkedOnce
<1> QED BY <1>1, PlacesInvariant, PTL

\* What memory holds is PENDING or RUNNING in the table: the guards see it.
THEOREM HeldJobsActive ==
  ASSUME Sole
  PROVE  Spec => []HeldIsActive
<1>1. PlacesInv => HeldIsActive
  BY DEF PlacesInv, SentPending, QueuedPending, WorkedActive, HeldIsActive, Held, InSend, InChan,
     InWork, Sending, Active
<1> QED BY <1>1, PlacesInvariant, PTL

\* No handler, worker, restart or clean-up changes a result, but for deleting it.
THEOREM ResultsStay ==
  ASSUME Sole
  PROVE  Spec => ResultsAreFinal
<1>1. ASSUME TypeInv, PlacesInv, [Next]_vars, NEW j \in JobIds, jobs[j].status \in Terminal
      PROVE  jobs'[j] = jobs[j] \/ jobs'[j].status = "GONE"
  <2> USE DEF TypeInv, TypeOK, DBTypeOK
  <2>1. ASSUME NEW h \in Handlers, Inserts(h) PROVE jobs'[j] = jobs[j]
    <3>1. jobs[req[h].job].status = "UNUSED"
      BY <1>1, <2>1 DEF Inserts, PlacesInv, ClaimsFresh, Busy, Sending, Deciding
    <3> QED BY <1>1, <2>1, <3>1 DEF Inserts, SaveJob, Terminal
  <2>2. ASSUME NEW p \in Procs, NEW w \in Workers, Works(p, w) PROVE jobs'[j] = jobs[j]
    <3>1. jobs[wk[p][w].job].status \in Active
      BY <1>1, <2>2 DEF Works, PlacesInv, WorkedActive
    <3> QED BY <1>1, <2>2, <3>1 DEF Works, UpdateJob, Active, Terminal
  <2>3. ASSUME NEW p \in Procs, Recover(p) PROVE jobs'[j] = jobs[j]
    BY <1>1, <2>3 DEF Recover, MarkRunningAsFailed, Terminal
  <2>4. CASE Clean
    <3>1. PICK old \in SUBSET Expirable : DeleteExpired(old)
      BY <2>4 DEF Clean
    <3>2. jobs'[j] = IF j \in old THEN [jobs[j] EXCEPT !.status = "GONE"] ELSE jobs[j]
      BY <3>1 DEF DeleteExpired
    <3>3. jobs[j] \in JobRow
      BY <1>1 DEF Terminal, Unused
    <3> QED BY <3>2, <3>3 DEF JobRow
  <2>5. CASE UNCHANGED jobs
    BY <2>5
  <2> QED BY <1>1, <2>1, <2>2, <2>3, <2>4, <2>5, JobSteps DEF JobStep, Claims, Settles, Sends,
             Takes, Boot, Crash
<1>2. TypeInv /\ PlacesInv /\ [Next]_vars =>
        [\A j \in JobIds : jobs[j].status \in Terminal =>
           jobs'[j] = jobs[j] \/ jobs'[j].status = "GONE"]_vars
  BY <1>1
<1> QED BY <1>2, PlacesInvariant, PTL DEF Spec, ResultsAreFinal

-----------------------------------------------------------------------------
(* One job at a time for a container.  The guard of Start, Stop and Delete *)
(* looks for a job under way and inserts its own later; that the answer is *)
(* still true then rests on the row lock, and for Create, which has no     *)
(* guard, on clients that do not know the container yet.                   *)

\* A request in progress is untouched by a step, or has just arrived, or has
\* inserted its job, or has come past its mutex or its guard.
Advances(h) ==
  /\ Busy(h)
  /\ req'[h] = [req[h] EXCEPT !.pc = req'[h].pc]
  /\ \/ req[h].pc = "lock" /\ req'[h].pc = "guard"
     \/ /\ req[h].pc = "guard" /\ req'[h].pc = "commit"
        /\ Accepts(req[h].op, req[h].user, req[h].ctr)
     \/ req[h].pc = "guard" /\ req'[h].pc = "aborted"

LEMMA RequestMoves ==
  ASSUME TypeInv, [Next]_vars, NEW h \in Handlers, req'[h].pc # "idle"
  PROVE  \/ req'[h] = req[h]
         \/ Claims(h)
         \/ Inserts(h) /\ req'[h] = [req[h] EXCEPT !.pc = "send"]
         \/ Advances(h)
<1> USE DEF TypeInv, TypeOK, ServiceTypeOK
<1>1. ASSUME NEW k \in Handlers, Claims(k) \/ Inserts(k) \/ Settles(k) \/ Sends(k), k # h
      PROVE  req'[h] = req[h]
  BY <1>1 DEF Claims, Inserts, Settles, Sends, Goto
<1>2. ASSUME Inserts(h) PROVE req'[h] = [req[h] EXCEPT !.pc = "send"]
  <2>1. CASE Goto(h, "send")
    BY <2>1 DEF Goto
  <2>2. CASE req' = [req EXCEPT ![h] = Idle]
    BY <2>2 DEF Idle
  <2> QED BY <1>2, <2>1, <2>2 DEF Inserts
<1>3. ASSUME Settles(h) PROVE Advances(h)
  <2>1. req[h] \in Request /\ Busy(h)
    BY <1>3, RequestFields DEF Settles, Busy
  <2>2. ASSUME NEW pc, Goto(h, pc) PROVE req'[h] = [req[h] EXCEPT !.pc = pc] /\ req'[h].pc = pc
    <3>1. req'[h] = [req[h] EXCEPT !.pc = pc]
      BY <2>2 DEF Goto
    <3> QED BY <2>1, <3>1 DEF Request
  <2>3. req'[h] # Idle
    BY DEF Idle
  <2> QED BY <1>3, <2>1, <2>2, <2>3 DEF Settles, Advances
<1>4. ~Sends(h)
  BY DEF Sends, Idle
<1>5. ASSUME NEW p \in Procs, Crash(p) PROVE req'[h] = req[h]
  BY <1>5 DEF Crash, Idle
<1> QED BY <1>1, <1>2, <1>3, <1>4, <1>5, JobSteps DEF JobStep, Takes, Works, Recover, Boot, Clean

\* A job is active after a step that inserts none only if it was.
LEMMA ActiveMoves ==
  ASSUME TypeInv, PlacesInv, [Next]_vars, \A h \in Handlers : ~Inserts(h),
         NEW j \in JobIds, jobs'[j].status \in Active
  PROVE  /\ jobs[j].status \in Active
         /\ jobs'[j].type = jobs[j].type /\ jobs'[j].target = jobs[j].target
<1> USE DEF TypeInv, TypeOK, DBTypeOK
<1>1. CASE jobs'[j] = jobs[j]
  BY <1>1
<1>2. ASSUME NEW p \in Procs, NEW w \in Workers, Works(p, w), jobs'[j] # jobs[j]
      PROVE  /\ jobs[j].status \in Active
             /\ jobs'[j].type = jobs[j].type /\ jobs'[j].target = jobs[j].target
  <2>1. PICK s, b : UpdateJob(wk[p][w].job, s, b)
    BY <1>2 DEF Works
  <2>2. j = wk[p][w].job
    BY <1>2, <2>1 DEF UpdateJob
  <2>3. jobs[j].status \in Active
    BY <1>2, <2>2 DEF Works, PlacesInv, WorkedActive
  <2>4. jobs'[j] = [jobs[j] EXCEPT !.status = s, !.completed = b]
    BY <2>1, <2>2 DEF UpdateJob
  <2>5. jobs[j] \in JobRow
    BY <2>3 DEF Active, Unused
  <2> QED BY <2>3, <2>4, <2>5 DEF JobRow
<1>3. ASSUME NEW p \in Procs, Recover(p), jobs'[j] # jobs[j] PROVE FALSE
  <2>1. jobs[j].status = "RUNNING" /\ jobs'[j] = [jobs[j] EXCEPT !.status = "FAILED"]
    BY <1>3 DEF Recover, MarkRunningAsFailed
  <2>2. jobs[j] \in JobRow
    BY <2>1 DEF Unused
  <2> QED BY <2>1, <2>2 DEF JobRow, Active
<1>4. ASSUME Clean, jobs'[j] # jobs[j] PROVE FALSE
  <2>1. jobs[j].status \in Terminal /\ jobs'[j] = [jobs[j] EXCEPT !.status = "GONE"]
    BY <1>4 DEF Clean, DeleteExpired, Expirable
  <2>2. jobs[j] \in JobRow
    BY <2>1 DEF Terminal, Unused
  <2> QED BY <2>1, <2>2 DEF JobRow, Active
<1> QED BY <1>1, <1>2, <1>3, <1>4, JobSteps DEF JobStep, Claims, Settles, Sends, Takes, Boot, Crash

\* The step of a handler that inserts its job.
LEMMA InsertSets ==
  ASSUME TypeInv, ClaimsFresh, NEW h \in Handlers, Inserts(h)
  PROVE  /\ req[h] \in Request /\ req[h].pc \in Deciding
         /\ jobs'[req[h].job].status = "PENDING"
         /\ jobs'[req[h].job].target = req[h].ctr
         /\ jobs'[req[h].job].type = IF req[h].pc = "savejob" THEN "create" ELSE req[h].op
         /\ \A j \in JobIds : j # req[h].job => jobs'[j] = jobs[j]
         /\ jobs[req[h].job].status = "UNUSED"
         /\ req'[h].pc \in {"send", "idle"}
         /\ \A k \in Handlers : k # h => req'[k] = req[k]
<1> USE DEF TypeInv, TypeOK, DBTypeOK, ServiceTypeOK
<1>1. req[h] \in Request /\ req[h].pc \in Deciding
  BY RequestFields DEF Inserts, Deciding
<1>2. jobs[req[h].job].status = "UNUSED"
  BY <1>1 DEF ClaimsFresh, Busy, Sending, Deciding
<1>3. req[h].job \in JobIds
  BY <1>1 DEF Request
<1>4. /\ jobs'[req[h].job] =
           [status |-> "PENDING", target |-> req[h].ctr, user |-> req[h].user,
            type |-> IF req[h].pc = "savejob" THEN "create" ELSE req[h].op,
            completed |-> FALSE]
      /\ \A j \in JobIds : j # req[h].job => jobs'[j] = jobs[j]
  BY <1>3 DEF Inserts, SaveJob
<1>5. req'[h].pc \in {"send", "idle"} /\ \A k \in Handlers : k # h => req'[k] = req[k]
  <2>1. CASE Goto(h, "send")
    <3>1. req'[h] = [req[h] EXCEPT !.pc = "send"]
      BY <2>1 DEF Goto
    <3> QED BY <1>1, <2>1, <3>1 DEF Goto, Request
  <2>2. CASE req' = [req EXCEPT ![h] = Idle]
    BY <2>2 DEF Idle
  <2> QED BY <2>1, <2>2 DEF Inserts
<1> QED BY <1>1, <1>2, <1>4, <1>5

LEMMA InsertMoves ==
  ASSUME TypeInv, PlacesInv, NEW h \in Handlers, Inserts(h)
  PROVE  /\ req[h] \in Request /\ req[h].pc \in Deciding
         /\ jobs'[req[h].job].status = "PENDING"
         /\ jobs'[req[h].job].target = req[h].ctr
         /\ jobs'[req[h].job].type = IF req[h].pc = "savejob" THEN "create" ELSE req[h].op
         /\ \A j \in JobIds : j # req[h].job => jobs'[j] = jobs[j]
         /\ jobs[req[h].job].status = "UNUSED"
         /\ req'[h].pc \in {"send", "idle"}
         /\ \A k \in Handlers : k # h => req'[k] = req[k]
BY InsertSets DEF PlacesInv

-----------------------------------------------------------------------------
(* Start, Stop and Delete. *)

OpsFit == \A h \in Handlers :
            /\ req[h].pc = "savejob" => req[h].op = "create"
            /\ req[h].pc \in {"lock", "guard", "commit"} => req[h].op \in Guarded

\* While a guard's answer stands, no guarded job appears.
GuardedFree == \A h \in Handlers, j \in JobIds :
                 /\ req[h].pc = "commit"
                 /\ IsActive(j, req[h].ctr)
                 => jobs[j].type \notin Guarded

GuardInv == OpsFit /\ GuardedFree /\ OneActiveGuardedJob

LEMMA GuardInit == Init => GuardInv
BY DEF Init, DBInit, ServiceInit, GuardInv, OpsFit, GuardedFree, OneActiveGuardedJob, IsActive,
   Active, Idle, Unused

LEMMA OpsNext == TypeInv /\ OpsFit /\ [Next]_vars => OpsFit'
<1> SUFFICES ASSUME TypeInv, OpsFit, [Next]_vars, NEW h \in Handlers
             PROVE  /\ req'[h].pc = "savejob" => req'[h].op = "create"
                    /\ req'[h].pc \in {"lock", "guard", "commit"} => req'[h].op \in Guarded
  BY DEF OpsFit
<1>1. CASE req'[h].pc = "idle"
  BY <1>1
<1>2. CASE req'[h] = req[h]
  BY <1>2 DEF OpsFit
<1>3. CASE Claims(h)
  <2>1. PICK r \in Request : /\ \/ r.pc = "savejob" /\ r.op = "create"
                                \/ r.pc = "lock" /\ r.op \in Guarded
                             /\ req' = [req EXCEPT ![h] = r]
    BY <1>3 DEF Claims
  <2> QED BY <2>1 DEF TypeInv, TypeOK, ServiceTypeOK
<1>4. CASE req[h] \in Request /\ req'[h] = [req[h] EXCEPT !.pc = "send"]
  BY <1>4 DEF Request
<1>5. CASE Advances(h)
  <2>1. req[h] \in Request
    BY <1>5, RequestFields DEF Advances, Busy, TypeInv, TypeOK
  <2>2. req'[h].op = req[h].op
    BY <1>5, <2>1 DEF Advances, Request
  <2> QED BY <1>5, <2>2 DEF Advances, OpsFit
<1>6. ASSUME Inserts(h) PROVE req[h] \in Request
  BY <1>6, RequestFields DEF Inserts, Deciding, TypeInv, TypeOK
<1> QED BY <1>1, <1>2, <1>3, <1>4, <1>5, <1>6, RequestMoves

LEMMA GuardNext == TypeInv /\ PlacesInv /\ LockInv /\ GuardInv /\ [Next]_vars => GuardInv'
<1> SUFFICES ASSUME TypeInv, PlacesInv, LockInv, GuardInv, [Next]_vars PROVE GuardInv'
  OBVIOUS
<1>1. OpsFit'
  BY OpsNext DEF GuardInv
<1>2. CASE \A h \in Handlers : ~Inserts(h)
  <2>1. OneActiveGuardedJob'
    <3>1. \A j \in JobIds : jobs'[j].status \in Active =>
            /\ jobs[j].status \in Active
            /\ jobs'[j].type = jobs[j].type /\ jobs'[j].target = jobs[j].target
      BY <1>2, ActiveMoves
    <3> QED BY <3>1 DEF GuardInv, OneActiveGuardedJob
  <2>2. ASSUME NEW h \in Handlers, NEW j \in JobIds, req'[h].pc = "commit", jobs'[j].status \in Active,
               jobs'[j].target = req'[h].ctr
        PROVE  jobs'[j].type \notin Guarded
    <3>1. /\ jobs[j].status \in Active
          /\ jobs'[j].type = jobs[j].type /\ jobs'[j].target = jobs[j].target
      BY <1>2, <2>2, ActiveMoves
    <3>2. req'[h] = req[h] \/ Claims(h) \/ Advances(h)
      BY <1>2, <2>2, RequestMoves
    <3>3. CASE req'[h] = req[h]
      BY <2>2, <3>1, <3>3 DEF GuardInv, GuardedFree, IsActive
    <3>4. CASE Advances(h)
      <4>1. req[h] \in Request
        BY <3>4, RequestFields DEF Advances, Busy, TypeInv, TypeOK
      <4>2. req'[h].ctr = req[h].ctr /\ Accepts(req[h].op, req[h].user, req[h].ctr)
        BY <2>2, <3>4, <4>1 DEF Advances, Request
      <4> QED BY <2>2, <3>1, <4>2 DEF Accepts, HasActiveJob, IsActive
    <3>5. ~Claims(h)
      BY <2>2 DEF Claims, TypeInv, TypeOK, ServiceTypeOK
    <3> QED BY <3>2, <3>3, <3>4, <3>5
  <2> QED BY <1>1, <2>1, <2>2 DEF GuardInv, GuardedFree, IsActive
<1>3. ASSUME NEW h \in Handlers, Inserts(h) PROVE GuardInv'
  <2> DEFINE c == req[h].ctr
             n == req[h].job
  <2>1. /\ req[h].pc \in Deciding
        /\ jobs'[n].status = "PENDING"
        /\ jobs'[n].target = c
        /\ jobs'[n].type = IF req[h].pc = "savejob" THEN "create" ELSE req[h].op
        /\ \A j \in JobIds : j # n => jobs'[j] = jobs[j]
        /\ req'[h].pc \in {"send", "idle"}
        /\ \A k \in Handlers : k # h => req'[k] = req[k]
    BY <1>3, InsertMoves
  <2> HIDE DEF c, n
  \* No guarded job was active for the container of a guarded request.
  <2>2. ASSUME jobs'[n].type \in Guarded, NEW j \in JobIds, IsActive(j, c)
        PROVE  jobs[j].type \notin Guarded
    <3>1. req[h].pc = "commit"
      BY <2>1, <2>2 DEF Deciding, Guarded
    <3> QED BY <2>2, <3>1 DEF GuardInv, GuardedFree, c
  <2>3. OneActiveGuardedJob'
    BY <2>1, <2>2 DEF GuardInv, OneActiveGuardedJob, IsActive
  <2>4. ASSUME NEW k \in Handlers, NEW j \in JobIds, req'[k].pc = "commit",
               jobs'[j].status \in Active, jobs'[j].target = req'[k].ctr
        PROVE  jobs'[j].type \notin Guarded
    <3>1. k # h /\ req'[k] = req[k]
      BY <2>1, <2>4
    <3>2. CASE j # n
      BY <2>1, <2>4, <3>1, <3>2 DEF GuardInv, GuardedFree, IsActive
    <3>3. CASE j = n
      <4>1. req[h].pc # "commit"
        BY <2>1, <2>4, <3>1, <3>3 DEF LockInv, c
      <4> QED BY <2>1, <3>3, <4>1 DEF Deciding, Guarded
    <3> QED BY <3>2, <3>3
  <2> QED BY <1>1, <2>3, <2>4 DEF GuardInv, GuardedFree, IsActive
<1> QED BY <1>2, <1>3

LEMMA GuardInvariant ==
  ASSUME Sole
  PROVE  Spec => [](TypeInv /\ PlacesInv /\ LockInv /\ GuardInv)
<1>1. Spec => [](TypeInv /\ LockInv)
  BY LockInit, LockNext, TypeCorrect, PTL DEF Spec
<1> QED BY <1>1, PlacesInvariant, GuardInit, GuardNext, PTL DEF Spec

\* The guard's answer is still true when its transaction commits: a container has
\* at most one Start, Stop or Delete job under way, even when clients act on
\* containers that are still being created.
THEOREM OneGuardedJob ==
  ASSUME Sole
  PROVE  Spec => []OneActiveGuardedJob
<1>1. GuardInv => OneActiveGuardedJob
  BY DEF GuardInv
<1> QED BY <1>1, GuardInvariant, PTL

-----------------------------------------------------------------------------
(* All jobs, when clients wait to be told of a container. *)

ReqsGenerated == \A h \in Handlers : Busy(h) => Generated(req[h].ctr)

\* The container a request creates is its own.
CreatesAlone == \A h, k \in Handlers :
                  /\ Busy(h) /\ Busy(k) /\ h # k
                  /\ req[h].op = "create"
                  => req[h].ctr # req[k].ctr

\* A handler that is about to insert a job inserts the only one.
DecidesFree == \A h \in Handlers, j \in JobIds :
                 req[h].pc \in Deciding => ~IsActive(j, req[h].ctr)

AloneInv == ReqsGenerated /\ CreatesAlone /\ DecidesFree /\ OneActiveJob

LEMMA AloneInit == Init => AloneInv
BY DEF Init, DBInit, ServiceInit, AloneInv, ReqsGenerated, CreatesAlone, DecidesFree, OneActiveJob,
   IsActive, Active, Deciding, Busy, Idle, Unused

\* A request goes on with the container and the job it came with.
LEMMA RequestKeeps ==
  ASSUME TypeInv, [Next]_vars, NEW h \in Handlers, req'[h].pc # "idle", ~Claims(h)
  PROVE  /\ Busy(h) /\ req[h] \in Request
         /\ req'[h].op = req[h].op /\ req'[h].ctr = req[h].ctr /\ req'[h].job = req[h].job
<1>1. Busy(h)
  BY RequestMoves DEF Inserts, Advances, Deciding, Busy
<1>2. req[h] \in Request
  BY <1>1, RequestFields DEF TypeInv, TypeOK, Busy
<1>3. \/ req'[h] = req[h]
      \/ \E pc : req'[h] = [req[h] EXCEPT !.pc = pc]
  BY RequestMoves DEF Advances
<1> QED BY <1>1, <1>2, <1>3 DEF Request

\* What a request brings that arrives.
LEMMA ClaimMoves ==
  ASSUME TypeInv, NEW h \in Handlers, Claims(h)
  PROVE  /\ ~Busy(h)
         /\ req'[h] \in Request
         /\ \A k \in Handlers : k # h => req'[k] = req[k]
         /\ \/ /\ req'[h].pc = "savejob" /\ req'[h].op = "create"
               /\ ~Generated(req'[h].ctr) /\ containers'[req'[h].ctr].status = "Created"
            \/ /\ req'[h].pc = "lock" /\ req'[h].op \in Guarded
               /\ Generated(req'[h].ctr) /\ (EarlyAccess \/ ~BeingCreated(req'[h].ctr))
               /\ UNCHANGED containers
         /\ UNCHANGED jobs
<1>1. PICK r \in Request :
        /\ \/ /\ r.pc = "savejob" /\ r.op = "create"
              /\ ~Generated(r.ctr) /\ containers'[r.ctr].status = "Created"
           \/ /\ r.pc = "lock" /\ r.op \in Guarded
              /\ Generated(r.ctr) /\ (EarlyAccess \/ ~BeingCreated(r.ctr))
              /\ UNCHANGED containers
        /\ req' = [req EXCEPT ![h] = r]
  BY DEF Claims
<1>2. req'[h] = r /\ \A k \in Handlers : k # h => req'[k] = req[k]
  BY <1>1 DEF TypeInv, TypeOK, ServiceTypeOK
<1> QED BY <1>1, <1>2 DEF Claims, Busy

LEMMA AloneNext ==
  ASSUME ~EarlyAccess
  PROVE  TypeInv /\ PlacesInv /\ LockInv /\ OwnerInv /\ OpsFit /\ AloneInv /\ [Next]_vars => AloneInv'
<1> SUFFICES ASSUME TypeInv, PlacesInv, LockInv, OwnerInv, OpsFit, AloneInv, [Next]_vars
             PROVE  AloneInv'
  OBVIOUS
<1>1. ReqsGenerated'
  <2> SUFFICES ASSUME NEW h \in Handlers, req'[h].pc # "idle"
               PROVE  containers'[req'[h].ctr].status # "UNUSED"
    BY DEF ReqsGenerated, Busy, Generated
  <2>1. CASE Claims(h)
    BY <2>1, ClaimMoves DEF Generated
  <2>2. CASE ~Claims(h)
    <3>1. Busy(h) /\ req[h].ctr \in ContainerIds /\ req'[h].ctr = req[h].ctr
      BY <2>2, RequestKeeps DEF Request
    <3> QED BY <3>1, RowsKeepOwner DEF AloneInv, ReqsGenerated, Generated
  <2> QED BY <2>1, <2>2
<1>2. CreatesAlone'
  <2> SUFFICES ASSUME NEW h \in Handlers, NEW k \in Handlers, h # k,
                      req'[h].pc # "idle", req'[k].pc # "idle", req'[h].op = "create"
               PROVE  req'[h].ctr # req'[k].ctr
    BY DEF CreatesAlone, Busy
  <2>1. CASE Claims(h)
    <3>1. Busy(k) /\ req'[k] = req[k] /\ ~Generated(req'[h].ctr)
      BY <2>1, ClaimMoves DEF Busy, Guarded
    <3> QED BY <3>1 DEF AloneInv, ReqsGenerated
  <2>2. CASE Claims(k)
    <3>1. /\ Busy(h) /\ req'[h] = req[h]
          /\ ~Generated(req'[k].ctr) \/ ~BeingCreated(req'[k].ctr)
      BY <2>2, ClaimMoves DEF Busy
    <3> QED BY <3>1 DEF AloneInv, ReqsGenerated, BeingCreated
  <2>3. CASE ~Claims(h) /\ ~Claims(k)
    BY <2>3, RequestKeeps DEF AloneInv, CreatesAlone
  <2> QED BY <2>1, <2>2, <2>3
<1>3. CASE \A h \in Handlers : ~Inserts(h)
  <2>1. \A j \in JobIds : jobs'[j].status \in Active =>
          /\ jobs[j].status \in Active
          /\ jobs'[j].target = jobs[j].target
    BY <1>3, ActiveMoves
  <2>2. OneActiveJob'
    BY <2>1 DEF AloneInv, OneActiveJob
  <2>3. ASSUME NEW h \in Handlers, NEW j \in JobIds, req'[h].pc \in Deciding,
               jobs'[j].status \in Active, jobs'[j].target = req'[h].ctr
        PROVE  FALSE
    <3>1. req'[h] = req[h] \/ Claims(h) \/ Advances(h)
      BY <1>3, <2>3, RequestMoves DEF Deciding
    <3>2. CASE req'[h] = req[h]
      BY <2>1, <2>3, <3>2 DEF AloneInv, DecidesFree, IsActive
    <3>3. CASE Claims(h)
      <4>1. ~Generated(req'[h].ctr)
        BY <2>3, <3>3, ClaimMoves DEF Deciding
      <4>2. Generated(jobs[j].target)
        BY <2>1, <2>3 DEF OwnerInv, JobBelongsToOwner, Active
      <4> QED BY <2>1, <2>3, <4>1, <4>2
    <3>4. CASE Advances(h)
      <4>1. req[h] \in Request
        BY <3>4, RequestFields DEF Advances, Busy, TypeInv, TypeOK
      <4>2. req'[h].ctr = req[h].ctr /\ Accepts(req[h].op, req[h].user, req[h].ctr)
        BY <2>3, <3>4, <4>1 DEF Advances, Request, Deciding
      <4> QED BY <2>1, <2>3, <4>2 DEF Accepts, HasActiveJob, IsActive
    <3> QED BY <3>1, <3>2, <3>3, <3>4
  <2> QED BY <1>1, <1>2, <2>2, <2>3 DEF AloneInv, DecidesFree, IsActive
<1>4. ASSUME NEW h \in Handlers, Inserts(h) PROVE AloneInv'
  <2> DEFINE c == req[h].ctr
             n == req[h].job
  <2>1. /\ req[h].pc \in Deciding
        /\ jobs'[n].status = "PENDING"
        /\ jobs'[n].target = c
        /\ \A j \in JobIds : j # n => jobs'[j] = jobs[j]
        /\ req'[h].pc \in {"send", "idle"}
        /\ \A k \in Handlers : k # h => req'[k] = req[k]
    BY <1>4, InsertMoves
  <2>2. \A j \in JobIds : ~IsActive(j, c)
    BY <2>1 DEF AloneInv, DecidesFree
  <2>3. ASSUME NEW k \in Handlers, req[k].pc \in Deciding, k # h PROVE req[k].ctr # c
    BY <2>1, <2>3 DEF AloneInv, CreatesAlone, OpsFit, LockInv, Deciding, Busy
  <2> HIDE DEF c, n
  <2>4. OneActiveJob'
    BY <2>1, <2>2 DEF AloneInv, OneActiveJob, IsActive
  <2>5. DecidesFree'
    <3> SUFFICES ASSUME NEW k \in Handlers, NEW j \in JobIds, req'[k].pc \in Deciding,
                        jobs'[j].status \in Active, jobs'[j].target = req'[k].ctr
                 PROVE  FALSE
      BY DEF DecidesFree, IsActive
    <3>1. k # h /\ req'[k] = req[k]
      BY <2>1 DEF Deciding
    <3>2. req[k].ctr # c
      BY <2>3, <3>1
    <3>3. j # n
      BY <2>1, <3>1, <3>2
    <3> QED BY <2>1, <3>1, <3>3 DEF AloneInv, DecidesFree, IsActive
  <2> QED BY <1>1, <1>2, <2>4, <2>5 DEF AloneInv
<1> QED BY <1>3, <1>4

LEMMA AloneInvariant ==
  ASSUME Sole, ~EarlyAccess
  PROVE  Spec => [](TypeInv /\ PlacesInv /\ LockInv /\ OwnerInv /\ GuardInv /\ AloneInv)
<1>1. Spec => []OwnerInv
  BY OwnerInit, OwnerNext, TypeCorrect, PTL DEF Spec
<1>2. GuardInv => OpsFit
  BY DEF GuardInv
<1> QED BY <1>1, <1>2, GuardInvariant, AloneInit, AloneNext, PTL DEF Spec

\* At most one job of any type is under way for a container.
THEOREM OneJob ==
  ASSUME Sole, ~EarlyAccess
  PROVE  Spec => []OneActiveJob
<1>1. AloneInv => OneActiveJob
  BY DEF AloneInv
<1> QED BY <1>1, AloneInvariant, PTL

\* Two workers are at work on one container only with two jobs for it.
LEMMA JobsApart == TypeInv /\ PlacesInv /\ AloneInv => WorkersApart
<1> SUFFICES ASSUME TypeInv, PlacesInv, AloneInv,
                    NEW p \in Procs, NEW q \in Procs, NEW v \in Workers, NEW w \in Workers,
                    Working(p, v), Working(q, w), TargetOf(p, v) = TargetOf(q, w)
             PROVE  p = q /\ v = w
  BY DEF WorkersApart
<1>1. /\ wk[p][v].job \in JobIds /\ jobs[wk[p][v].job].status \in Active
      /\ wk[q][w].job \in JobIds /\ jobs[wk[q][w].job].status \in Active
  BY TargetType DEF PlacesInv, WorkedActive
<1>2. wk[p][v].job = wk[q][w].job
  BY <1>1 DEF AloneInv, OneActiveJob, TargetOf
<1> QED BY <1>2 DEF PlacesInv, WorkedOnce

\* Two workers are never at work on one container.
THEOREM OneWorker ==
  ASSUME Sole, ~EarlyAccess
  PROVE  Spec => []WorkersApart
BY JobsApart, AloneInvariant, PTL
-----------------------------------------------------------------------------
(* No job is lost, when no call fails and never more jobs are PENDING than the    *)
(* channel holds.                                                                 *)

Roomy == Cardinality(PendingJobs) <= Cap
AllUp == \A p \in Procs : phase[p] = "up"

Sent(j) == \E h \in Handlers : Sending(h) /\ req[h].job = j
Queued(j) == \E p \in Procs : \E i \in DOMAIN chan[p] : chan[p][i] = j
Worked(j) == \E p \in Procs, w \in Workers : Working(p, w) /\ wk[p][w].job = j

\* A process that is about to re-enqueue has no job left RUNNING in the table.
RecoveredInv == \A p \in Procs : phase[p] = "recovered" => \A j \in JobIds : jobs[j].status # "RUNNING"

ActiveAreHeld == AllUp => \A j \in JobIds : jobs[j].status \in Active => Sent(j) \/ Queued(j) \/ Worked(j)

LEMMA NoFault0 == ASSUME TypeInv, MaxFaults = 0 PROVE ~Fault
BY DEF TypeInv, TypeOK, Fault, Spend, Limit, Budgets

LEMMA PendingFinite == IsFiniteSet(PendingJobs) /\ Cardinality(PendingJobs) \in Nat
<1>1. PendingJobs \subseteq JobIds
  BY DEF PendingJobs
<1> QED BY <1>1, JobsAssumption, FS_Subset, FS_CardinalityType

\* A handler with a PENDING job finds room: what is queued is PENDING too, and not its job.
LEMMA RoomToSend ==
  ASSUME TypeInv, PlacesInv, Roomy, NEW h \in Handlers, Sending(h)
  PROVE  Len(chan[req[h].proc]) < Cap
<1> DEFINE s == chan[req[h].proc]
           n == Len(s) + 1
           f == [i \in 1 .. n |-> IF i = n THEN req[h].job ELSE s[i]]
<1>1. req[h] \in Request
  BY RequestFields DEF Sending, TypeInv, TypeOK
<1>2. s \in Seq(JobIds) /\ req[h].job \in PendingJobs
  BY <1>1 DEF TypeInv, TypeOK, ServiceTypeOK, Request, PlacesInv, SentPending, PendingJobs
<1>3. n \in Nat /\ \A i \in 1 .. n : i # n => i \in DOMAIN s
  BY <1>2
<1>4. \A i \in DOMAIN s : s[i] \in PendingJobs /\ s[i] # req[h].job
  BY <1>1, <1>2 DEF Request, PlacesInv, QueuedPending, SentNotQueued, PendingJobs
<1>5. \A i, k \in DOMAIN s : s[i] = s[k] => i = k
  BY <1>1 DEF Request, PlacesInv, QueuedOnce
<1>6. f \in [1 .. n -> PendingJobs]
  BY <1>2, <1>3, <1>4
<1>7. ASSUME NEW i \in 1 .. n, NEW k \in 1 .. n, f[i] = f[k] PROVE i = k
  BY <1>3, <1>4, <1>5, <1>7
<1>8. f \in Injection(1 .. n, PendingJobs)
  <2> HIDE DEF f, n
  <2> QED BY <1>6, <1>7 DEF Injection, IsInjective
<1>9. Cardinality(1 .. n) = n
  BY <1>3, FS_Interval
<1> HIDE DEF f
<1>10. n <= Cardinality(PendingJobs)
  BY <1>8, <1>9, PendingFinite, FS_Injection
<1> QED BY <1>2, <1>10, PendingFinite, CapAssumption DEF Roomy

\* The enqueue loop at start-up finds room for all.
LEMMA RequeuesAll ==
  ASSUME Roomy, NEW s \in Requeues(PendingJobs)
  PROVE  \A j \in PendingJobs : \E i \in DOMAIN s : s[i] = j
<1> DEFINE n == Cardinality(PendingJobs)
<1>1. Least(Cap, n) = n
  BY PendingFinite, CapAssumption DEF Least, Roomy
<1>2. /\ s \in [1 .. n -> PendingJobs]
      /\ \A i, k \in 1 .. n : s[i] = s[k] => i = k
  BY <1>1 DEF Requeues
<1>3. s \in Injection(1 .. n, PendingJobs)
  BY <1>2 DEF Injection, IsInjective
<1>4. Cardinality(1 .. n) = n
  BY PendingFinite, FS_Interval
<1>5. s \in Surjection(1 .. n, PendingJobs)
  BY <1>3, <1>4, PendingFinite, FS_Injection
<1> QED BY <1>2, <1>5 DEF Surjection

\* Memory holds the job.
InMemory(j) == Sent(j) \/ Queued(j) \/ Worked(j)

\* A step of a handler that has nothing to send leaves what memory holds.
LEMMA HandlerHolds ==
  ASSUME NEW h \in Handlers, ~Sending(h), \A k \in Handlers : k # h => req'[k] = req[k],
         UNCHANGED <<chan, wk>>, NEW j \in JobIds, InMemory(j)
  PROVE  InMemory(j)'
BY DEF InMemory, Sent, Queued, Worked, Sending, Working

LEMMA ServiceHolds ==
  ASSUME TypeInv, PlacesInv, ~Fault, Roomy, Service,
         NEW j \in JobIds, jobs'[j].status \in Active,
         jobs[j].status \in Active => InMemory(j)
  PROVE  InMemory(j)'
<1> USE DEF TypeInv, TypeOK, ServiceTypeOK
<1>1. PICK h \in Handlers : CreateSave(h) \/ Submit(h) \/ HandlerStep(h)
  BY DEF Service
<1>2. UNCHANGED wk
  BY DEF Service
<1>3. CASE CreateSave(h) \/ Submit(h) \/ Lock(h) \/ Guard(h) \/ Abort(h)
  <2>1. ~Sending(h) /\ UNCHANGED <<jobs, chan>> /\ \A k \in Handlers : k # h => req'[k] = req[k]
    BY <1>3 DEF CreateSave, Submit, Lock, Guard, Abort, Busy, Sending, Goto, Reply
  <2> QED BY <1>2, <2>1, HandlerHolds
<1>4. CASE CreateSaveJob(h) \/ Commit(h)
  <2>1. req[h] \in Request /\ ~Sending(h) /\ req[h].job \in JobIds
    BY <1>4, RequestFields DEF CreateSaveJob, Commit, Sending, Request
  <2>2. /\ Goto(h, "send") /\ UNCHANGED chan
        /\ \E type : SaveJob(req[h].job, type, req[h].ctr, req[h].user)
    BY <1>4 DEF CreateSaveJob, Commit
  <2>3. CASE j = req[h].job
    <3>1. req'[h] = [req[h] EXCEPT !.pc = "send"]
      BY <2>2 DEF Goto
    <3>2. req'[h].pc = "send" /\ req'[h].job = j
      BY <2>1, <2>3, <3>1 DEF Request
    <3> QED BY <3>2 DEF InMemory, Sent, Sending
  <2>4. CASE j # req[h].job
    <3>1. jobs'[j] = jobs[j]
      BY <2>2, <2>4 DEF SaveJob, DBTypeOK
    <3>2. \A k \in Handlers : k # h => req'[k] = req[k]
      BY <2>2 DEF Goto
    <3> QED BY <1>2, <2>1, <2>2, <3>1, <3>2, HandlerHolds
  <2> QED BY <2>3, <2>4
<1>5. CASE Send(h)
  <2>1. req[h] \in Request /\ Sending(h)
    BY <1>5, RequestFields DEF Send, Sending
  <2> DEFINE x == req[h].proc
             n == Len(chan[x]) + 1
  <2>2. x \in Procs /\ req[h].job \in JobIds /\ chan[x] \in Seq(JobIds)
    BY <2>1 DEF Request
  <2>3. /\ chan'[x] = Append(chan[x], req[h].job)
        /\ \A p \in Procs : p # x => chan'[p] = chan[p]
        /\ \A k \in Handlers : k # h => req'[k] = req[k]
        /\ UNCHANGED jobs
    BY <1>5, <2>2 DEF Send, Reply
  <2>4. /\ n \in DOMAIN chan'[x] /\ chan'[x][n] = req[h].job
        /\ \A i \in DOMAIN chan[x] : i \in DOMAIN chan'[x] /\ chan'[x][i] = chan[x][i]
    BY <2>2, <2>3
  <2> HIDE DEF x, n
  <2>5. CASE Sent(j)
    <3>1. PICK k \in Handlers : Sending(k) /\ req[k].job = j
      BY <2>5 DEF Sent
    <3>2. CASE k = h
      BY <2>2, <2>4, <3>1, <3>2 DEF InMemory, Queued
    <3>3. CASE k # h
      BY <2>3, <3>1, <3>3 DEF InMemory, Sent, Sending
    <3> QED BY <3>2, <3>3
  <2>6. CASE Queued(j)
    <3>1. PICK p \in Procs : \E i \in DOMAIN chan[p] : chan[p][i] = j
      BY <2>6 DEF Queued
    <3>2. \E i \in DOMAIN chan'[p] : chan'[p][i] = j
      BY <2>3, <2>4, <3>1
    <3> QED BY <3>2 DEF InMemory, Queued
  <2>7. CASE Worked(j)
    BY <1>2, <2>7 DEF InMemory, Worked, Working
  <2> QED BY <2>3, <2>5, <2>6, <2>7 DEF InMemory
<1>6. CASE SendTimeout(h)
  <2>1. Sending(h) /\ Len(chan[req[h].proc]) = Cap
    BY <1>6 DEF SendTimeout, Sending
  <2>2. Len(chan[req[h].proc]) < Cap
    BY <2>1, RoomToSend
  <2> QED BY <2>1, <2>2, CapAssumption
<1> QED BY <1>1, <1>3, <1>4, <1>5, <1>6 DEF HandlerStep

\* A worker is free after Finish only.
LEMMA WorkerGoesOn ==
  ASSUME TypeInv, NEW p \in Procs, NEW w \in Workers, WorkerStep(p, w), ~Take(p, w),
         ~Finish(p, w)
  PROVE  wk'[p][w].pc # "take"
<1> USE DEF TypeInv, TypeOK
<1>1. Working(p, w)
  BY WorkerKeepsJob
<1>2. wk[p][w] \in Work
  BY <1>1, WorkFields
<1>3. ASSUME Succeed(p, w) \/ Fail(p, w) \/ Retry(p, w) PROVE wk'[p][w].pc # "take"
  BY <1>1, <1>3, EndGoes, RetryGoes DEF Working
<1>4. ASSUME NEW pc, pc # "take", Step(p, w, pc) PROVE wk'[p][w].pc # "take"
  BY <1>1, <1>4, StepGoes
<1>5. ASSUME NEW pc, NEW d, pc # "take",
             SetWork(p, w, [wk[p][w] EXCEPT !.pc = pc, !.docker = d])
      PROVE  wk'[p][w].pc # "take"
  <2>1. wk'[p][w] = [wk[p][w] EXCEPT !.pc = pc, !.docker = d]
    BY <1>5, SetWorkElsewhere
  <2> QED BY <1>2, <1>5, <2>1 DEF Work
<1>6. ASSUME NEW s, SetWork(p, w, [wk[p][w] EXCEPT !.pc = "update", !.status = s])
      PROVE  wk'[p][w].pc # "take"
  <2>1. wk'[p][w] = [wk[p][w] EXCEPT !.pc = "update", !.status = s]
    BY <1>6, SetWorkElsewhere
  <2> QED BY <1>2, <2>1 DEF Work
<1>7. AfterFind(TypeOf(p, w), containers[TargetOf(p, w)].docker) # "take"
  <2>1. TypeOf(p, w) \in JobTypes
    BY <1>1, TargetType DEF TypeOf, JobRow
  <2> QED BY <2>1 DEF AfterFind, JobTypes
<1>8. CASE Find(p, w)
  BY <1>3, <1>5, <1>7, <1>8 DEF Find
<1>9. CASE SyncState(p, w)
  BY <1>6, <1>9 DEF SyncState
<1>10. CASE CreateInDocker(p, w) \/ StopInDocker(p, w)
  BY <1>3, <1>5, <1>6, <1>10 DEF CreateInDocker, StopInDocker
<1>11. CASE StartCreated(p, w) \/ StartExisting(p, w)
  BY <1>3, <1>4, <1>11 DEF StartCreated, StartExisting, StartInDocker
<1>12. CASE Mark(p, w) \/ Cleanup(p, w) \/ UpdateRow(p, w) \/ RemoveInDocker(p, w) \/ DeleteRow(p, w)
  BY <1>3, <1>4, <1>12 DEF Mark, Cleanup, UpdateRow, RemoveInDocker, DeleteRow
<1> QED BY <1>8, <1>9, <1>10, <1>11, <1>12 DEF WorkerStep

LEMMA WorkerHolds ==
  ASSUME TypeInv, PlacesInv, ~Fault, NEW p \in Procs, NEW w \in Workers, WorkerStep(p, w),
         NEW j \in JobIds, jobs'[j].status \in Active,
         jobs[j].status \in Active => InMemory(j)
  PROVE  InMemory(j)'
<1> USE DEF TypeInv, TypeOK
<1>1. UNCHANGED req
  BY DEF WorkerStep, Take, Mark, Find, CreateInDocker, StartCreated, StartExisting,
     StartInDocker, Cleanup, SyncState, StopInDocker, UpdateRow, RemoveInDocker,
     DeleteRow, Finish
<1>2. \A h \in Handlers : ~Inserts(h)
  BY <1>1, InsertMoves DEF Deciding
<1>3. InMemory(j)
  BY <1>2, ActiveMoves DEF Next
<1>4. PICK r : SetWork(p, w, r)
  BY DEF WorkerStep, Take, Mark, Find, CreateInDocker, StartCreated, StartExisting,
     StartInDocker, Cleanup, SyncState, StopInDocker, UpdateRow, RemoveInDocker,
     DeleteRow, Finish, Step, Succeed, Fail, Retry
<1>5. \A q \in Procs, v \in Workers : <<q, v>> # <<p, w>> => wk'[q][v] = wk[q][v]
  BY <1>4, SetWorkElsewhere
<1>6. CASE Take(p, w)
  <2>1. wk'[p][w] = [pc |-> "mark", job |-> Head(chan[p]), docker |-> NoDocker,
                     status |-> "Created", tries |-> 1, ok |-> FALSE]
    BY <1>6, SetWorkElsewhere DEF Take
  <2>2. ~Working(p, w) /\ chan[p] \in Seq(JobIds) /\ chan[p] # <<>>
    BY <1>6 DEF Take, ServiceTypeOK
  <2>3. chan'[p] = Tail(chan[p]) /\ \A q \in Procs : q # p => chan'[q] = chan[q]
    BY <1>6 DEF Take, ServiceTypeOK
  <2>4. CASE Sent(j)
    BY <1>1, <2>4 DEF InMemory, Sent, Sending
  <2>5. CASE Worked(j)
    BY <1>5, <2>2, <2>5 DEF InMemory, Worked, Working
  <2>6. CASE Queued(j)
    <3>1. PICK q \in Procs : \E i \in DOMAIN chan[q] : chan[q][i] = j
      BY <2>6 DEF Queued
    <3>2. PICK i \in DOMAIN chan[q] : chan[q][i] = j
      BY <3>1
    <3>3. CASE q # p
      BY <2>3, <3>2, <3>3 DEF InMemory, Queued
    <3>4. CASE q = p /\ i = 1
      BY <2>1, <2>2, <3>2, <3>4 DEF InMemory, Worked, Working
    <3>5. CASE q = p /\ i # 1
      <4>1. i - 1 \in DOMAIN Tail(chan[p]) /\ Tail(chan[p])[i - 1] = j
        BY <2>2, <3>2, <3>5
      <4> QED BY <2>3, <4>1 DEF InMemory, Queued
    <3> QED BY <3>3, <3>4, <3>5
  <2> QED BY <1>3, <2>4, <2>5, <2>6 DEF InMemory
<1>7. CASE ~Take(p, w)
  <2>1. UNCHANGED chan /\ Working(p, w)
    BY <1>7, WorkerKeepsJob DEF WorkerStep, Mark, Find, CreateInDocker, StartCreated,
       StartExisting, StartInDocker, Cleanup, SyncState, StopInDocker, UpdateRow,
       RemoveInDocker, DeleteRow, Finish, Working
  <2>2. CASE Sent(j) \/ Queued(j)
    BY <1>1, <2>1, <2>2 DEF InMemory, Sent, Sending, Queued
  <2>3. CASE Worked(j)
    <3>1. PICK q \in Procs, v \in Workers : Working(q, v) /\ wk[q][v].job = j
      BY <2>3 DEF Worked
    <3>2. CASE <<q, v>> # <<p, w>>
      BY <1>5, <3>1, <3>2 DEF InMemory, Worked, Working
    <3>3. CASE q = p /\ v = w /\ ~Finish(p, w)
      <4>1. wk'[p][w].job = j /\ wk'[p][w].pc # "take"
        BY <1>7, <3>1, <3>3, WorkerKeepsJob, WorkerGoesOn
      <4> QED BY <4>1 DEF InMemory, Worked, Working
    <3>4. CASE q = p /\ v = w /\ Finish(p, w)
      <4>1. InJobs(j) /\ j = JobOf(p, w)
        BY <3>1, <3>4 DEF PlacesInv, WorkedActive, InJobs, Active, JobOf
      <4>2. \E s \in Terminal : UpdateJob(j, s, TRUE)
        BY <3>4, <4>1 DEF Finish, Terminal
      <4>3. jobs[j] \in JobRow
        BY <3>1, TargetType
      <4>4. jobs'[j].status \in Terminal
        BY <4>2, <4>3 DEF UpdateJob, DBTypeOK, JobRow
      <4> QED BY <4>4 DEF Active, Terminal
    <3> QED BY <3>2, <3>3, <3>4
  <2> QED BY <1>3, <2>2, <2>3 DEF InMemory
<1> QED BY <1>6, <1>7

LEMMA RecoveredNext ==
  ASSUME TypeInv, StartInv, RecoveredInv, ~Fault, [Next]_vars
  PROVE  RecoveredInv'
<1> USE DEF TypeInv, TypeOK, ServiceTypeOK, DBTypeOK
<1> SUFFICES ASSUME NEW p \in Procs, phase'[p] = "recovered", NEW j \in JobIds
             PROVE  jobs'[j].status # "RUNNING"
  BY DEF RecoveredInv
<1>1. ASSUME NEW q \in Procs, Recover(q) PROVE jobs'[j].status # "RUNNING"
  <2>1. MarkRunningAsFailed
    BY <1>1 DEF Recover
  <2>2. jobs[j].status = "RUNNING" => jobs[j] \in JobRow
    BY DEF Unused
  <2> QED BY <2>1, <2>2 DEF MarkRunningAsFailed, JobRow
<1>2. CASE phase[p] # "recovered"
  <2>1. phase' # phase
    BY <1>2
  <2>2. ASSUME NEW q \in Procs, Boot(q) \/ Crash(q) PROVE FALSE
    BY <1>2, <2>2 DEF Boot, Crash
  <2> QED BY <1>1, <2>1, <2>2, JobSteps DEF JobStep, Claims, Inserts, Settles, Sends, Takes, Works, Clean
<1>3. CASE phase[p] = "recovered"
  <2>1. Still /\ jobs[j].status # "RUNNING"
    BY <1>3 DEF StartInv, RecoveredInv
  <2>2. ASSUME NEW h \in Handlers PROVE ~Inserts(h)
    BY <2>1 DEF Still, Inserts, Busy, Deciding
  <2>3. ASSUME NEW q \in Procs, NEW w \in Workers PROVE ~Works(q, w)
    BY <2>1 DEF Still, Works
  <2>4. CASE Clean
    <3>1. PICK old \in SUBSET Expirable : DeleteExpired(old)
      BY <2>4 DEF Clean
    <3>2. jobs'[j] = IF j \in old THEN [jobs[j] EXCEPT !.status = "GONE"] ELSE jobs[j]
      BY <3>1 DEF DeleteExpired
    <3>3. CASE j \in old
      <4>1. jobs[j].status \in Terminal
        BY <3>1, <3>3 DEF Expirable
      <4>2. jobs[j] \in JobRow
        BY <4>1 DEF Terminal, Unused
      <4> QED BY <3>2, <3>3, <4>2 DEF JobRow
    <3> QED BY <2>1, <3>2, <3>3
  <2> QED BY <1>1, <2>1, <2>2, <2>3, <2>4, JobSteps DEF JobStep, Claims, Settles, Sends, Takes, Boot, Crash
<1> QED BY <1>2, <1>3

\* The last process to start finds every job under way PENDING, and queues it.
LEMMA BootHolds ==
  ASSUME TypeInv, StartInv, RecoveredInv, ~Fault, Roomy, NEW p \in Procs, Boot(p), AllUp',
         NEW j \in JobIds, jobs'[j].status \in Active
  PROVE  InMemory(j)'
<1>1. phase[p] = "recovered" /\ UNCHANGED jobs
  BY DEF Boot
<1>2. Still /\ jobs[j].status = "PENDING"
  BY <1>1 DEF StartInv, RecoveredInv, Active
<1>3. PICK s \in Requeues(PendingJobs) : chan' = [chan EXCEPT ![p] = s]
  BY DEF Boot
<1>4. chan'[p] = s
  BY <1>3 DEF TypeInv, TypeOK, ServiceTypeOK
<1>5. \E i \in DOMAIN s : s[i] = j
  BY <1>2, RequeuesAll DEF PendingJobs
<1> QED BY <1>4, <1>5 DEF InMemory, Queued

LEMMA ActiveInit == Init => RecoveredInv /\ ActiveAreHeld
BY DEF Init, DBInit, ServiceInit, RecoveredInv, ActiveAreHeld, Unused, Active

LEMMA ActiveNext ==
  ASSUME TypeInv, PlacesInv, StartInv, RecoveredInv, ActiveAreHeld, Roomy, ~Fault, [Next]_vars
  PROVE  ActiveAreHeld'
<1> SUFFICES ASSUME AllUp', NEW j \in JobIds, jobs'[j].status \in Active
             PROVE  InMemory(j)'
  BY DEF ActiveAreHeld, InMemory
<1> USE DEF TypeInv, TypeOK, ServiceTypeOK
<1>1. CASE AllUp
  <2>1. jobs[j].status \in Active => InMemory(j)
    BY <1>1 DEF ActiveAreHeld, InMemory
  <2>2. ASSUME NEW p \in Procs PROVE ~Recover(p) /\ ~Boot(p) /\ ~Crash(p)
    BY <1>1 DEF AllUp, Recover, Boot, Crash
  <2>3. CASE Clean \/ DockerEnv \/ UNCHANGED vars
    <3>1. UNCHANGED <<req, chan, wk>>
      BY <2>3 DEF Clean, DockerEnv, serviceVars, vars
    <3>2. \A h \in Handlers : ~Inserts(h)
      BY <3>1, InsertMoves DEF Deciding
    <3>3. InMemory(j)
      BY <2>1, <3>2, ActiveMoves
    <3> QED BY <3>1, <3>3 DEF InMemory, Sent, Queued, Worked, Sending, Working
  <2> QED BY <2>1, <2>2, <2>3, ServiceHolds, WorkerHolds DEF Next, Quiescent
<1>2. CASE ~AllUp
  <2>1. phase' # phase
    BY <1>2 DEF AllUp
  <2>2. ASSUME NEW p \in Procs PROVE ~Recover(p) /\ ~Crash(p)
    BY DEF AllUp, Recover, Crash
  <2> QED BY <2>1, <2>2, BootHolds, JobSteps DEF JobStep, Claims, Inserts, Settles, Sends, Takes,
             Works, Clean
<1> QED BY <1>1, <1>2

\* No job is lost while calls are answered and the channel holds all that is PENDING:
\* restarts included, each job under way is with a handler, in a channel or with a
\* worker.
THEOREM NoJobIsLost ==
  ASSUME Sole, MaxFaults = 0
  PROVE  Spec /\ []Roomy => []ActiveIsHeld
<1>1. TypeInv => ~Fault
  BY NoFault0
<1>2. TypeInv /\ StartInv /\ RecoveredInv /\ [Next]_vars => RecoveredInv'
  BY <1>1, RecoveredNext
<1>3. TypeInv /\ PlacesInv /\ StartInv /\ RecoveredInv /\ Roomy /\ ActiveAreHeld /\ [Next]_vars
        => ActiveAreHeld'
  BY <1>1, ActiveNext
<1>4. ActiveAreHeld => ActiveIsHeld
  <2>1. ASSUME NEW j \in JobIds, Sent(j) PROVE InSend(j) # {}
    BY <2>1 DEF Sent, Sending, InSend
  <2>2. ASSUME NEW j \in JobIds, Queued(j) PROVE InChan(j) # {}
    <3>1. PICK p \in Procs : \E i \in DOMAIN chan[p] : chan[p][i] = j
      BY <2>2 DEF Queued
    <3>2. PICK i \in DOMAIN chan[p] : chan[p][i] = j
      BY <3>1
    <3>3. <<"chan", p, i>> \in InChan(j)
      BY <3>2 DEF InChan
    <3> QED BY <3>3
  <2>3. ASSUME NEW j \in JobIds, Worked(j) PROVE InWork(j) # {}
    <3>1. PICK p \in Procs, w \in Workers : Working(p, w) /\ wk[p][w].job = j
      BY <2>3 DEF Worked
    <3>2. <<"worker", p, w>> \in InWork(j)
      BY <3>1 DEF InWork
    <3> QED BY <3>2
  <2> QED BY <2>1, <2>2, <2>3 DEF Held, ActiveAreHeld, ActiveIsHeld, AllUp
<1>5. Spec => []StartInv
  BY PlacesInit, StartNext, TypeCorrect, PTL DEF Spec
<1> QED BY <1>2, <1>3, <1>4, <1>5, ActiveInit, PlacesInvariant, PTL DEF Spec

=============================================================================
