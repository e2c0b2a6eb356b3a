----------------------- MODULE ManagerRefinementProofs -----------------------
(***************************************************************************)
(* ContainerManager implements ContainerJobs, for any number of containers,*)
(* jobs, clients, workers, faults, crashes and restarts.  What it takes is *)
(* that the status a guard accepted a job in is still one the job starts   *)
(* from when its worker changes the row, however late that is.             *)
(***************************************************************************)
EXTENDS JobProofs, ManagerRefinement

\* What the job of a worker allows it to be at.
FitsAt(pc, type, status) ==
  /\ pc \in {"dcreate", "cstart", "cleanup"} => type = "create"
  /\ pc = "dstart" => type = "start"
  /\ pc = "sync" => type \in {"create", "start"}
  /\ pc = "dstop" => type = "stop"
  /\ pc = "update" => type \in {"create", "start", "stop"} /\ status \in CJ!To(type)
  /\ pc \in {"dremove", "dbdelete"} => type = "delete"

WorkFits == \A p \in Procs, w \in Workers :
              Working(p, w) => FitsAt(wk[p][w].pc, TypeOf(p, w), wk[p][w].status)

\* A worker that has not marked its job finds it as it was sent.
MarksPending == \A p \in Procs, w \in Workers :
                  wk[p][w].pc = "mark" => jobs[wk[p][w].job].status = "PENDING"

\* A container under a job under way is in a status that job starts from, or it
\* is the deleted one of a Delete.
StartsFrom(type, status) == \/ status \in CJ!From(type)
                            \/ type = "delete" /\ status = "GONE"

JobFits == \A j \in JobIds :
             jobs[j].status \in Active => StartsFrom(jobs[j].type, containers[jobs[j].target].status)

\* What the guard saw holds until the job is inserted.
DecidingFits == \A h \in Handlers :
                  LET s == containers[req[h].ctr].status IN
                  /\ req[h].pc = "savejob" => s = "Created"
                  /\ req[h].pc = "commit" => /\ s \in {"Created", "Running", "Exited"}
                                             /\ StatusAllows(req[h].op, s)

FitInv == WorkFits /\ MarksPending /\ JobFits /\ DecidingFits

\* What the parts above rest on.
BaseInv == TypeInv /\ PlacesInv /\ LockInv /\ OwnerInv /\ GuardInv /\ AloneInv

LEMMA FitInit == Init => FitInv
BY DEF Init, DBInit, ServiceInit, WorkerInit, FitInv, WorkFits, MarksPending, JobFits, DecidingFits,
   Working, Active, Free, Idle, Unused

-----------------------------------------------------------------------------
(* What one step does to the rows and to one worker. *)

\* A worker has changed the row of its container.
Rewrites(p, w) ==
  /\ Stored(TargetOf(p, w))
  /\ \/ wk[p][w].pc = "update" /\ UpdateContainer(TargetOf(p, w), wk[p][w].status, wk[p][w].docker)
     \/ wk[p][w].pc = "dbdelete" /\ DeleteContainer(TargetOf(p, w))

LEMMA RowSteps ==
  ASSUME TypeInv, [Next]_vars
  PROVE  \/ UNCHANGED containers
         \/ \E c \in ContainerIds : /\ ~Generated(c)
                                    /\ containers'[c].status = "Created"
                                    /\ containers'[c].docker = NoDocker
                                    /\ \A d \in ContainerIds : d # c => containers'[d] = containers[d]
         \/ \E p \in Procs, w \in Workers : Rewrites(p, w)
<1> USE DEF TypeInv, TypeOK, DBTypeOK
<1>1. ASSUME NEW h \in Handlers, CreateSave(h)
      PROVE  \E c \in ContainerIds : /\ ~Generated(c)
                                     /\ containers'[c].status = "Created"
                                     /\ containers'[c].docker = NoDocker
                                     /\ \A d \in ContainerIds : d # c => containers'[d] = containers[d]
  <2>1. NewContainerId \in ContainerIds /\ ~Generated(NewContainerId)
    BY <1>1 DEF CreateSave, NewContainerId, FreshContainers
  <2>2. PICK u, n : SaveContainer(NewContainerId, u, n)
    BY <1>1 DEF CreateSave
  <2> QED BY <2>1, <2>2 DEF SaveContainer
<1>2. ASSUME NEW h \in Handlers, Submit(h) \/ HandlerStep(h) PROVE UNCHANGED containers
  BY <1>2 DEF HandlerStep, Submit, CreateSaveJob, Lock, Guard, Abort, Commit, Send,
     SendTimeout
<1>3. ASSUME NEW p \in Procs, NEW w \in Workers, WorkerStep(p, w)
      PROVE  UNCHANGED containers \/ Rewrites(p, w)
  BY <1>3 DEF WorkerStep, Take, Mark, Find, CreateInDocker, StartCreated, StartExisting,
     StartInDocker, Cleanup, SyncState, StopInDocker, UpdateRow, RemoveInDocker, DeleteRow,
     Finish, Rewrites
<1>4. CASE (\E p \in Procs : Recover(p) \/ Boot(p) \/ Crash(p)) \/ Clean
  BY <1>4 DEF Recover, Boot, Crash, Clean
<1>5. CASE DockerEnv \/ UNCHANGED vars
  BY <1>5 DEF DockerEnv, DockerExit, ManualRemove, vars
<1> QED BY <1>1, <1>2, <1>3, <1>4, <1>5 DEF Next, Service, Quiescent

\* The row of a container without a job under way stays as it is.
LEMMA RowStays ==
  ASSUME BaseInv, [Next]_vars, NEW c \in ContainerIds, Generated(c), ~HasActiveJob(c)
  PROVE  containers'[c] = containers[c]
<1>1. ASSUME NEW p \in Procs, NEW w \in Workers, Rewrites(p, w) PROVE containers'[c] = containers[c]
  <2>1. Working(p, w)
    BY <1>1 DEF Rewrites, Working
  <2>2. /\ wk[p][w].job \in JobIds /\ jobs[wk[p][w].job] \in JobRow
        /\ jobs[wk[p][w].job].status \in Active
    BY <2>1, TargetType DEF BaseInv, PlacesInv, WorkedActive
  <2>3. TargetOf(p, w) # c
    BY <2>2 DEF HasActiveJob, IsActive, TargetOf
  <2> QED BY <1>1, <2>3 DEF Rewrites, UpdateContainer, DeleteContainer, BaseInv, TypeInv, TypeOK,
             DBTypeOK
<1> QED BY <1>1, RowSteps DEF BaseInv

\* A job keeps its type and its target.
LEMMA JobsKept ==
  ASSUME TypeInv, ClaimsFresh, [Next]_vars, NEW j \in JobIds, jobs[j].status # "UNUSED"
  PROVE  jobs'[j].type = jobs[j].type /\ jobs'[j].target = jobs[j].target
<1>1. CASE \E h \in Handlers : Inserts(h)
  BY <1>1, InsertSets
<1>2. CASE \A h \in Handlers : ~Inserts(h)
  <2> USE DEF TypeInv, TypeOK, DBTypeOK
  <2>1. jobs[j] \in JobRow
    BY DEF Unused
  <2> DEFINE Kept == jobs'[j].type = jobs[j].type /\ jobs'[j].target = jobs[j].target
  <2>2. ASSUME NEW p \in Procs, NEW w \in Workers, Works(p, w) PROVE Kept
    <3>1. CASE UNCHANGED jobs
      BY <3>1
    <3>2. CASE ~UNCHANGED jobs
      <4>1. PICK s, b : UpdateJob(wk[p][w].job, s, b)
        BY <2>2, <3>2 DEF Works
      <4>2. jobs'[j] = jobs[j] \/ jobs'[j] = [jobs[j] EXCEPT !.status = s, !.completed = b]
        BY <4>1 DEF UpdateJob
      <4> QED BY <2>1, <4>2 DEF JobRow
    <3> QED BY <3>1, <3>2
  <2>3. ASSUME NEW p \in Procs, Recover(p) PROVE Kept
    <3>1. jobs'[j] = jobs[j] \/ jobs'[j] = [jobs[j] EXCEPT !.status = "FAILED"]
      BY <2>3 DEF Recover, MarkRunningAsFailed
    <3> QED BY <2>1, <3>1 DEF JobRow
  <2>4. ASSUME Clean PROVE Kept
    <3>1. jobs'[j] = jobs[j] \/ jobs'[j] = [jobs[j] EXCEPT !.status = "GONE"]
      BY <2>4 DEF Clean, DeleteExpired
    <3> QED BY <2>1, <3>1 DEF JobRow
  <2>5. CASE UNCHANGED jobs
    BY <2>5
  <2>6. \/ UNCHANGED jobs
        \/ \E p \in Procs, w \in Workers : Works(p, w)
        \/ \E p \in Procs : Recover(p)
        \/ Clean
    BY <1>2, JobSteps DEF JobStep, Claims, Settles, Sends, Takes, Boot, Crash
  <2> QED BY <2>2, <2>3, <2>4, <2>5, <2>6
<1> QED BY <1>1, <1>2

LEMMA JobsKeep ==
  ASSUME TypeInv, PlacesInv, [Next]_vars, NEW j \in JobIds, jobs[j].status # "UNUSED"
  PROVE  jobs'[j].type = jobs[j].type /\ jobs'[j].target = jobs[j].target
BY JobsKept DEF PlacesInv

\* Where a worker goes that neither takes a job nor ends one.
Goes(p, w) ==
  LET r == wk[p][w]
      n == wk'[p][w]
  IN /\ Working(p, w)
     /\ n.job = r.job
     /\ \/ n.pc = "finish" /\ ~n.ok
        \/ n.pc = "finish" /\ Rewrites(p, w)
        \/ r.pc = "mark" /\ n.pc = "find"
        \/ r.pc = "find" /\ \E d : n.pc = AfterFind(TypeOf(p, w), d)
        \/ r.pc = "dcreate" /\ n.pc = "cstart"
        \/ r.pc = "cstart" /\ n.pc \in {"sync", "cleanup"}
        \/ r.pc = "dstart" /\ n.pc = "sync"
        \/ r.pc = "sync" /\ n.pc = "update" /\ n.status \in {"Running", "Exited"}
        \/ r.pc = "dstop" /\ n.pc = "update" /\ n.status = "Exited"
        \/ r.pc = "dremove" /\ n.pc = "dbdelete"
        \/ r.pc \in {"update", "dbdelete"} /\ n.pc = r.pc /\ n.status = r.status

LEMMA WorkerGoes ==
  ASSUME TypeInv, NEW p \in Procs, NEW w \in Workers, WorkerStep(p, w), ~Take(p, w), ~Finish(p, w)
  PROVE  Goes(p, w)
<1> USE DEF TypeInv, TypeOK
<1>1. Working(p, w) /\ wk'[p][w].job = wk[p][w].job
  BY WorkerKeepsJob
<1>2. wk[p][w] \in Work
  BY <1>1, WorkFields
<1>3. \A r : SetWork(p, w, r) => wk'[p][w] = r
  BY SetWorkElsewhere
<1>4. ASSUME Fail(p, w) PROVE Goes(p, w)
  <2>1. wk'[p][w] = [wk[p][w] EXCEPT !.pc = "finish", !.ok = FALSE]
    BY <1>3, <1>4 DEF Fail
  <2>2. wk'[p][w].pc = "finish" /\ ~wk'[p][w].ok
    BY <1>2, <2>1 DEF Work
  <2> QED BY <1>1, <2>2 DEF Goes
<1>5. ASSUME NEW pc, Step(p, w, pc) PROVE wk'[p][w].pc = pc
  BY <1>1, <1>5, StepGoes
<1>6. CASE Mark(p, w) \/ RemoveInDocker(p, w)
  <2>1. Fail(p, w) \/ (Step(p, w, "find") /\ wk[p][w].pc = "mark")
        \/ (Step(p, w, "dbdelete") /\ wk[p][w].pc = "dremove")
    BY <1>6 DEF Mark, RemoveInDocker
  <2> QED BY <1>1, <1>4, <1>5, <2>1 DEF Goes
<1>7. CASE Find(p, w)
  <2> DEFINE d == containers[TargetOf(p, w)].docker
             next == AfterFind(TypeOf(p, w), d)
  <2>1. CASE SetWork(p, w, [wk[p][w] EXCEPT !.pc = next, !.docker = d])
    <3>1. wk'[p][w].pc = next
      BY <1>2, <1>3, <2>1 DEF Work
    <3>2. wk[p][w].pc = "find"
      BY <1>7 DEF Find
    <3> QED BY <1>1, <3>1, <3>2 DEF Goes
  <2> QED BY <1>4, <1>7, <2>1 DEF Find
<1>8. CASE CreateInDocker(p, w)
  <2>1. ASSUME NEW d, SetWork(p, w, [wk[p][w] EXCEPT !.pc = "cstart", !.docker = d])
        PROVE  Goes(p, w)
    <3>1. wk'[p][w].pc = "cstart"
      BY <1>2, <1>3, <2>1 DEF Work
    <3> QED BY <1>1, <1>8, <3>1 DEF Goes, CreateInDocker
  <2> QED BY <1>4, <1>8, <2>1 DEF CreateInDocker
<1>9. CASE StartCreated(p, w) \/ StartExisting(p, w)
  <2>1. \/ Fail(p, w)
        \/ wk[p][w].pc = "cstart" /\ (Step(p, w, "sync") \/ Step(p, w, "cleanup"))
        \/ wk[p][w].pc = "dstart" /\ Step(p, w, "sync")
    BY <1>9 DEF StartCreated, StartExisting, StartInDocker
  <2> QED BY <1>1, <1>4, <1>5, <2>1 DEF Goes
<1>10. CASE Cleanup(p, w)
  BY <1>4, <1>10 DEF Cleanup
<1>11. CASE SyncState(p, w)
  <2>1. PICK t \in {"Running", "Exited"} :
          SetWork(p, w, [wk[p][w] EXCEPT !.pc = "update", !.status = t])
    BY <1>11 DEF SyncState
  <2>2. wk'[p][w].pc = "update" /\ wk'[p][w].status = t
    BY <1>2, <1>3, <2>1 DEF Work
  <2> QED BY <1>1, <1>11, <2>2 DEF Goes, SyncState
<1>12. CASE StopInDocker(p, w)
  <2>1. CASE SetWork(p, w, [wk[p][w] EXCEPT !.pc = "update", !.status = "Exited"])
    <3>1. wk'[p][w].pc = "update" /\ wk'[p][w].status = "Exited"
      BY <1>2, <1>3, <2>1 DEF Work
    <3> QED BY <1>1, <1>12, <3>1 DEF Goes, StopInDocker
  <2> QED BY <1>4, <1>12, <2>1 DEF StopInDocker
<1>13. CASE UpdateRow(p, w) \/ DeleteRow(p, w)
  <2>1. wk[p][w].pc \in {"update", "dbdelete"}
    BY <1>13 DEF UpdateRow, DeleteRow
  <2>2. ASSUME Retry(p, w) PROVE Goes(p, w)
    <3>1. CASE wk[p][w].tries < UpdateRetries
      <4>1. wk'[p][w].pc = wk[p][w].pc /\ wk'[p][w].status = wk[p][w].status
        BY <1>2, <1>3, <2>2, <3>1 DEF Retry, Work
      <4> QED BY <1>1, <2>1, <4>1 DEF Goes
    <3> QED BY <1>4, <2>2, <3>1 DEF Retry
  <2>3. ASSUME Succeed(p, w), Rewrites(p, w) PROVE Goes(p, w)
    <3>1. wk'[p][w].pc = "finish"
      BY <1>1, <2>3, EndGoes
    <3> QED BY <1>1, <2>3, <3>1 DEF Goes
  <2> QED BY <1>13, <2>2, <2>3 DEF UpdateRow, DeleteRow, Rewrites
<1> QED BY <1>6, <1>7, <1>8, <1>9, <1>10, <1>11, <1>12, <1>13 DEF WorkerStep

\* Any step leaves a worker alone, or it takes a job, is freed, or goes on.
LEMMA WorkersGo ==
  ASSUME TypeInv, [Next]_vars, NEW p \in Procs, NEW w \in Workers
  PROVE  \/ wk'[p][w] = wk[p][w]
         \/ wk'[p][w].pc = "mark" /\ Takes(p, w)
         \/ wk'[p][w].pc = "take"
         \/ Goes(p, w)
<1> USE DEF TypeInv, TypeOK
<1>1. ASSUME NEW q \in Procs, NEW v \in Workers, WorkerStep(q, v)
      PROVE  \/ wk'[p][w] = wk[p][w]
             \/ wk'[p][w].pc = "mark" /\ Takes(p, w)
             \/ wk'[p][w].pc = "take"
             \/ Goes(p, w)
  <2>1. PICK r : SetWork(q, v, r)
    BY <1>1 DEF WorkerStep, Take, Mark, Find, CreateInDocker, StartCreated, StartExisting,
       StartInDocker, Cleanup, SyncState, StopInDocker, UpdateRow, RemoveInDocker,
       DeleteRow, Finish, Step, Succeed, Fail, Retry
  <2>2. CASE <<q, v>> # <<p, w>>
    BY <2>1, <2>2, SetWorkElsewhere
  <2>3. CASE <<q, v>> = <<p, w>>
    <3>1. CASE Take(p, w)
      <4>1. wk'[p][w] = [pc |-> "mark", job |-> Head(chan[p]), docker |-> NoDocker,
                         status |-> "Created", tries |-> 1, ok |-> FALSE]
        BY <3>1, SetWorkElsewhere DEF Take
      <4>2. OnlyWorker(p, w)
        BY <2>1, <2>3, SetWorkElsewhere DEF OnlyWorker
      <4> QED BY <3>1, <4>1, <4>2 DEF Take, Takes
    <3>2. CASE Finish(p, w)
      BY <3>2, SetWorkElsewhere DEF Finish, Free
    <3> QED BY <1>1, <2>3, <3>1, <3>2, WorkerGoes
  <2> QED BY <2>2, <2>3
<1>2. ASSUME NEW q \in Procs, Crash(q) PROVE wk'[p][w] = wk[p][w] \/ wk'[p][w].pc = "take"
  BY <1>2 DEF Crash, Free, WorkerTypeOK
<1>3. CASE (\E q \in Procs : Recover(q) \/ Boot(q)) \/ Clean \/ Service
  BY <1>3 DEF Recover, Boot, Clean, Service
<1>4. CASE DockerEnv \/ UNCHANGED vars
  BY <1>4 DEF DockerEnv, vars
<1> QED BY <1>1, <1>2, <1>3, <1>4 DEF Next, Quiescent

-----------------------------------------------------------------------------
(* The invariant. *)

LEMMA WorkFitsNext ==
  ASSUME BaseInv, WorkFits, [Next]_vars
  PROVE  WorkFits'
<1> USE DEF BaseInv
<1> SUFFICES ASSUME NEW p \in Procs, NEW w \in Workers, wk'[p][w].pc # "take"
             PROVE  FitsAt(wk'[p][w].pc, jobs'[wk'[p][w].job].type, wk'[p][w].status)
  BY DEF WorkFits, Working, TypeOf
<1>1. CASE wk'[p][w].pc = "mark"
  BY <1>1 DEF FitsAt
<1>2. CASE wk'[p][w] = wk[p][w] \/ Goes(p, w)
  <2>1. Working(p, w) /\ wk'[p][w].job = wk[p][w].job
    BY <1>2 DEF Goes, Working
  <2>2. wk[p][w].job \in JobIds /\ jobs[wk[p][w].job].status \in Active
    BY <2>1, TargetType DEF PlacesInv, WorkedActive
  <2>3. jobs'[wk'[p][w].job].type = TypeOf(p, w)
    BY <2>1, <2>2, JobsKeep DEF Active, TypeOf
  <2>4. TypeOf(p, w) \in JobTypes /\ FitsAt(wk[p][w].pc, TypeOf(p, w), wk[p][w].status)
    BY <2>1, TargetType DEF WorkFits, TypeOf, JobRow
  <2>5. CASE wk'[p][w] = wk[p][w]
    BY <2>3, <2>4, <2>5
  <2>6. CASE Goes(p, w)
    <3>1. ASSUME NEW d, wk'[p][w].pc = AfterFind(TypeOf(p, w), d)
          PROVE  FitsAt(wk'[p][w].pc, TypeOf(p, w), wk'[p][w].status)
      BY <2>4, <3>1 DEF AfterFind, FitsAt, JobTypes
    <3>2. CASE wk[p][w].pc # "find"
      BY <2>3, <2>4, <2>6, <3>2 DEF Goes, FitsAt, CJ!To
    <3>3. CASE wk[p][w].pc = "find" /\ wk'[p][w].pc = "finish"
      BY <3>3 DEF FitsAt
    <3> QED BY <2>3, <2>6, <3>1, <3>2, <3>3 DEF Goes
  <2> QED BY <1>2, <2>5, <2>6
<1> QED BY <1>1, <1>2, WorkersGo

LEMMA MarksNext ==
  ASSUME BaseInv, MarksPending, [Next]_vars
  PROVE  MarksPending'
<1> USE DEF BaseInv
<1> SUFFICES ASSUME NEW p \in Procs, NEW w \in Workers, wk'[p][w].pc = "mark"
             PROVE  jobs'[wk'[p][w].job].status = "PENDING"
  BY DEF MarksPending
<1>1. CASE Takes(p, w)
  <2>1. chan[p] \in Seq(JobIds) /\ chan[p] # <<>>
    BY <1>1 DEF Takes, TypeInv, TypeOK, ServiceTypeOK
  <2>2. 1 \in DOMAIN chan[p] /\ Head(chan[p]) = chan[p][1]
    BY <2>1
  <2> QED BY <1>1, <2>2 DEF Takes, PlacesInv, QueuedPending
<1>2. CASE wk'[p][w] = wk[p][w]
  <2> DEFINE j == wk[p][w].job
  <2>1. Working(p, w) /\ j \in JobIds /\ jobs[j].status = "PENDING"
    BY <1>2, TargetType DEF MarksPending, Working
  <2>2. ASSUME NEW h \in Handlers, Inserts(h) PROVE jobs'[j] = jobs[j]
    BY <2>1, <2>2, InsertMoves
  <2>3. ASSUME NEW q \in Procs, NEW v \in Workers, Works(q, v) PROVE jobs'[j] = jobs[j]
    <3>1. <<q, v>> # <<p, w>> \/ UNCHANGED jobs
      BY <1>2, <2>3 DEF Works
    <3>2. <<q, v>> # <<p, w>> => wk[q][v].job # j
      BY <2>1, <2>3 DEF Works, PlacesInv, WorkedOnce
    <3> QED BY <2>1, <2>3, <3>1, <3>2 DEF Works, UpdateJob, TypeInv, TypeOK, DBTypeOK
  <2>4. ASSUME NEW q \in Procs, Recover(q) PROVE jobs'[j] = jobs[j]
    BY <2>1, <2>4 DEF Recover, MarkRunningAsFailed
  <2>5. ASSUME Clean PROVE jobs'[j] = jobs[j]
    BY <2>1, <2>5 DEF Clean, DeleteExpired, Expirable, Terminal
  <2>6. ASSUME UNCHANGED jobs PROVE jobs'[j] = jobs[j]
    BY <2>6
  <2>7. jobs'[j] = jobs[j]
    BY <2>2, <2>3, <2>4, <2>5, <2>6, JobSteps
       DEF JobStep, Claims, Settles, Sends, Takes, Boot, Crash
  <2> QED BY <1>2, <2>1, <2>7
<1>3. CASE Goes(p, w)
  <2>1. TypeOf(p, w) \in JobTypes
    BY <1>3, TargetType DEF Goes, TypeOf, JobRow
  <2>2. \A d : AfterFind(TypeOf(p, w), d) # "mark"
    BY <2>1 DEF AfterFind, JobTypes
  <2> QED BY <1>3, <2>2 DEF Goes
<1> QED BY <1>1, <1>2, <1>3, WorkersGo

LEMMA DecidingFitsNext ==
  ASSUME BaseInv, DecidingFits, [Next]_vars
  PROVE  DecidingFits'
<1> USE DEF BaseInv
<1> SUFFICES ASSUME NEW h \in Handlers, req'[h].pc \in Deciding
             PROVE  LET s == containers'[req'[h].ctr].status IN
                    /\ req'[h].pc = "savejob" => s = "Created"
                    /\ req'[h].pc = "commit" => /\ s \in {"Created", "Running", "Exited"}
                                                /\ StatusAllows(req'[h].op, s)
  BY DEF DecidingFits, Deciding
<1>1. CASE req'[h] = req[h]
  <2>1. req[h].ctr \in ContainerIds /\ Generated(req[h].ctr) /\ ~HasActiveJob(req[h].ctr)
    BY <1>1, RequestFields DEF TypeInv, TypeOK, Request, Deciding, AloneInv, ReqsGenerated, Busy,
       DecidesFree, HasActiveJob
  <2>2. containers'[req[h].ctr] = containers[req[h].ctr]
    BY <2>1, RowStays
  <2> QED BY <1>1, <2>2 DEF DecidingFits
<1>2. CASE Claims(h)
  BY <1>2, ClaimMoves DEF Deciding
<1>3. CASE Advances(h)
  <2>1. req[h] \in Request
    BY <1>3, RequestFields DEF Advances, Busy, TypeInv, TypeOK
  <2>2. /\ req'[h].ctr = req[h].ctr /\ req'[h].op = req[h].op /\ req[h].ctr \in ContainerIds
        /\ req'[h].pc = "commit"
        /\ Accepts(req[h].op, req[h].user, req[h].ctr)
    BY <1>3, <2>1 DEF Advances, Request, Deciding
  <2>3. Generated(req[h].ctr) /\ ~HasActiveJob(req[h].ctr)
    BY <2>2 DEF Accepts, Stored, Generated
  <2>4. containers'[req[h].ctr] = containers[req[h].ctr]
    BY <2>2, <2>3, RowStays
  <2>5. containers[req[h].ctr].status \in {"Created", "Running", "Exited"}
    BY <2>2 DEF Accepts, Stored, TypeInv, TypeOK, DBTypeOK, ContainerRow, Unused
  <2>6. StatusAllows(req[h].op, containers[req[h].ctr].status)
    BY <2>2 DEF Accepts
  <2> QED BY <2>2, <2>4, <2>5, <2>6
<1>4. ~Inserts(h)
  BY InsertMoves DEF Deciding
<1> QED BY <1>1, <1>2, <1>3, <1>4, RequestMoves DEF Deciding

LEMMA JobFitsNext ==
  ASSUME BaseInv, FitInv, [Next]_vars
  PROVE  JobFits'
<1> USE DEF BaseInv
<1> SUFFICES ASSUME NEW j \in JobIds, jobs'[j].status \in Active
             PROVE  StartsFrom(jobs'[j].type, containers'[jobs'[j].target].status)
  BY DEF JobFits
<1> DEFINE c == jobs[j].target
\* The job is inserted: the status is the one its guard saw.
<1>1. ASSUME NEW h \in Handlers, Inserts(h), j = req[h].job
      PROVE  StartsFrom(jobs'[j].type, containers'[jobs'[j].target].status)
  <2>1. /\ req[h] \in Request /\ req[h].pc \in Deciding
        /\ jobs'[j].target = req[h].ctr
        /\ jobs'[j].type = IF req[h].pc = "savejob" THEN "create" ELSE req[h].op
    BY <1>1, InsertMoves
  <2>2. req[h].ctr \in ContainerIds /\ Generated(req[h].ctr) /\ ~HasActiveJob(req[h].ctr)
    BY <2>1 DEF Request, Deciding, AloneInv, ReqsGenerated, Busy, DecidesFree, HasActiveJob
  <2>3. containers'[req[h].ctr] = containers[req[h].ctr]
    BY <2>2, RowStays
  <2>4. CASE req[h].pc = "savejob"
    <3>1. containers[req[h].ctr].status = "Created"
      BY <2>4 DEF FitInv, DecidingFits
    <3> QED BY <2>1, <2>3, <2>4, <3>1 DEF StartsFrom, CJ!From
  <2>5. CASE req[h].pc = "commit"
    <3>1. /\ containers[req[h].ctr].status \in {"Created", "Running", "Exited"}
          /\ StatusAllows(req[h].op, containers[req[h].ctr].status)
          /\ req[h].op \in Guarded
      BY <2>5 DEF FitInv, DecidingFits, GuardInv, OpsFit
    <3> QED BY <2>1, <2>3, <2>5, <3>1 DEF StartsFrom, StatusAllows, Guarded, CJ!From
  <2> QED BY <2>1, <2>4, <2>5 DEF Deciding
\* The job was there: only its own worker has changed the row.
<1>2. CASE jobs[j].status \in Active /\ jobs'[j].type = jobs[j].type /\ jobs'[j].target = c
  <2>1. /\ c \in ContainerIds /\ Generated(c)
        /\ StartsFrom(jobs[j].type, containers[c].status)
        /\ jobs[j].type \in JobTypes
    BY <1>2 DEF FitInv, JobFits, OwnerInv, JobBelongsToOwner, TypeInv, TypeOK, DBTypeOK, JobRow,
       Active, Unused
  <2> HIDE DEF c
  <2>2. CASE containers'[c] = containers[c]
    BY <1>2, <2>1, <2>2
  <2>3. ASSUME NEW p \in Procs, NEW w \in Workers, Rewrites(p, w), containers'[c] # containers[c]
        PROVE  StartsFrom(jobs[j].type, containers'[c].status)
    <3>1. Working(p, w)
      BY <2>3 DEF Rewrites, Working
    <3>2. /\ wk[p][w].job \in JobIds /\ jobs[wk[p][w].job].status \in Active
          /\ wk[p][w] \in Work
      BY <3>1, TargetType DEF PlacesInv, WorkedActive
    <3>3. TargetOf(p, w) = c
      BY <2>1, <2>3 DEF Rewrites, UpdateContainer, DeleteContainer, TypeInv, TypeOK, DBTypeOK
    <3>4. wk[p][w].job = j
      BY <1>2, <3>2, <3>3 DEF TargetOf, AloneInv, OneActiveJob, c
    <3>5. FitsAt(wk[p][w].pc, jobs[j].type, wk[p][w].status)
      BY <3>1, <3>4 DEF FitInv, WorkFits, TypeOf
    <3>6. containers[c] \in ContainerRow
      BY <2>1 DEF Generated, TypeInv, TypeOK, DBTypeOK, Unused
    <3>7. CASE wk[p][w].pc = "update" /\ UpdateContainer(c, wk[p][w].status, wk[p][w].docker)
      <4>1. containers'[c] = [containers[c] EXCEPT !.status = wk[p][w].status,
                                                   !.docker = wk[p][w].docker]
        BY <2>1, <3>7 DEF UpdateContainer, TypeInv, TypeOK, DBTypeOK
      <4>2. containers'[c].status = wk[p][w].status
        BY <3>6, <4>1 DEF ContainerRow
      <4> QED BY <3>5, <3>7, <4>2 DEF FitsAt, StartsFrom, CJ!From, CJ!To
    <3>8. CASE wk[p][w].pc = "dbdelete" /\ DeleteContainer(c)
      <4>1. containers'[c] = [containers[c] EXCEPT !.status = "GONE"]
        BY <2>1, <3>8 DEF DeleteContainer, TypeInv, TypeOK, DBTypeOK
      <4>2. containers'[c].status = "GONE"
        BY <3>6, <4>1 DEF ContainerRow
      <4> QED BY <3>5, <3>8, <4>2 DEF FitsAt, StartsFrom
    <3> QED BY <2>3, <3>3, <3>7, <3>8 DEF Rewrites
  <2>4. ASSUME NEW d \in ContainerIds, ~Generated(d),
               \A e \in ContainerIds : e # d => containers'[e] = containers[e]
        PROVE  containers'[c] = containers[c]
    BY <2>1, <2>4
  <2>5. StartsFrom(jobs[j].type, containers'[c].status)
    BY <2>1, <2>2, <2>3, <2>4, RowSteps
  <2> QED BY <1>2, <2>5
<1>3. CASE \A h \in Handlers : ~Inserts(h)
  BY <1>2, <1>3, ActiveMoves
<1>4. ASSUME NEW h \in Handlers, Inserts(h), j # req[h].job
      PROVE  jobs[j].status \in Active /\ jobs'[j].type = jobs[j].type /\ jobs'[j].target = c
  BY <1>4, InsertMoves
<1> HIDE DEF c
<1> QED BY <1>1, <1>2, <1>3, <1>4

LEMMA FitNext == BaseInv /\ FitInv /\ [Next]_vars => FitInv'
BY WorkFitsNext, MarksNext, DecidingFitsNext, JobFitsNext DEF FitInv

LEMMA FitInvariant ==
  ASSUME Sole, ~EarlyAccess
  PROVE  Spec => [](BaseInv /\ FitInv)
<1>1. Spec => []BaseInv
  BY AloneInvariant, PTL DEF BaseInv
<1> QED BY <1>1, FitInit, FitNext, PTL DEF Spec

\* A row is deleted only when it does not say Running: between the guard of a
\* Delete and its worker nothing starts the container.
THEOREM StoppedFirst ==
  ASSUME Sole, ~EarlyAccess
  PROVE  Spec => DeletesOnlyStopped
<1>1. ASSUME BaseInv, FitInv, [Next]_vars, NEW c \in ContainerIds, Stored(c),
             containers'[c].status = "GONE"
      PROVE  containers[c].status # "Running"
  <2> USE DEF BaseInv
  <2>1. PICK p \in Procs, w \in Workers : Rewrites(p, w)
    BY <1>1, RowSteps DEF Stored, Generated
  <2>2. Working(p, w)
    BY <2>1 DEF Rewrites, Working
  <2>3. /\ wk[p][w].job \in JobIds /\ jobs[wk[p][w].job].status \in Active
        /\ wk[p][w] \in Work
    BY <1>1, <2>2, TargetType DEF PlacesInv, WorkedActive
  <2>4. TargetOf(p, w) = c
    BY <1>1, <2>1 DEF Rewrites, UpdateContainer, DeleteContainer, TypeInv, TypeOK, DBTypeOK, Stored
  <2>5. ~UpdateContainer(c, wk[p][w].status, wk[p][w].docker)
    <3>1. SUFFICES ASSUME UpdateContainer(c, wk[p][w].status, wk[p][w].docker) PROVE FALSE
      OBVIOUS
    <3>2. containers'[c] = [containers[c] EXCEPT !.status = wk[p][w].status,
                                                 !.docker = wk[p][w].docker]
      BY <1>1, <3>1 DEF UpdateContainer, TypeInv, TypeOK, DBTypeOK
    <3>3. containers[c] \in ContainerRow
      BY <1>1 DEF Stored, TypeInv, TypeOK, DBTypeOK, Unused
    <3> QED BY <1>1, <2>3, <3>2, <3>3 DEF ContainerRow, Work
  <2>6. TypeOf(p, w) = "delete"
    BY <1>1, <2>1, <2>2, <2>4, <2>5 DEF Rewrites, FitInv, WorkFits, FitsAt
  <2> QED BY <1>1, <2>3, <2>4, <2>6 DEF FitInv, JobFits, TypeOf, TargetOf, StartsFrom, CJ!From, Stored
<1>2. BaseInv /\ FitInv /\ [Next]_vars =>
        [\A c \in ContainerIds :
           Stored(c) /\ containers'[c].status = "GONE" => containers[c].status # "Running"]_vars
  BY <1>1
<1> QED BY <1>2, FitInvariant, PTL DEF Spec, DeletesOnlyStopped

-----------------------------------------------------------------------------
(* What a change of the service is to ContainerJobs. *)

LEMMA SameStatuses == ASSUME UNCHANGED containers PROVE Statuses' = Statuses
BY DEF Statuses, StatusOf

LEMMA SameJobRows == ASSUME UNCHANGED jobs PROVE JobRows' = JobRows
BY DEF JobRows, JobRowOf, StateOf

LEMMA SameWork == ASSUME UNCHANGED wk PROVE Executing' = Executing /\ Done' = Done
BY DEF Executing, Done, Working, HasSucceeded

LEMMA StatusesChange ==
  ASSUME NEW c \in ContainerIds, \A d \in ContainerIds : d # c => containers'[d] = containers[d]
  PROVE  Statuses' = [Statuses EXCEPT ![c] = StatusOf(c)']
<1>1. \A d \in ContainerIds : d # c => StatusOf(d)' = StatusOf(d)
  BY DEF StatusOf
<1> QED BY <1>1 DEF Statuses

LEMMA JobRowsChange ==
  ASSUME NEW j \in JobIds, \A i \in JobIds : i # j => jobs'[i] = jobs[i]
  PROVE  JobRows' = [JobRows EXCEPT ![j] = JobRowOf(j)']
<1>1. \A i \in JobIds : i # j => JobRowOf(i)' = JobRowOf(i)
  BY DEF JobRowOf, StateOf
<1> QED BY <1>1 DEF JobRows

LEMMA JobRowFields ==
  ASSUME TypeInv, NEW j \in JobIds
  PROVE  /\ jobs[j].status = "UNUSED" => JobRows[j] = CJ!NoJob
         /\ jobs[j].status # "UNUSED" => /\ JobRows[j].type = jobs[j].type
                                         /\ JobRows[j].target = jobs[j].target
         /\ \A t \in Active \cup Terminal : JobRows[j].state = t <=> jobs[j].status = t
<1>1. JobRows[j] = JobRowOf(j)
  BY DEF JobRows
<1>2. jobs[j].status = "UNUSED" => JobRowOf(j) = [state |-> "none"]
  BY DEF JobRowOf
<1>3. jobs[j].status # "UNUSED" =>
        JobRowOf(j) = [state |-> StateOf(jobs[j].status), type |-> jobs[j].type,
                       target |-> jobs[j].target]
  BY DEF JobRowOf
<1> QED BY <1>1, <1>2, <1>3 DEF StateOf, CJ!NoJob, Active, Terminal

\* The worker (p, w) is the only one to move.
LEMMA ExecutingStays ==
  ASSUME NEW p \in Procs, NEW w \in Workers, OnlyWorker(p, w), Working(p, w),
         wk'[p][w].pc # "take", wk'[p][w].job = wk[p][w].job
  PROVE  Executing' = Executing
<1>1. ASSUME NEW j \in JobIds
      PROVE  (\E q \in Procs, v \in Workers : wk'[q][v].pc # "take" /\ wk'[q][v].job = j)
               <=> (\E q \in Procs, v \in Workers : Working(q, v) /\ wk[q][v].job = j)
  <2>1. \A q \in Procs, v \in Workers :
          wk'[q][v].pc # "take" /\ wk'[q][v].job = j <=> Working(q, v) /\ wk[q][v].job = j
    <3> SUFFICES ASSUME NEW q \in Procs, NEW v \in Workers
                 PROVE  wk'[q][v].pc # "take" /\ wk'[q][v].job = j <=> Working(q, v) /\ wk[q][v].job = j
      OBVIOUS
    <3>1. CASE <<q, v>> = <<p, w>>
      BY <3>1 DEF Working
    <3>2. CASE <<q, v>> # <<p, w>>
      BY <3>2 DEF OnlyWorker, Working
    <3> QED BY <3>1, <3>2
  <2> QED BY <2>1
<1> QED BY <1>1 DEF Executing, Working

LEMMA DoneStays ==
  ASSUME NEW p \in Procs, NEW w \in Workers, OnlyWorker(p, w),
         ~HasSucceeded(p, w), ~(wk'[p][w].pc = "finish" /\ wk'[p][w].ok)
  PROVE  Done' = Done
<1>1. \A q \in Procs, v \in Workers :
        \/ wk'[q][v] = wk[q][v]
        \/ ~HasSucceeded(q, v) /\ ~(wk'[q][v].pc = "finish" /\ wk'[q][v].ok)
  <2> SUFFICES ASSUME NEW q \in Procs, NEW v \in Workers
               PROVE  \/ wk'[q][v] = wk[q][v]
                      \/ ~HasSucceeded(q, v) /\ ~(wk'[q][v].pc = "finish" /\ wk'[q][v].ok)
    OBVIOUS
  <2>1. CASE <<q, v>> = <<p, w>>
    BY <2>1
  <2>2. CASE <<q, v>> # <<p, w>>
    BY <2>2 DEF OnlyWorker
  <2> QED BY <2>1, <2>2
<1>2. ASSUME NEW j \in JobIds
      PROVE  (\E q \in Procs, v \in Workers :
                wk'[q][v].pc = "finish" /\ wk'[q][v].ok /\ wk'[q][v].job = j)
               <=> (\E q \in Procs, v \in Workers : HasSucceeded(q, v) /\ wk[q][v].job = j)
  BY <1>1 DEF HasSucceeded
<1> QED BY <1>2 DEF Done, HasSucceeded

LEMMA DoneGrows ==
  ASSUME NEW p \in Procs, NEW w \in Workers, OnlyWorker(p, w), ~HasSucceeded(p, w),
         wk'[p][w].pc = "finish", wk'[p][w].ok, wk[p][w].job \in JobIds,
         wk'[p][w].job = wk[p][w].job
  PROVE  Done' = Done \cup {wk[p][w].job}
<1> DEFINE D2(q, v) == wk'[q][v].pc = "finish" /\ wk'[q][v].ok
<1>1. \A q \in Procs, v \in Workers : <<q, v>> # <<p, w>> => wk'[q][v] = wk[q][v]
  BY DEF OnlyWorker
<1>2. ASSUME NEW j \in JobIds
      PROVE  (\E q \in Procs, v \in Workers : D2(q, v) /\ wk'[q][v].job = j)
               <=> \/ \E q \in Procs, v \in Workers : HasSucceeded(q, v) /\ wk[q][v].job = j
                   \/ j = wk[p][w].job
  <2>1. ASSUME NEW q \in Procs, NEW v \in Workers, D2(q, v), wk'[q][v].job = j
        PROVE  \/ HasSucceeded(q, v) /\ wk[q][v].job = j
               \/ j = wk[p][w].job
    <3>1. CASE <<q, v>> = <<p, w>>
      BY <2>1, <3>1
    <3>2. CASE <<q, v>> # <<p, w>>
      BY <1>1, <2>1, <3>2 DEF HasSucceeded
    <3> QED BY <3>1, <3>2
  <2>2. ASSUME NEW q \in Procs, NEW v \in Workers, HasSucceeded(q, v), wk[q][v].job = j
        PROVE  D2(q, v) /\ wk'[q][v].job = j
    <3>1. <<q, v>> # <<p, w>>
      BY <2>2
    <3> QED BY <1>1, <2>2, <3>1 DEF HasSucceeded
  <2> QED BY <2>1, <2>2
<1>3. Done' = {j \in JobIds : \E q \in Procs, v \in Workers : D2(q, v) /\ wk'[q][v].job = j}
  BY DEF Done, HasSucceeded
<1> HIDE DEF D2
<1> QED BY <1>2, <1>3 DEF Done

\* The worker ends its job.
LEMMA WorkEnds ==
  ASSUME PlacesInv, NEW p \in Procs, NEW w \in Workers, OnlyWorker(p, w), Working(p, w),
         wk'[p][w].pc = "take"
  PROVE  /\ Executing' = Executing \ {wk[p][w].job}
         /\ Done' = Done \ {wk[p][w].job}
         /\ wk[p][w].job \in Done <=> HasSucceeded(p, w) /\ wk[p][w].job \in JobIds
<1> DEFINE j == wk[p][w].job
<1>1. \A q \in Procs, v \in Workers : <<q, v>> # <<p, w>> => wk'[q][v] = wk[q][v]
  BY DEF OnlyWorker
<1>2. \A q \in Procs, v \in Workers :
        Working(q, v) /\ wk[q][v].job = j => <<q, v>> = <<p, w>>
  BY DEF PlacesInv, WorkedOnce
<1>3. \A q \in Procs, v \in Workers : HasSucceeded(q, v) => Working(q, v)
  BY DEF HasSucceeded, Working
<1>4. ASSUME NEW q \in Procs, NEW v \in Workers, NEW i \in JobIds
      PROVE  /\ wk'[q][v].pc # "take" /\ wk'[q][v].job = i
                  <=> Working(q, v) /\ wk[q][v].job = i /\ <<q, v>> # <<p, w>>
             /\ wk'[q][v].pc = "finish" /\ wk'[q][v].ok /\ wk'[q][v].job = i
                  <=> HasSucceeded(q, v) /\ wk[q][v].job = i /\ <<q, v>> # <<p, w>>
  <2>1. CASE <<q, v>> = <<p, w>>
    BY <2>1
  <2>2. CASE <<q, v>> # <<p, w>>
    BY <1>1, <2>2 DEF Working, HasSucceeded
  <2> QED BY <2>1, <2>2
<1>5. ASSUME NEW q \in Procs, NEW v \in Workers, Working(q, v)
      PROVE  <<q, v>> # <<p, w>> <=> wk[q][v].job # j
  BY <1>2, <1>5
<1>6. Executing' = {i \in JobIds : \E q \in Procs, v \in Workers :
                       Working(q, v) /\ wk[q][v].job = i /\ wk[q][v].job # j}
  BY <1>4, <1>5 DEF Executing, Working
<1>7. Done' = {i \in JobIds : \E q \in Procs, v \in Workers :
                  HasSucceeded(q, v) /\ wk[q][v].job = i /\ wk[q][v].job # j}
  BY <1>3, <1>4, <1>5 DEF Done, HasSucceeded
<1>8. Executing' = Executing \ {j} /\ Done' = Done \ {j}
  BY <1>6, <1>7 DEF Executing, Done
<1>9. j \in Done <=> HasSucceeded(p, w) /\ j \in JobIds
  BY <1>2, <1>3 DEF Done
<1> QED BY <1>8, <1>9

-----------------------------------------------------------------------------
(* Each step of the service is a step of ContainerJobs or none. *)

LEMMA ImplCreates ==
  ASSUME TypeInv, NEW h \in Handlers, CreateSave(h), UNCHANGED wk
  PROVE  CJ!JNext
<1>1. NewContainerId \in ContainerIds /\ ~Generated(NewContainerId)
  BY DEF CreateSave, NewContainerId, FreshContainers
<1>2. PICK u, n : SaveContainer(NewContainerId, u, n)
  BY DEF CreateSave
<1>3. /\ containers'[NewContainerId].status = "Created"
      /\ \A d \in ContainerIds : d # NewContainerId => containers'[d] = containers[d]
  BY <1>1, <1>2 DEF SaveContainer, TypeInv, TypeOK, DBTypeOK
<1>4. Statuses[NewContainerId] = "none"
  BY <1>1 DEF StatusOf, Statuses, Generated
<1>5. Statuses' = [Statuses EXCEPT ![NewContainerId] = "Created"]
  <2>1. ASSUME NEW c \in ContainerIds, c = NewContainerId
        PROVE  Statuses' = [Statuses EXCEPT ![c] = "Created"]
    <3>1. StatusOf(c)' = "Created"
      BY <1>3, <2>1 DEF StatusOf
    <3>2. Statuses' = [Statuses EXCEPT ![c] = StatusOf(c)']
      BY <1>3, <2>1, StatusesChange
    <3> QED BY <3>1, <3>2
  <2> QED BY <1>1, <2>1
<1>6. CJ!Insert(NewContainerId)
  <2>1. UNCHANGED jobs
    BY DEF CreateSave
  <2> QED BY <1>4, <1>5, <2>1, SameJobRows, SameWork DEF CJ!Insert
<1> QED BY <1>1, <1>6 DEF CJ!JNext

LEMMA ImplInserts ==
  ASSUME BaseInv, FitInv, NEW h \in Handlers, Inserts(h), UNCHANGED containers
  PROVE  CJ!JNext
<1> DEFINE n == req[h].job
           c == req[h].ctr
           t == IF req[h].pc = "savejob" THEN "create" ELSE req[h].op
<1> USE DEF BaseInv
<1>1. /\ req[h] \in Request /\ req[h].pc \in Deciding
      /\ jobs'[n].status = "PENDING"
      /\ jobs'[n].target = c
      /\ jobs'[n].type = t
      /\ \A j \in JobIds : j # n => jobs'[j] = jobs[j]
      /\ jobs[n].status = "UNUSED"
  BY InsertMoves
<1>2. n \in JobIds /\ c \in ContainerIds /\ Generated(c)
  BY <1>1 DEF Request, Deciding, AloneInv, ReqsGenerated, Busy
<1>3. \A j \in JobIds : ~IsActive(j, c)
  BY <1>1 DEF AloneInv, DecidesFree
<1>4. t \in JobTypes /\ containers[c].status \in CJ!Acceptable(t)
  <2>1. CASE req[h].pc = "savejob"
    BY <2>1 DEF FitInv, DecidingFits, CJ!Acceptable, JobTypes
  <2>2. CASE req[h].pc = "commit"
    <3>1. /\ containers[c].status \in {"Created", "Running", "Exited"}
          /\ StatusAllows(req[h].op, containers[c].status)
          /\ req[h].op \in Guarded
      BY <2>2 DEF FitInv, DecidingFits, GuardInv, OpsFit
    <3> QED BY <2>2, <3>1 DEF StatusAllows, Guarded, CJ!Acceptable, JobTypes
  <2> QED BY <1>1, <2>1, <2>2 DEF Deciding
<1> HIDE DEF n, c, t
<1>5. Statuses[c] \in CJ!Acceptable(t)
  BY <1>2, <1>4 DEF Statuses, StatusOf, CJ!Acceptable, JobTypes
<1>6. JobRows[n] = CJ!NoJob
  BY <1>1, <1>2, JobRowFields
<1>7. \A i \in JobIds : ~(JobRows[i].state \in CJ!Open /\ JobRows[i].target = c)
  BY <1>3, JobRowFields DEF CJ!Open, IsActive, Active
<1>8. JobRows' = [JobRows EXCEPT ![n] = [state |-> "PENDING", type |-> t, target |-> c]]
  <2>1. ASSUME NEW j \in JobIds, j = n
        PROVE  JobRows' = [JobRows EXCEPT ![j] = [state |-> "PENDING", type |-> t, target |-> c]]
    <3>1. JobRowOf(j)' = [state |-> "PENDING", type |-> t, target |-> c]
      BY <1>1, <2>1 DEF JobRowOf, StateOf
    <3>2. JobRows' = [JobRows EXCEPT ![j] = JobRowOf(j)']
      BY <1>1, <2>1, JobRowsChange
    <3> QED BY <3>1, <3>2
  <2> QED BY <1>2, <2>1
<1>9. CJ!Submit(n, t, c)
  <2>1. UNCHANGED wk
    BY DEF Inserts
  <2> QED BY <1>5, <1>6, <1>7, <1>8, <2>1, SameStatuses, SameWork DEF CJ!Submit
<1>10. t \in CJ!JobKinds
  BY <1>4 DEF JobTypes, CJ!JobKinds
<1> QED BY <1>2, <1>9, <1>10 DEF CJ!JNext

LEMMA ImplTakes ==
  ASSUME BaseInv, NEW p \in Procs, NEW w \in Workers, Takes(p, w), UNCHANGED containers
  PROVE  CJ!JNext
<1> DEFINE j == chan[p][1]
<1> USE DEF BaseInv
<1>1. chan[p] \in Seq(JobIds) /\ chan[p] # <<>>
  BY DEF Takes, TypeInv, TypeOK, ServiceTypeOK
<1>2. 1 \in DOMAIN chan[p] /\ Head(chan[p]) = j /\ j \in JobIds
  BY <1>1
<1>3. /\ jobs[j].status = "PENDING"
      /\ \A q \in Procs, v \in Workers : Working(q, v) => wk[q][v].job # j
  BY <1>2 DEF PlacesInv, QueuedPending, QueuedNotWorked
<1>4. /\ ~Working(p, w) /\ OnlyWorker(p, w) /\ UNCHANGED jobs
      /\ wk'[p][w].pc = "mark" /\ wk'[p][w].job = j
  BY <1>2 DEF Takes
<1> HIDE DEF j
<1>5. j \notin Executing
  BY <1>3 DEF Executing
<1>6. JobRows[j].state = "PENDING" /\ JobRows[j].target = jobs[j].target
  BY <1>2, <1>3, JobRowFields DEF Active
<1>7. ASSUME NEW i \in Executing PROVE JobRows[i].target # JobRows[j].target
  <2>1. i \in JobIds /\ jobs[i].status \in Active
    BY DEF Executing, PlacesInv, WorkedActive
  <2>2. i # j
    BY <1>5
  <2>3. jobs[i].target # jobs[j].target
    BY <1>2, <1>3, <2>1, <2>2 DEF AloneInv, OneActiveJob, Active
  <2> QED BY <1>6, <2>1, <2>3, JobRowFields DEF Active
<1>8. Executing' = Executing \cup {j}
  <2>1. ASSUME NEW q \in Procs, NEW v \in Workers
        PROVE  wk'[q][v].pc # "take" <=> Working(q, v) \/ <<q, v>> = <<p, w>>
    BY <1>4 DEF OnlyWorker, Working
  <2>2. ASSUME NEW q \in Procs, NEW v \in Workers
        PROVE  wk'[q][v].job = IF <<q, v>> = <<p, w>> THEN j ELSE wk[q][v].job
    BY <1>4 DEF OnlyWorker
  <2>3. ASSUME NEW i \in JobIds
        PROVE  (\E q \in Procs, v \in Workers : wk'[q][v].pc # "take" /\ wk'[q][v].job = i)
                 <=> \/ \E q \in Procs, v \in Workers : Working(q, v) /\ wk[q][v].job = i
                     \/ i = j
    <3>1. ASSUME NEW q \in Procs, NEW v \in Workers, wk'[q][v].pc # "take", wk'[q][v].job = i
          PROVE  (Working(q, v) /\ wk[q][v].job = i) \/ i = j
      BY <2>1, <2>2, <3>1
    <3>2. ASSUME NEW q \in Procs, NEW v \in Workers, Working(q, v), wk[q][v].job = i
          PROVE  wk'[q][v].pc # "take" /\ wk'[q][v].job = i
      <4>1. <<q, v>> # <<p, w>>
        BY <1>4, <3>2
      <4> QED BY <2>1, <2>2, <3>2, <4>1
    <3> QED BY <1>4, <3>1, <3>2
  <2> QED BY <1>2, <2>3 DEF Executing, Working
<1>9. Done' = Done
  BY <1>4, DoneStays DEF HasSucceeded, Working
<1>10. CJ!Begin(j)
  BY <1>4, <1>5, <1>6, <1>7, <1>8, <1>9, SameStatuses, SameJobRows DEF CJ!Begin
<1> QED BY <1>2, <1>10 DEF CJ!JNext

\* A job row whose status is written.
LEMMA StateChange ==
  ASSUME TypeInv, NEW j \in JobIds, NEW t \in Active \cup Terminal, NEW b, InJobs(j),
         UpdateJob(j, t, b)
  PROVE  JobRows' = [JobRows EXCEPT ![j] = [@ EXCEPT !.state = t]]
<1>1. jobs[j] \in JobRow
  BY DEF InJobs, TypeInv, TypeOK, DBTypeOK, Unused
<1>2. /\ jobs'[j] = [jobs[j] EXCEPT !.status = t, !.completed = b]
      /\ \A i \in JobIds : i # j => jobs'[i] = jobs[i]
  BY DEF UpdateJob, TypeInv, TypeOK, DBTypeOK
<1>3. /\ jobs'[j].status = t /\ jobs'[j].type = jobs[j].type /\ jobs'[j].target = jobs[j].target
      /\ t # "UNUSED" /\ StateOf(t) = t
  BY <1>1, <1>2 DEF JobRow, StateOf, Active, Terminal
<1>4. JobRowOf(j)' = [JobRowOf(j) EXCEPT !.state = t]
  BY <1>3 DEF JobRowOf, InJobs, StateOf
<1>5. JobRows' = [JobRows EXCEPT ![j] = JobRowOf(j)']
  BY <1>2, JobRowsChange
<1> QED BY <1>4, <1>5 DEF JobRows

\* A worker's change of its container's row.
LEMMA ImplRewrites ==
  ASSUME BaseInv, FitInv, NEW p \in Procs, NEW w \in Workers, OnlyWorker(p, w), Goes(p, w),
         Rewrites(p, w), UNCHANGED jobs
  PROVE  CJ!JNext
<1> USE DEF BaseInv
<1>1. PICK j \in JobIds : j = wk[p][w].job
  BY TargetType DEF Goes
<1>2. PICK c \in ContainerIds : c = TargetOf(p, w)
  BY TargetType DEF Goes, TargetOf, JobRow
<1>3. /\ Working(p, w) /\ wk'[p][w].job = j
      /\ wk[p][w].pc \in {"update", "dbdelete"}
      /\ wk'[p][w].pc # "take"
      /\ wk[p][w] \in Work
  BY <1>1, TargetType DEF Goes, Rewrites
<1>4. jobs[j].status \in Active /\ jobs[j].target = c /\ jobs[j].type \in JobTypes
  BY <1>1, <1>2, <1>3, TargetType DEF PlacesInv, WorkedActive, TargetOf, JobRow
<1>5. JobRows[j].target = c /\ JobRows[j].type = jobs[j].type
  BY <1>4, JobRowFields DEF Active
<1>6. containers[c] \in ContainerRow /\ Stored(c)
  BY <1>2 DEF Rewrites, Stored, TypeInv, TypeOK, DBTypeOK, Unused
<1>7. Statuses[c] \in CJ!From(jobs[j].type)
  <2>1. StartsFrom(jobs[j].type, containers[c].status) /\ containers[c].status # "GONE"
    BY <1>4, <1>6 DEF FitInv, JobFits, Stored
  <2>2. Statuses[c] = containers[c].status
    BY <1>6 DEF Statuses, StatusOf, Stored
  <2> QED BY <2>1, <2>2 DEF StartsFrom
<1>8. FitsAt(wk[p][w].pc, jobs[j].type, wk[p][w].status)
  BY <1>1, <1>3 DEF FitInv, WorkFits, TypeOf
<1>9. \E t \in CJ!To(jobs[j].type) : StatusOf(c)' = t
  <2>1. CASE UpdateContainer(c, wk[p][w].status, wk[p][w].docker) /\ wk[p][w].pc = "update"
    <3>1. containers'[c] = [containers[c] EXCEPT !.status = wk[p][w].status,
                                                 !.docker = wk[p][w].docker]
      BY <2>1 DEF UpdateContainer, TypeInv, TypeOK, DBTypeOK
    <3>2. containers'[c].status = wk[p][w].status
      BY <1>6, <3>1 DEF ContainerRow
    <3>3. wk[p][w].status \in CJ!To(jobs[j].type) /\ wk[p][w].status \in {"Created", "Running", "Exited"}
      BY <1>3, <1>8, <2>1 DEF FitsAt, Work
    <3> QED BY <3>2, <3>3 DEF StatusOf
  <2>2. CASE DeleteContainer(c) /\ wk[p][w].pc = "dbdelete"
    <3>1. containers'[c] = [containers[c] EXCEPT !.status = "GONE"]
      BY <2>2 DEF DeleteContainer, TypeInv, TypeOK, DBTypeOK
    <3>2. containers'[c].status = "GONE"
      BY <1>6, <3>1 DEF ContainerRow
    <3> QED BY <1>8, <2>2, <3>2 DEF FitsAt, StatusOf, CJ!To
  <2> QED BY <1>2, <2>1, <2>2 DEF Rewrites
<1>10. Statuses' = [Statuses EXCEPT ![c] = StatusOf(c)']
  <2>1. \A d \in ContainerIds : d # c => containers'[d] = containers[d]
    BY <1>2 DEF Rewrites, UpdateContainer, DeleteContainer, TypeInv, TypeOK, DBTypeOK
  <2> QED BY <2>1, StatusesChange
<1>11. Executing' = Executing /\ j \in Executing
  BY <1>1, <1>3, ExecutingStays DEF Executing
<1>12. Done' \in {Done, Done \cup {j}}
  <2>1. ~HasSucceeded(p, w)
    BY <1>3 DEF HasSucceeded
  <2> QED BY <1>1, <1>3, <2>1, DoneStays, DoneGrows
<1>13. CJ!Change(j)
  <2> HIDE DEF CJ!From, CJ!To
  <2>1. \E t \in CJ!To(JobRows[j].type) : Statuses' = [Statuses EXCEPT ![JobRows[j].target] = t]
    BY <1>5, <1>9, <1>10
  <2>2. UNCHANGED JobRows
    BY SameJobRows
  <2> QED BY <1>5, <1>7, <1>11, <1>12, <2>1, <2>2 DEF CJ!Change
<1> QED BY <1>13 DEF CJ!JNext

LEMMA WorkerAlone ==
  ASSUME TypeInv, NEW p \in Procs, NEW w \in Workers, WorkerStep(p, w)
  PROVE  OnlyWorker(p, w)
<1>1. PICK r : SetWork(p, w, r)
  BY DEF WorkerStep, Take, Mark, Find, CreateInDocker, StartCreated, StartExisting,
     StartInDocker, Cleanup, SyncState, StopInDocker, UpdateRow, RemoveInDocker,
     DeleteRow, Finish, Step, Succeed, Fail, Retry
<1> QED BY <1>1, SetWorkElsewhere DEF OnlyWorker, TypeInv, TypeOK

Stutters == UNCHANGED <<Statuses, JobRows, Executing, Done>>

LEMMA ImplWorks ==
  ASSUME BaseInv, FitInv, NEW p \in Procs, NEW w \in Workers, WorkerStep(p, w)
  PROVE  CJ!JNext \/ Stutters
<1> USE DEF BaseInv
<1>1. OnlyWorker(p, w)
  BY WorkerAlone
<1>2. CASE Take(p, w)
  <2>1. wk'[p][w] = [pc |-> "mark", job |-> Head(chan[p]), docker |-> NoDocker,
                     status |-> "Created", tries |-> 1, ok |-> FALSE]
    BY <1>2, SetWorkElsewhere DEF Take, TypeInv, TypeOK
  <2>2. Takes(p, w) /\ UNCHANGED containers
    BY <1>1, <1>2, <2>1 DEF Take, Takes
  <2> QED BY <2>2, ImplTakes
<1>3. CASE Mark(p, w)
  <2>1. PICK j \in JobIds : j = wk[p][w].job
    BY <1>3, TargetType DEF Mark, Working
  <2>2. /\ Working(p, w) /\ wk'[p][w].pc = "find" /\ wk'[p][w].job = wk[p][w].job
        /\ UNCHANGED containers /\ wk[p][w].pc = "mark"
    BY <1>3, StepGoes, StepKeepsJob DEF Mark, Working, TypeInv, TypeOK
  <2>3. Executing' = Executing /\ Done' = Done /\ j \in Executing
    BY <1>1, <2>1, <2>2, ExecutingStays, DoneStays DEF HasSucceeded, Executing
  <2>4. CASE UNCHANGED jobs
    BY <2>2, <2>3, <2>4, SameStatuses, SameJobRows DEF Stutters
  <2>5. CASE InJobs(j) /\ UpdateJob(j, "RUNNING", FALSE)
    <3>1. JobRows[j].state = "PENDING"
      BY <2>1, <2>2, JobRowFields DEF FitInv, MarksPending, Active
    <3>2. JobRows' = [JobRows EXCEPT ![j] = [@ EXCEPT !.state = "RUNNING"]]
      BY <2>5, StateChange DEF Active
    <3>3. CJ!Announce(j)
      BY <2>2, <2>3, <3>1, <3>2, SameStatuses DEF CJ!Announce, CJ!SetState
    <3> QED BY <3>3 DEF CJ!JNext
  <2> QED BY <1>3, <2>1, <2>4, <2>5 DEF Mark, JobOf
<1>4. CASE Finish(p, w)
  <2>1. PICK j \in JobIds : j = wk[p][w].job
    BY <1>4, TargetType DEF Finish, Working
  <2>2. /\ Working(p, w) /\ wk'[p][w].pc = "take" /\ UNCHANGED containers
        /\ wk[p][w].pc = "finish"
    BY <1>4, SetWorkElsewhere DEF Finish, Working, Free, TypeInv, TypeOK
  <2>3. /\ Executing' = Executing \ {j} /\ Done' = Done \ {j}
        /\ j \in Done <=> wk[p][w].ok
    BY <1>1, <2>1, <2>2, WorkEnds DEF HasSucceeded
  <2>4. j \in Executing
    BY <2>1, <2>2 DEF Executing
  <2>5. CASE UNCHANGED jobs
    <3>1. CJ!End(j)
      BY <2>2, <2>3, <2>4, <2>5, SameStatuses, SameJobRows DEF CJ!End
    <3> QED BY <3>1 DEF CJ!JNext
  <2>6. CASE InJobs(j) /\ UpdateJob(j, IF wk[p][w].ok THEN "SUCCESS" ELSE "FAILED", TRUE)
    <3> DEFINE t == IF wk[p][w].ok THEN "SUCCESS" ELSE "FAILED"
    <3>1. t \in Active \cup Terminal /\ t = IF j \in Done THEN "SUCCESS" ELSE "FAILED"
      BY <2>3 DEF Terminal
    <3>2. JobRows' = [JobRows EXCEPT ![j] = [@ EXCEPT !.state = t]]
      BY <2>6, <3>1, StateChange
    <3>3. CJ!End(j)
      BY <2>2, <2>3, <2>4, <3>1, <3>2, SameStatuses DEF CJ!End, CJ!SetState
    <3> QED BY <3>3 DEF CJ!JNext
  <2> QED BY <1>4, <2>1, <2>5, <2>6 DEF Finish, JobOf
<1>5. CASE ~Take(p, w) /\ ~Mark(p, w) /\ ~Finish(p, w)
  <2>1. Goes(p, w)
    BY <1>5, WorkerGoes
  <2>2. UNCHANGED jobs
    BY <1>5 DEF WorkerStep, Find, CreateInDocker, StartCreated, StartExisting, StartInDocker,
       Cleanup, SyncState, StopInDocker, UpdateRow, RemoveInDocker, DeleteRow
  <2>3. UNCHANGED containers \/ Rewrites(p, w)
    BY <1>5 DEF WorkerStep, Find, CreateInDocker, StartCreated, StartExisting, StartInDocker,
       Cleanup, SyncState, StopInDocker, UpdateRow, RemoveInDocker, DeleteRow, Rewrites
  <2>4. CASE Rewrites(p, w)
    BY <1>1, <2>1, <2>2, <2>4, ImplRewrites
  <2>5. CASE ~Rewrites(p, w)
    <3>1. TypeOf(p, w) \in JobTypes /\ wk[p][w].pc # "finish"
      <4>1. wk[p][w].pc # "finish"
        BY <1>5 DEF WorkerStep, Find, CreateInDocker, StartCreated, StartExisting, Cleanup,
           SyncState, StopInDocker, UpdateRow, RemoveInDocker, DeleteRow
      <4> QED BY <2>1, <4>1, TargetType DEF Goes, TypeOf, JobRow
    <3>2. \A d : AfterFind(TypeOf(p, w), d) \notin {"take", "finish"}
      BY <3>1 DEF AfterFind, JobTypes
    <3>3. /\ Working(p, w) /\ wk'[p][w].job = wk[p][w].job /\ wk'[p][w].pc # "take"
          /\ ~(wk'[p][w].pc = "finish" /\ wk'[p][w].ok)
      BY <2>1, <2>5, <3>2 DEF Goes
    <3>4. Executing' = Executing /\ Done' = Done
      BY <1>1, <3>1, <3>3, ExecutingStays, DoneStays DEF HasSucceeded
    <3> QED BY <2>2, <2>3, <2>5, <3>4, SameStatuses, SameJobRows DEF Stutters
  <2> QED BY <2>4, <2>5
<1> QED BY <1>2, <1>3, <1>4, <1>5

LEMMA ImplRecovers ==
  ASSUME TypeInv, StartInv, NEW p \in Procs, Recover(p)
  PROVE  CJ!JNext \/ Stutters
<1>1. /\ phase[p] # "up"
      /\ UNCHANGED <<containers, wk>>
      /\ MarkRunningAsFailed \/ UNCHANGED jobs
  BY DEF Recover
<1>2. Executing = {}
  BY <1>1 DEF StartInv, Still, Executing
<1>3. CASE MarkRunningAsFailed
  <2>1. ASSUME NEW j \in JobIds
        PROVE  JobRowOf(j)' = IF JobRows[j].state = "RUNNING"
                              THEN [JobRows[j] EXCEPT !.state = "FAILED"] ELSE JobRows[j]
    <3>1. JobRows[j].state = "RUNNING" <=> jobs[j].status = "RUNNING"
      BY JobRowFields DEF Active
    <3>2. jobs[j] \in JobRow \cup {Unused} /\ JobRows[j] = JobRowOf(j)
      BY DEF TypeInv, TypeOK, DBTypeOK, JobRows
    <3>3. CASE jobs[j].status = "RUNNING"
      <4>1. jobs'[j] = [jobs[j] EXCEPT !.status = "FAILED"] /\ jobs[j] \in JobRow
        BY <1>3, <3>2, <3>3 DEF MarkRunningAsFailed, Unused
      <4>2. jobs'[j].status = "FAILED" /\ jobs'[j].type = jobs[j].type /\ jobs'[j].target = jobs[j].target
        BY <4>1 DEF JobRow
      <4>3. JobRowOf(j)' = [JobRowOf(j) EXCEPT !.state = "FAILED"]
        BY <3>3, <4>2 DEF JobRowOf, StateOf
      <4> QED BY <3>1, <3>2, <3>3, <4>3
    <3>4. CASE jobs[j].status # "RUNNING"
      <4>1. jobs'[j] = jobs[j]
        BY <1>3, <3>4 DEF MarkRunningAsFailed
      <4>2. JobRowOf(j)' = JobRowOf(j)
        BY <4>1 DEF JobRowOf, StateOf
      <4> QED BY <3>1, <3>2, <3>4, <4>2
    <3> QED BY <3>3, <3>4
  <2>2. JobRows' = [j \in JobIds |-> IF JobRows[j].state = "RUNNING"
                                     THEN [JobRows[j] EXCEPT !.state = "FAILED"] ELSE JobRows[j]]
    BY <2>1 DEF JobRows
  <2>3. CJ!Repair
    BY <1>1, <1>2, <2>2, SameStatuses, SameWork DEF CJ!Repair
  <2> QED BY <2>3 DEF CJ!JNext
<1>4. CASE UNCHANGED jobs
  BY <1>1, <1>4, SameStatuses, SameJobRows, SameWork DEF Stutters
<1> QED BY <1>1, <1>3, <1>4

LEMMA ImplCrashes ==
  ASSUME TypeInv, StartInv', NEW p \in Procs, Crash(p)
  PROVE  CJ!JNext
<1>1. phase'[p] # "up" /\ UNCHANGED <<containers, jobs>>
  BY DEF Crash, TypeInv, TypeOK, ServiceTypeOK
<1>2. \A q \in Procs, w \in Workers : wk'[q][w].pc = "take"
  BY <1>1 DEF StartInv, Still, Working
<1>3. Executing' = {} /\ Done' = {}
  BY <1>2 DEF Executing, Done, Working, HasSucceeded
<1>4. CJ!Interrupt
  BY <1>1, <1>3, SameStatuses, SameJobRows DEF CJ!Interrupt
<1> QED BY <1>4 DEF CJ!JNext

LEMMA ImplCleans ==
  ASSUME TypeInv, Clean
  PROVE  CJ!JNext
<1>1. PICK old \in SUBSET Expirable : DeleteExpired(old)
  BY DEF Clean
<1>2. UNCHANGED <<containers, wk>>
  BY DEF Clean
<1>3. old \in SUBSET JobIds /\ \A j \in old : jobs[j].status \in Terminal
  BY DEF Expirable
<1>4. \A j \in old : JobRows[j].state \in CJ!Closed
  BY <1>3, JobRowFields DEF Terminal, CJ!Closed
<1>5. ASSUME NEW j \in JobIds
      PROVE  JobRowOf(j)' = IF j \in old THEN [JobRows[j] EXCEPT !.state = "gone"] ELSE JobRows[j]
  <2>1. JobRows[j] = JobRowOf(j) /\ jobs[j] \in JobRow \cup {Unused}
    BY DEF JobRows, TypeInv, TypeOK, DBTypeOK
  <2>2. CASE j \in old
    <3>1. jobs'[j] = [jobs[j] EXCEPT !.status = "GONE"] /\ jobs[j] \in JobRow
      BY <1>1, <1>3, <2>1, <2>2 DEF DeleteExpired, Unused, Terminal
    <3>2. jobs'[j].status = "GONE" /\ jobs'[j].type = jobs[j].type /\ jobs'[j].target = jobs[j].target
      BY <3>1 DEF JobRow
    <3>3. JobRowOf(j)' = [JobRowOf(j) EXCEPT !.state = "gone"]
      BY <1>3, <2>2, <3>2 DEF JobRowOf, StateOf, Terminal
    <3> QED BY <2>1, <2>2, <3>3
  <2>3. CASE j \notin old
    <3>1. jobs'[j] = jobs[j]
      BY <1>1, <2>3 DEF DeleteExpired
    <3>2. JobRowOf(j)' = JobRowOf(j)
      BY <3>1 DEF JobRowOf, StateOf
    <3> QED BY <2>1, <2>3, <3>2
  <2> QED BY <2>2, <2>3
<1>6. JobRows' = [j \in JobIds |-> IF j \in old THEN [JobRows[j] EXCEPT !.state = "gone"]
                                   ELSE JobRows[j]]
  BY <1>5 DEF JobRows
<1>7. CJ!Forget(old)
  BY <1>2, <1>4, <1>6, SameStatuses, SameWork DEF CJ!Forget
<1> QED BY <1>3, <1>7 DEF CJ!JNext

LEMMA ImplNext ==
  BaseInv /\ FitInv /\ StartInv /\ StartInv' /\ [Next]_vars => [CJ!JNext]_(CJ!jvars)
<1> SUFFICES ASSUME BaseInv, FitInv, StartInv, StartInv', [Next]_vars
             PROVE  CJ!JNext \/ Stutters
  BY DEF Stutters, CJ!jvars
<1> USE DEF BaseInv
<1>1. ASSUME UNCHANGED <<containers, jobs, wk>> PROVE Stutters
  BY <1>1, SameStatuses, SameJobRows, SameWork DEF Stutters
<1>2. ASSUME NEW h \in Handlers, CreateSaveJob(h) \/ Commit(h), UNCHANGED wk
      PROVE  CJ!JNext \/ Stutters
  <2>1. req[h].pc \in Deciding
    BY <1>2 DEF CreateSaveJob, Commit, Deciding
  <2>2. /\ UNCHANGED <<containers, phase, chan>>
        /\ \/ /\ SaveJob(req[h].job, IF req[h].pc = "savejob" THEN "create" ELSE req[h].op,
                         req[h].ctr, req[h].user)
              /\ Goto(h, "send") \/ Reply(h)
           \/ UNCHANGED jobs
    BY <1>2 DEF CreateSaveJob, Commit
  <2>3. Inserts(h) \/ UNCHANGED jobs
    BY <1>2, <2>1, <2>2 DEF Inserts, Reply
  <2> QED BY <1>1, <1>2, <2>2, <2>3, ImplInserts
<1>3. CASE Service
  <2>1. PICK h \in Handlers : CreateSave(h) \/ Submit(h) \/ HandlerStep(h)
    BY <1>3 DEF Service
  <2>2. UNCHANGED wk
    BY <1>3 DEF Service
  <2>3. CASE CreateSave(h)
    BY <2>2, <2>3, ImplCreates
  <2>4. CASE Submit(h) \/ Lock(h) \/ Guard(h) \/ Abort(h) \/ Send(h) \/ SendTimeout(h)
    <3>1. UNCHANGED <<containers, jobs>>
      BY <2>4 DEF Submit, Lock, Guard, Abort, Send, SendTimeout
    <3> QED BY <1>1, <2>2, <3>1
  <2> QED BY <1>2, <2>1, <2>2, <2>3, <2>4 DEF HandlerStep
<1>4. CASE \E p \in Procs, w \in Workers : WorkerStep(p, w)
  BY <1>4, ImplWorks
<1>5. CASE \E p \in Procs : Recover(p) \/ Crash(p)
  BY <1>5, ImplRecovers, ImplCrashes
<1>6. CASE (\E p \in Procs : Boot(p)) \/ DockerEnv \/ UNCHANGED vars
  <2>1. UNCHANGED <<containers, jobs, wk>>
    BY <1>6 DEF Boot, DockerEnv, DockerExit, ManualRemove, vars
  <2> QED BY <1>1, <2>1
<1>7. CASE Clean
  BY <1>7, ImplCleans
<1> QED BY <1>3, <1>4, <1>5, <1>6, <1>7 DEF Next, Quiescent

LEMMA ImplInit == Init => CJ!JInit
<1> SUFFICES ASSUME Init PROVE CJ!JInit
  OBVIOUS
<1>1. Statuses = [c \in ContainerIds |-> "none"]
  BY DEF Init, DBInit, Statuses, StatusOf, Unused
<1>2. JobRows = [j \in JobIds |-> CJ!NoJob]
  BY DEF Init, DBInit, JobRows, JobRowOf, Unused, CJ!NoJob
<1>3. Executing = {} /\ Done = {}
  BY DEF Init, WorkerInit, Executing, Done, Working, HasSucceeded, Free
<1> QED BY <1>1, <1>2, <1>3 DEF CJ!JInit

\* Locks, channels, restarts, retries and lost replies look to a client like jobs
\* that are carried out one at a time and whose success means that the change was
\* made.
THEOREM ServiceRefines ==
  ASSUME Sole, ~EarlyAccess
  PROVE  Spec => ImplementsJobs
<1>1. Spec => []StartInv
  BY PlacesInit, StartNext, TypeCorrect, PTL DEF Spec
<1> QED BY <1>1, FitInvariant, ImplInit, ImplNext, PTL DEF Spec, ImplementsJobs, CJ!JSpec
=============================================================================
