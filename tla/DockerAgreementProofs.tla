----------------------- MODULE DockerAgreementProofs -----------------------
(***************************************************************************)
(* Workers and Docker.  In any environment a worker acts on what was made  *)
(* for the container of its job.  When no call fails and nothing crashes,  *)
(* table and Docker agree, for any number of containers, jobs, clients,    *)
(* workers, removals by hand and ends of commands: what Docker has is      *)
(* named by a row or in the hands of a worker, what runs is recorded, and  *)
(* what was deleted is gone.                                               *)
(***************************************************************************)
EXTENDS ManagerRefinementProofs

-----------------------------------------------------------------------------
(* In any environment: a Docker id, in a row or with a worker, belongs to the   *)
(* container it was made for.  No container's commands reach another one.       *)

At(p, w, c) == Working(p, w) /\ TargetOf(p, w) = c

\* d, if it is one, is the id of a Docker container that was made for c.
Named(d, c) == d \in DockerIds => docker[d].state # "unused" /\ docker[d].name = c

NamesFit == /\ \A c \in ContainerIds : Generated(c) => Named(containers[c].docker, c)
            /\ \A p \in Procs, w \in Workers : Working(p, w) => Named(wk[p][w].docker, TargetOf(p, w))

\* A job id that is not in the table yet belongs to one request.
ClaimsInv == ClaimsFresh /\ ClaimsApart

LEMMA ClaimsNext ==
  ASSUME TypeInv, ClaimsInv, [Next]_vars
  PROVE  ClaimsInv'
<1> USE DEF TypeInv, TypeOK, ServiceTypeOK, DBTypeOK, ClaimsInv
<1>0. \A h \in Handlers : Busy(h) => req[h].job \in JobIds
  BY RequestFields DEF Busy, Request
\* Requests only end or go on before their INSERT, and new rows are none of theirs.
<1>1. ASSUME \A h \in Handlers :
               req'[h].pc # "idle" => /\ Busy(h) /\ req'[h].job = req[h].job
                                      /\ Sending(h) => req'[h].pc = "send",
             \A h \in Handlers :
               /\ req'[h].pc \notin {"idle", "send"}
               /\ jobs[req[h].job].status = "UNUSED"
               => jobs'[req[h].job].status = "UNUSED"
      PROVE  ClaimsInv'
  BY <1>1 DEF ClaimsFresh, ClaimsApart, Busy, Sending
<1>2. ASSUME NEW h \in Handlers, Claims(h) PROVE ClaimsInv'
  <2>1. PICK r \in Request : /\ r.job \in FreshJobs
                             /\ req' = [req EXCEPT ![h] = r]
    BY <1>2 DEF Claims
  <2>2. /\ jobs[r.job].status = "UNUSED"
        /\ \A k \in Handlers : Busy(k) => req[k].job # r.job
    BY <2>1 DEF FreshJobs
  <2>3. req'[h] = r /\ \A k \in Handlers : k # h => req'[k] = req[k]
    BY <2>1
  <2>4. UNCHANGED jobs
    BY <1>2 DEF Claims
  <2>5. ClaimsFresh'
    BY <2>2, <2>3, <2>4 DEF ClaimsFresh, Busy, Sending
  <2>6. ASSUME NEW k \in Handlers, NEW m \in Handlers, req'[k].pc # "idle", req'[m].pc # "idle",
               req'[k].job = req'[m].job
        PROVE  k = m
    <3>1. CASE k = h \/ m = h
      BY <2>2, <2>3, <2>6, <3>1 DEF Busy
    <3>2. CASE k # h /\ m # h
      BY <2>3, <2>6, <3>2 DEF ClaimsApart, Busy
    <3> QED BY <3>1, <3>2
  <2> QED BY <2>5, <2>6 DEF ClaimsApart, Busy
<1>3. ASSUME NEW h \in Handlers, Inserts(h) PROVE ClaimsInv'
  <2>1. /\ req'[h].pc \in {"send", "idle"}
        /\ \A k \in Handlers : k # h => req'[k] = req[k]
        /\ \A j \in JobIds : j # req[h].job => jobs'[j] = jobs[j]
        /\ Busy(h)
    BY <1>3, InsertSets DEF Inserts, Deciding, Busy
  <2>2. req'[h].pc = "send" => req'[h].job = req[h].job
    <3>1. req[h] \in Request
      BY <2>1, RequestFields DEF Busy
    <3> QED BY <1>3, <2>1, <3>1 DEF Inserts, Goto, Request, Idle
  <2>3. \A k \in Handlers : k # h /\ Busy(k) => req[k].job \in JobIds /\ req[k].job # req[h].job
    BY <1>0, <2>1 DEF ClaimsApart
  <2>4. ClaimsFresh'
    BY <2>1, <2>3 DEF ClaimsFresh, Busy, Sending
  <2>5. ASSUME NEW k \in Handlers, NEW m \in Handlers, req'[k].pc # "idle", req'[m].pc # "idle",
               req'[k].job = req'[m].job
        PROVE  k = m
    <3>1. CASE k = h \/ m = h
      BY <2>1, <2>2, <2>3, <2>5, <3>1 DEF Busy
    <3>2. CASE k # h /\ m # h
      BY <2>1, <2>5, <3>2 DEF ClaimsApart, Busy
    <3> QED BY <3>1, <3>2
  <2> QED BY <2>4, <2>5 DEF ClaimsApart, Busy
<1>4. ASSUME NEW h \in Handlers, Settles(h) \/ Sends(h) PROVE ClaimsInv'
  <2>1. UNCHANGED jobs /\ \A k \in Handlers : k # h => req'[k] = req[k]
    BY <1>4 DEF Settles, Sends, Goto
  <2>2. \/ req'[h].pc = "idle"
        \/ /\ Busy(h) /\ ~Sending(h) /\ req'[h].job = req[h].job
    <3>1. CASE req' = [req EXCEPT ![h] = Idle]
      BY <3>1 DEF Idle
    <3>2. ASSUME NEW pc, Goto(h, pc), req[h].pc \in {"lock", "guard"}
          PROVE  Busy(h) /\ ~Sending(h) /\ req'[h].job = req[h].job
      <4>1. req[h] \in Request
        BY <3>2, RequestFields
      <4> QED BY <3>2, <4>1 DEF Goto, Busy, Sending, Request
    <3> QED BY <1>4, <3>1, <3>2 DEF Settles, Sends
  <2> QED BY <1>1, <2>1, <2>2 DEF Busy, Sending
<1>5. ASSUME NEW p \in Procs, NEW w \in Workers, Takes(p, w) \/ Works(p, w) PROVE ClaimsInv'
  <2>1. UNCHANGED req
    BY <1>5 DEF Takes, Works
  <2>2. \A j \in JobIds : jobs[j].status = "UNUSED" => jobs'[j] = jobs[j]
    BY <1>5 DEF Takes, Works, InJobs, UpdateJob
  <2> QED BY <1>0, <2>1, <2>2 DEF ClaimsFresh, ClaimsApart, Busy, Sending
<1>6. CASE (\E p \in Procs : Recover(p) \/ Boot(p)) \/ Clean
  <2>1. UNCHANGED req
    BY <1>6 DEF Recover, Boot, Clean
  <2>2. \A j \in JobIds : jobs[j].status = "UNUSED" => jobs'[j].status = "UNUSED"
    BY <1>6 DEF Recover, Boot, Clean, MarkRunningAsFailed, DeleteExpired, Expirable, Terminal
  <2> QED BY <1>0, <2>1, <2>2 DEF ClaimsFresh, ClaimsApart, Busy, Sending
<1>7. ASSUME NEW p \in Procs, Crash(p) PROVE ClaimsInv'
  <2>1. UNCHANGED jobs /\ \A h \in Handlers : req'[h] = req[h] \/ req'[h].pc = "idle"
    BY <1>7 DEF Crash, Idle
  <2> QED BY <2>1 DEF ClaimsFresh, ClaimsApart, Busy, Sending
<1>8. CASE UNCHANGED <<jobs, req>>
  BY <1>8 DEF ClaimsFresh, ClaimsApart, Busy, Sending
<1> QED BY <1>2, <1>3, <1>4, <1>5, <1>6, <1>7, <1>8, JobSteps DEF JobStep

LEMMA DockerMoves ==
  ASSUME TypeInv, [Next]_vars
  PROVE  \/ UNCHANGED docker
         \/ \E d \in FreshDockerIds, c \in ContainerIds : DockerCreate(d, c)
         \/ \E d \in DockerIds, s \in {"running", "exited", "removed"} : InDocker(d) /\ SetState(d, s)
<1>1. ASSUME NEW p \in Procs, NEW w \in Workers, WorkerStep(p, w)
      PROVE  \/ UNCHANGED docker
             \/ \E d \in FreshDockerIds, c \in ContainerIds : DockerCreate(d, c)
             \/ \E d \in DockerIds, s \in {"running", "exited", "removed"} :
                  InDocker(d) /\ SetState(d, s)
  <2>1. CASE CreateInDocker(p, w)
    <3>1. TargetOf(p, w) \in ContainerIds
      BY <2>1, TargetType DEF CreateInDocker, Working
    <3> QED BY <2>1, <3>1, NewDockerIdIsFresh DEF CreateInDocker
  <2>2. CASE StartCreated(p, w) \/ StartExisting(p, w) \/ Cleanup(p, w) \/ StopInDocker(p, w)
             \/ RemoveInDocker(p, w)
    BY <2>2 DEF StartCreated, StartExisting, StartInDocker, Cleanup, StopInDocker, RemoveInDocker,
       DockerStart, DockerStop, DockerRemove, InDocker
  <2> QED BY <1>1, <2>1, <2>2 DEF WorkerStep, Take, Mark, Find, SyncState, UpdateRow, DeleteRow, Finish
<1>2. CASE Service
  BY <1>2 DEF Service, CreateSave, Submit, HandlerStep, CreateSaveJob, Lock, Guard, Abort,
     Commit, Send, SendTimeout
<1>3. CASE (\E p \in Procs : Recover(p) \/ Boot(p) \/ Crash(p)) \/ Clean \/ UNCHANGED vars
  BY <1>3 DEF Recover, Boot, Crash, Clean, vars
<1>4. CASE DockerEnv
  BY <1>4 DEF DockerEnv, DockerExit, ManualRemove, DockerRemove, InDocker
<1> QED BY <1>1, <1>2, <1>3, <1>4 DEF Next, Quiescent

\* An id Docker has given out is not given out again.
LEMMA NamedStays ==
  ASSUME TypeInv, [Next]_vars, NEW d, NEW c, Named(d, c)
  PROVE  Named(d, c)'
<1> USE DEF TypeInv, TypeOK, DockerTypeOK
<1> SUFFICES ASSUME d \in DockerIds, docker[d].state # "unused", docker[d].name = c
             PROVE  docker'[d].state # "unused" /\ docker'[d].name = c
  BY DEF Named
<1>1. docker[d] \in DockerRow
  BY DEF DockerUnused
<1>2. ASSUME NEW e \in FreshDockerIds, NEW x, DockerCreate(e, x) PROVE docker'[d] = docker[d]
  BY <1>2 DEF DockerCreate, FreshDockerIds
<1>3. ASSUME NEW e \in DockerIds, NEW s \in {"running", "exited", "removed"}, SetState(e, s)
      PROVE  docker'[d] = docker[d] \/ docker'[d] = [docker[d] EXCEPT !.state = s]
  BY <1>3 DEF SetState
<1> QED BY <1>1, <1>2, <1>3, DockerMoves DEF DockerRow

\* Where the Docker id a worker holds comes from.
Copies(p, w) ==
  \/ wk'[p][w].docker = wk[p][w].docker
  \/ Stored(TargetOf(p, w)) /\ wk'[p][w].docker = containers[TargetOf(p, w)].docker
  \/ \E d \in FreshDockerIds : DockerCreate(d, TargetOf(p, w)) /\ wk'[p][w].docker = d

LEMMA WorkerCopies ==
  ASSUME TypeInv, NEW p \in Procs, NEW w \in Workers, WorkerStep(p, w), ~Take(p, w), ~Finish(p, w)
  PROVE  Copies(p, w)
<1> USE DEF TypeInv, TypeOK
<1>1. wk[p][w] \in Work
  BY WorkerKeepsJob, WorkFields
<1>2. \A r : SetWork(p, w, r) => wk'[p][w] = r
  BY SetWorkElsewhere
<1>3. ASSUME NEW pc, Step(p, w, pc) \/ Succeed(p, w) \/ Fail(p, w) \/ Retry(p, w)
      PROVE  Copies(p, w)
  BY <1>1, <1>2, <1>3 DEF Step, Succeed, Fail, Retry, Work, Copies
<1>4. ASSUME NEW s, SetWork(p, w, [wk[p][w] EXCEPT !.pc = "update", !.status = s])
      PROVE  Copies(p, w)
  BY <1>1, <1>2, <1>4 DEF Work, Copies
<1>5. ASSUME NEW pc, NEW d, SetWork(p, w, [wk[p][w] EXCEPT !.pc = pc, !.docker = d])
      PROVE  wk'[p][w].docker = d
  BY <1>1, <1>2, <1>5 DEF Work
<1>6. CASE Find(p, w)
  BY <1>3, <1>5, <1>6 DEF Find, Copies
<1>7. CASE CreateInDocker(p, w)
  BY <1>3, <1>5, <1>7, NewDockerIdIsFresh DEF CreateInDocker, Copies
<1>8. CASE ~Find(p, w) /\ ~CreateInDocker(p, w)
  BY <1>3, <1>4, <1>8 DEF WorkerStep, Mark, StartCreated, StartExisting, StartInDocker, Cleanup,
     SyncState, StopInDocker, UpdateRow, RemoveInDocker, DeleteRow
<1> QED BY <1>6, <1>7, <1>8

\* A worker keeps its job, its target with it, and the ids it holds fit that.
LEMMA CopyNamed ==
  ASSUME TypeInv, NamesFit, NEW p \in Procs, NEW w \in Workers, WorkerStep(p, w),
         ~Take(p, w), ~Finish(p, w), NEW c \in ContainerIds, At(p, w, c),
         NEW d \in DockerIds, wk'[p][w].docker = d
  PROVE  Named(d, c)'
<1> USE DEF TypeInv, TypeOK
<1>1. Working(p, w) /\ TargetOf(p, w) = c /\ [Next]_vars
  BY DEF At, Next
<1>2. CASE d = wk[p][w].docker
  <2>1. Named(d, c)
    BY <1>1, <1>2 DEF NamesFit
  <2> QED BY <1>1, <2>1, NamedStays
<1>3. CASE Stored(c) /\ d = containers[c].docker
  <2>1. Named(d, c)
    BY <1>3 DEF NamesFit, Stored, Generated
  <2> QED BY <1>1, <2>1, NamedStays
<1>4. CASE d \in FreshDockerIds /\ DockerCreate(d, c)
  BY <1>4 DEF DockerCreate, FreshDockerIds, DockerTypeOK, Named
<1> QED BY <1>1, <1>2, <1>3, <1>4, WorkerCopies DEF Copies

\* The row of a container names what was made for it.
LEMMA RowNamed ==
  ASSUME TypeInv, NamesFit, [Next]_vars, NEW c \in ContainerIds, containers'[c].status # "UNUSED",
         NEW d \in DockerIds, containers'[c].docker = d
  PROVE  Named(d, c)'
<1> USE DEF TypeInv, TypeOK
<1>1. SUFFICES Named(d, c)
  BY <1>1, NamedStays
<1>2. CASE containers'[c] = containers[c]
  BY <1>2 DEF NamesFit, Generated
<1>3. ASSUME NEW p \in Procs, NEW w \in Workers, Rewrites(p, w), TargetOf(p, w) = c
      PROVE  Named(d, c)
  <2>1. /\ Working(p, w) /\ Generated(c) /\ containers[c] \in ContainerRow
    BY <1>3 DEF Rewrites, Working, Stored, Generated, DBTypeOK, Unused
  <2>2. CASE UpdateContainer(c, wk[p][w].status, wk[p][w].docker)
    <3>1. d = wk[p][w].docker
      BY <2>1, <2>2 DEF UpdateContainer, ContainerRow, DBTypeOK
    <3> QED BY <1>3, <2>1, <3>1 DEF NamesFit
  <2>3. CASE DeleteContainer(c)
    <3>1. d = containers[c].docker
      BY <2>1, <2>3 DEF DeleteContainer, ContainerRow, DBTypeOK
    <3> QED BY <2>1, <3>1 DEF NamesFit
  <2> QED BY <1>3, <2>2, <2>3 DEF Rewrites
<1>4. ASSUME NEW p \in Procs, NEW w \in Workers, Rewrites(p, w), TargetOf(p, w) # c
      PROVE  containers'[c] = containers[c]
  BY <1>4 DEF Rewrites, UpdateContainer, DeleteContainer, DBTypeOK
<1>5. ASSUME NEW x \in ContainerIds, containers'[x].docker = NoDocker,
             \A y \in ContainerIds : y # x => containers'[y] = containers[y]
      PROVE  containers'[c] = containers[c]
  BY <1>5, NoDockerAssumption
<1> QED BY <1>2, <1>3, <1>4, <1>5, RowSteps

\* A worker holds an id after a step: it had the job before and goes on, or stands still.
LEMMA WorkNamed ==
  ASSUME TypeInv, ClaimsInv, NamesFit, [Next]_vars, NEW p \in Procs, NEW w \in Workers,
         Working(p, w)', NEW c, TargetOf(p, w)' = c, NEW d \in DockerIds, wk'[p][w].docker = d
  PROVE  Named(d, c)'
<1> USE DEF TypeInv, TypeOK
<1>1. ASSUME Working(p, w), wk'[p][w].job = wk[p][w].job
      PROVE  TargetOf(p, w)' = TargetOf(p, w) /\ At(p, w, c) /\ c \in ContainerIds
  <2>1. wk[p][w].job \in JobIds /\ jobs[wk[p][w].job].status # "UNUSED"
    BY <1>1, TargetType DEF JobsKnown
  <2>2. jobs'[wk[p][w].job].target = jobs[wk[p][w].job].target
    BY <2>1, JobsKept DEF ClaimsInv
  <2> QED BY <1>1, <2>2, TargetType DEF TargetOf, At
<1>2. CASE wk'[p][w] = wk[p][w]
  <2>1. Working(p, w) /\ wk[p][w].docker = d
    BY <1>2 DEF Working
  <2>2. Named(d, c)
    BY <1>1, <1>2, <2>1 DEF NamesFit, At
  <2> QED BY <2>2, NamedStays
<1>3. CASE WorkerStep(p, w)
  <2>1. ASSUME Take(p, w) PROVE wk'[p][w].docker = NoDocker
    <3>1. wk'[p][w] = [pc |-> "mark", job |-> Head(chan[p]), docker |-> NoDocker,
                       status |-> "Created", tries |-> 1, ok |-> FALSE]
      BY <2>1, SetWorkElsewhere DEF Take
    <3> QED BY <3>1
  <2>2. ASSUME Finish(p, w) PROVE FALSE
    <3>1. wk'[p][w] = Free
      BY <2>2, SetWorkElsewhere DEF Finish
    <3> QED BY <3>1 DEF Free, Working
  <2>3. ~Take(p, w) /\ ~Finish(p, w)
    BY <2>1, <2>2, NoDockerAssumption
  <2>4. Working(p, w) /\ wk'[p][w].job = wk[p][w].job
    BY <1>3, <2>3, WorkerKeepsJob
  <2> QED BY <1>1, <1>3, <2>3, <2>4, CopyNamed
<1>4. CASE ~WorkerStep(p, w)
  <2>1. ASSUME NEW q \in Procs, NEW v \in Workers, WorkerStep(q, v) PROVE wk'[p][w] = wk[p][w]
    BY <1>4, <2>1, WorkerAlone DEF OnlyWorker
  <2>2. ASSUME NEW q \in Procs, Crash(q) PROVE wk'[p][w] = wk[p][w]
    BY <2>2 DEF Crash, WorkerTypeOK, Working, Free
  <2>3. UNCHANGED wk => wk'[p][w] = wk[p][w]
    OBVIOUS
  <2>4. \/ UNCHANGED wk
        \/ \E q \in Procs, v \in Workers : WorkerStep(q, v)
        \/ \E q \in Procs : Crash(q)
    BY DEF Next, Service, Recover, Boot, Clean, DockerEnv, Quiescent, vars
  <2> QED BY <1>2, <2>1, <2>2, <2>3, <2>4
<1> QED BY <1>3, <1>4

LEMMA NamesNext ==
  ASSUME TypeInv, ClaimsInv, NamesFit, [Next]_vars
  PROVE  NamesFit'
<1>1. ASSUME NEW c \in ContainerIds, Generated(c)' PROVE Named(containers[c].docker, c)'
  BY <1>1, RowNamed DEF Named, Generated
<1>2. ASSUME NEW p \in Procs, NEW w \in Workers, Working(p, w)'
      PROVE  Named(wk[p][w].docker, TargetOf(p, w))'
  BY <1>2, WorkNamed DEF Named
<1> QED BY <1>1, <1>2 DEF NamesFit

LEMMA NamesInvariant == Spec => [](TypeInv /\ OwnerInv /\ ClaimsInv /\ NamesFit)
<1>1. Init => ClaimsInv /\ NamesFit
  BY PlacesInit DEF Init, DBInit, WorkerInit, ClaimsInv, PlacesInv, NamesFit, Named, Working,
     Generated, Free, Unused
<1>2. TypeInv /\ ClaimsInv /\ NamesFit /\ [Next]_vars => ClaimsInv' /\ NamesFit'
  BY ClaimsNext, NamesNext
<1>3. TypeInv /\ OwnerInv /\ [Next]_vars => OwnerInv'
  BY OwnerNext
<1> QED BY <1>1, <1>2, <1>3, OwnerInit, TypeCorrect, PTL DEF Spec

\* No job acts on what another user's container runs, in whatever environment: the id a
\* worker gives Docker was made for the container of its job, whose owner is the job's
\* user.
THEOREM ActsForOwner == Spec => []WorksForOwner
<1>1. TypeInv /\ OwnerInv /\ NamesFit => WorksForOwner
  <2> SUFFICES ASSUME TypeInv, OwnerInv, NamesFit, NEW p \in Procs, NEW w \in Workers,
                      Working(p, w), wk[p][w].docker \in DockerIds
               PROVE  /\ docker[wk[p][w].docker].name = TargetOf(p, w)
                      /\ containers[TargetOf(p, w)].owner = jobs[JobOf(p, w)].user
    BY DEF WorksForOwner
  <2>1. wk[p][w].job \in JobIds /\ jobs[wk[p][w].job].status # "UNUSED"
    BY TargetType DEF TypeInv, JobsKnown
  <2> QED BY <2>1 DEF NamesFit, Named, OwnerInv, JobBelongsToOwner, TargetOf, JobOf
<1> QED BY <1>1, NamesInvariant, PTL

-----------------------------------------------------------------------------
(* Without failures. *)

\* No call fails and nothing crashes.
Calm == MaxFaults = 0 /\ MaxCrashes = 0

Has(d, c) == InDocker(d) /\ docker[d].name = c

\* The row, or the worker's copy of it, names all that Docker has of container c;
\* Docker has nothing of it.
RowNames(c) == \A d \in DockerIds : Has(d, c) => Stored(c) /\ containers[c].docker = d
CopyNames(p, w, c) == \A d \in DockerIds : Has(d, c) => wk[p][w].docker = d
Nothing(c) == \A d \in DockerIds : ~Has(d, c)

\* What runs of container c is recorded in its row, or will be by the worker.
RowRecords(c) ==
  \A d \in DockerIds : Has(d, c) /\ docker[d].state = "running" => containers[c].status = "Running"
CopyRecords(p, w, c) ==
  \A d \in DockerIds : Has(d, c) /\ docker[d].state = "running" => wk[p][w].status = "Running"

\* Where a worker is past a Docker call whose result is not in the row yet.
Unrecorded == {"cstart", "cleanup", "sync", "update"}

WorkAgrees(p, w, c) ==
  LET r == wk[p][w] IN
  /\ r.pc \in Unrecorded \cup {"dstart", "dstop", "dremove"} => CopyNames(p, w, c)
  /\ r.pc = "dbdelete" => Nothing(c)
  /\ r.pc \notin Unrecorded => RowNames(c)
  /\ r.pc \notin {"sync", "update"} => RowRecords(c)
  /\ r.pc = "update" => CopyRecords(p, w, c)
  /\ r.pc = "finish" /\ r.ok /\ TypeOf(p, w) = "delete" => containers[c].status = "GONE"

WorkersAgree == \A p \in Procs, w \in Workers, c \in ContainerIds :
                  At(p, w, c) => WorkAgrees(p, w, c)

RestAgrees == \A c \in ContainerIds : WorkedOn(c) \/ (RowNames(c) /\ RowRecords(c))

DeletedGone == \A j \in JobIds :
                 jobs[j].status = "SUCCESS" /\ jobs[j].type = "delete" =>
                   containers[jobs[j].target].status = "GONE"

AgreeInv == NamesFit /\ WorkersAgree /\ RestAgrees /\ DeletedGone

-----------------------------------------------------------------------------
(* What does not happen, and what stays. *)

LEMMA NoFaults == ASSUME TypeInv, Calm PROVE ~Fault /\ ~Spend("crashes")
BY DEF TypeInv, TypeOK, Calm, Fault, Spend, Limit, Budgets

\* Whatever Docker has of e afterwards it had before, and running if it runs.
Fades(e) == \A d \in DockerIds :
              Has(d, e)' => /\ Has(d, e)
                            /\ docker'[d].state = "running" => docker[d].state = "running"

LEMMA AgreeStays ==
  ASSUME NEW e, Fades(e), containers'[e] = containers[e]
  PROVE  /\ RowNames(e) => RowNames(e)'
         /\ RowRecords(e) => RowRecords(e)'
BY DEF Fades, RowNames, RowRecords, Stored

LEMMA CopyStays ==
  ASSUME NEW e, Fades(e), NEW p, NEW w, wk'[p][w] = wk[p][w]
  PROVE  /\ CopyNames(p, w, e) => CopyNames(p, w, e)'
         /\ CopyRecords(p, w, e) => CopyRecords(p, w, e)'
         /\ Nothing(e) => Nothing(e)'
BY DEF Fades, CopyNames, CopyRecords, Nothing

\* A worker that stands still keeps its container and its type of job.
LEMMA AtStays ==
  ASSUME TypeInv, PlacesInv, [Next]_vars, NEW p \in Procs, NEW w \in Workers,
         wk'[p][w] = wk[p][w], Working(p, w)
  PROVE  Working(p, w)' /\ TargetOf(p, w)' = TargetOf(p, w) /\ TypeOf(p, w)' = TypeOf(p, w)
<1>1. wk[p][w].job \in JobIds /\ jobs[wk[p][w].job].status # "UNUSED"
  BY TargetType DEF TypeInv, JobsKnown
<1> QED BY <1>1, JobsKeep DEF Working, TargetOf, TypeOf

LEMMA WorkStays ==
  ASSUME TypeInv, PlacesInv, [Next]_vars, NEW p \in Procs, NEW w \in Workers, NEW e,
         wk'[p][w] = wk[p][w], Fades(e), At(p, w, e), WorkAgrees(p, w, e),
         containers'[e] = containers[e]
  PROVE  WorkAgrees(p, w, e)'
<1>1. TypeOf(p, w)' = TypeOf(p, w)
  BY AtStays DEF At
<1>2. /\ RowNames(e) => RowNames(e)'
      /\ RowRecords(e) => RowRecords(e)'
      /\ CopyNames(p, w, e) => CopyNames(p, w, e)'
      /\ CopyRecords(p, w, e) => CopyRecords(p, w, e)'
      /\ Nothing(e) => Nothing(e)'
  BY AgreeStays, CopyStays
<1> QED BY <1>1, <1>2 DEF WorkAgrees

\* A step of one worker on its container leaves the others in agreement.
LEMMA OneMoves ==
  ASSUME TypeInv, PlacesInv, [Next]_vars, WorkersAgree, RestAgrees,
         NEW p \in Procs, NEW w \in Workers, NEW c \in ContainerIds, OnlyWorker(p, w),
         \A e \in ContainerIds : e # c => containers'[e] = containers[e] /\ Fades(e),
         Working(p, w) => At(p, w, c),
         \A q \in Procs, v \in Workers : <<q, v>> # <<p, w>> => ~At(q, v, c),
         Working(p, w)' => At(p, w, c)' /\ WorkAgrees(p, w, c)',
         ~Working(p, w)' => RowNames(c)' /\ RowRecords(c)'
  PROVE  WorkersAgree' /\ RestAgrees'
<1>1. ASSUME NEW q \in Procs, NEW v \in Workers, <<q, v>> # <<p, w>>, Working(q, v)
      PROVE  Working(q, v)' /\ TargetOf(q, v)' = TargetOf(q, v)
  BY <1>1, AtStays DEF OnlyWorker
<1>2. ASSUME NEW q \in Procs, NEW v \in Workers, <<q, v>> # <<p, w>>, Working(q, v)'
      PROVE  Working(q, v)
  BY <1>2 DEF OnlyWorker, Working
<1>3. WorkersAgree'
  <2> SUFFICES ASSUME NEW q \in Procs, NEW v \in Workers, NEW e \in ContainerIds, At(q, v, e)'
               PROVE  WorkAgrees(q, v, e)'
    BY DEF WorkersAgree
  <2>1. CASE q = p /\ v = w
    BY <2>1 DEF At
  <2>2. CASE <<q, v>> # <<p, w>>
    <3>1. At(q, v, e)
      BY <1>1, <1>2, <2>2 DEF At
    <3>2. e # c
      BY <2>2, <3>1
    <3> QED BY <2>2, <3>1, <3>2, WorkStays DEF WorkersAgree, OnlyWorker
  <2> QED BY <2>1, <2>2
<1>4. RestAgrees'
  <2> SUFFICES ASSUME NEW e \in ContainerIds, ~WorkedOn(e)'
               PROVE  RowNames(e)' /\ RowRecords(e)'
    BY DEF RestAgrees
  <2>1. CASE e = c
    BY <2>1 DEF WorkedOn, At
  <2>2. CASE e # c
    <3>1. ASSUME NEW q \in Procs, NEW v \in Workers, At(q, v, e) PROVE FALSE
      <4>1. <<q, v>> # <<p, w>>
        BY <2>2, <3>1 DEF At
      <4>2. Working(q, v)' /\ TargetOf(q, v)' = e
        BY <1>1, <3>1, <4>1 DEF At
      <4> QED BY <4>2 DEF WorkedOn
    <3>2. RowNames(e) /\ RowRecords(e)
      BY <3>1 DEF RestAgrees, WorkedOn, At
    <3> QED BY <2>2, <3>2, AgreeStays
  <2> QED BY <2>1, <2>2
<1> QED BY <1>3, <1>4

\* A step without the workers, in which Docker's containers at most end or go.
LEMMA NoneMoves ==
  ASSUME TypeInv, PlacesInv, OwnerInv, [Next]_vars, WorkersAgree, RestAgrees, UNCHANGED wk,
         \A e \in ContainerIds : Fades(e) /\ (Generated(e) => containers'[e] = containers[e])
  PROVE  WorkersAgree' /\ RestAgrees'
<1>1. ASSUME NEW q \in Procs, NEW v \in Workers, Working(q, v)
      PROVE  /\ TargetOf(q, v) \in ContainerIds /\ Generated(TargetOf(q, v))
             /\ Working(q, v)' /\ TargetOf(q, v)' = TargetOf(q, v)
  <2>1. wk[q][v].job \in JobIds /\ jobs[wk[q][v].job].status # "UNUSED"
    BY <1>1, TargetType DEF TypeInv, JobsKnown
  <2> QED BY <1>1, <2>1, AtStays, TargetType DEF OwnerInv, JobBelongsToOwner, TargetOf
<1>2. WorkersAgree'
  <2> SUFFICES ASSUME NEW q \in Procs, NEW v \in Workers, NEW e \in ContainerIds, At(q, v, e)'
               PROVE  WorkAgrees(q, v, e)'
    BY DEF WorkersAgree
  <2>1. Working(q, v)
    BY DEF At, Working
  <2>2. At(q, v, e) /\ Generated(e)
    BY <1>1, <2>1 DEF At
  <2> QED BY <2>2, WorkStays DEF WorkersAgree
<1>3. RestAgrees'
  <2> SUFFICES ASSUME NEW e \in ContainerIds, ~WorkedOn(e)'
               PROVE  RowNames(e)' /\ RowRecords(e)'
    BY DEF RestAgrees
  <2>1. RowNames(e) /\ RowRecords(e)
    BY <1>1 DEF RestAgrees, WorkedOn
  <2>2. CASE Generated(e)
    BY <2>1, <2>2, AgreeStays
  <2>3. CASE ~Generated(e)
    BY <2>1, <2>3 DEF RowNames, RowRecords, Stored, Generated, Fades
  <2> QED BY <2>2, <2>3
<1> QED BY <1>2, <1>3

-----------------------------------------------------------------------------
(* One step of a worker that has a job, on its container. *)

LEMMA AtFits ==
  ASSUME BaseInv, FitInv, NEW p \in Procs, NEW w \in Workers, NEW c \in ContainerIds, At(p, w, c)
  PROVE  /\ wk[p][w] \in Work
         /\ TypeOf(p, w) \in JobTypes
         /\ containers[c] \in ContainerRow
         /\ FitsAt(wk[p][w].pc, TypeOf(p, w), wk[p][w].status)
         /\ StartsFrom(TypeOf(p, w), containers[c].status)
<1>1. /\ wk[p][w] \in Work /\ wk[p][w].job \in JobIds /\ jobs[wk[p][w].job] \in JobRow
      /\ jobs[wk[p][w].job].status \in Active
  BY TargetType DEF At, BaseInv, PlacesInv, WorkedActive
<1>2. Generated(c)
  BY <1>1 DEF At, TargetOf, BaseInv, OwnerInv, JobBelongsToOwner, Active
<1>3. containers[c] \in ContainerRow
  BY <1>2 DEF BaseInv, TypeInv, TypeOK, DBTypeOK, Generated, Unused
<1> QED BY <1>1, <1>3 DEF At, TypeOf, TargetOf, JobRow, FitInv, WorkFits, JobFits

\* What a step of the worker has to keep.
Keeps(p, w, c) ==
  /\ \A e \in ContainerIds : e # c => containers'[e] = containers[e] /\ Fades(e)
  /\ wk'[p][w].pc # "take" => WorkAgrees(p, w, c)'
  /\ wk'[p][w].pc = "take" => RowNames(c)' /\ RowRecords(c)'

\* What Docker has of a container after a call on d, which has its name.
LEMMA StateIsSet ==
  ASSUME DockerTypeOK, NEW c \in ContainerIds, NEW d \in DockerIds, Has(d, c),
         NEW s \in {"running", "exited", "removed"}, SetState(d, s)
  PROVE  /\ docker'[d].state = s /\ docker'[d].name = c
         /\ \A x \in DockerIds : x # d => docker'[x] = docker[x]
         /\ \A e \in ContainerIds : e # c => Fades(e)
         /\ \A x \in DockerIds : Has(x, c)' => Has(x, c)
<1>1. docker[d] \in DockerRow
  BY DEF DockerTypeOK, Has, InDocker, DockerUnused
<1>2. docker' = [docker EXCEPT ![d] = [docker[d] EXCEPT !.state = s]]
  BY DEF SetState
<1>3. /\ docker'[d].state = s /\ docker'[d].name = c
      /\ \A x \in DockerIds : x # d => docker'[x] = docker[x]
  BY <1>1, <1>2 DEF DockerTypeOK, DockerRow, Has
<1> QED BY <1>3 DEF Fades, Has, InDocker

LEMMA SameDocker ==
  ASSUME UNCHANGED docker
  PROVE  \A e : /\ Fades(e)
                /\ Nothing(e) => Nothing(e)'
                /\ UNCHANGED containers => /\ RowNames(e) => RowNames(e)'
                                           /\ RowRecords(e) => RowRecords(e)'
BY DEF Fades, Has, InDocker, Nothing, RowNames, RowRecords, Stored

\* The type of the job a worker keeps.
LEMMA TypeStays ==
  ASSUME BaseInv, NEW p \in Procs, NEW w \in Workers, WorkerStep(p, w), Working(p, w),
         wk'[p][w].job = wk[p][w].job
  PROVE  TypeOf(p, w)' = TypeOf(p, w) /\ TargetOf(p, w)' = TargetOf(p, w)
<1>1. wk[p][w].job \in JobIds /\ jobs[wk[p][w].job].status # "UNUSED"
  BY TargetType DEF BaseInv, TypeInv, JobsKnown
<1>2. [Next]_vars
  BY DEF Next
<1> QED BY <1>1, <1>2, JobsKeep DEF BaseInv, TypeOf, TargetOf

\* Steps that leave Docker and the rows alone.
LEMMA QuietKeeps ==
  ASSUME BaseInv, FitInv, ~Fault, NEW p \in Procs, NEW w \in Workers, NEW c \in ContainerIds,
         At(p, w, c), WorkAgrees(p, w, c),
         Mark(p, w) \/ Find(p, w) \/ SyncState(p, w) \/ Finish(p, w)
  PROVE  Keeps(p, w, c)
<1> USE DEF BaseInv, TypeInv, TypeOK
<1>1. /\ wk[p][w] \in Work /\ TypeOf(p, w) \in JobTypes /\ containers[c] \in ContainerRow
      /\ Working(p, w) /\ TargetOf(p, w) = c
  BY AtFits DEF At
<1>2. \A r : SetWork(p, w, r) => wk'[p][w] = r
  BY SetWorkElsewhere
<1>3. UNCHANGED <<docker, containers>>
  BY DEF Mark, Find, SyncState, Finish
<1>4. \A e : /\ Fades(e)
             /\ Nothing(e) => Nothing(e)'
             /\ RowNames(e) => RowNames(e)'
             /\ RowRecords(e) => RowRecords(e)'
  BY <1>3, SameDocker
<1>5. SUFFICES /\ wk'[p][w].pc # "take" => WorkAgrees(p, w, c)'
               /\ wk'[p][w].pc = "take" => RowNames(c)' /\ RowRecords(c)'
  BY <1>3, <1>4 DEF Keeps
<1>6. CASE Mark(p, w)
  <2>1. wk'[p][w].pc = "find" /\ wk[p][w].pc = "mark"
    BY <1>1, <1>6, StepGoes DEF Mark
  <2> QED BY <1>4, <2>1 DEF WorkAgrees, Unrecorded
<1>7. CASE Find(p, w)
  <2> DEFINE d == containers[c].docker
             next == AfterFind(TypeOf(p, w), d)
  <2>1. RowNames(c)' /\ RowRecords(c)' /\ RowNames(c)
    BY <1>4, <1>7 DEF WorkAgrees, Unrecorded, Find
  <2>2. CASE Fail(p, w)
    <3>1. wk'[p][w].pc = "finish" /\ ~wk'[p][w].ok
      BY <1>1, <1>2, <2>2 DEF Fail, Work
    <3> QED BY <2>1, <3>1 DEF WorkAgrees, Unrecorded
  <2>3. CASE SetWork(p, w, [wk[p][w] EXCEPT !.pc = next, !.docker = d]) /\ next # "fail"
    <3>1. wk'[p][w].pc = next /\ wk'[p][w].docker = d
      BY <1>1, <1>2, <2>3 DEF Work
    <3>2. next \in {"dcreate", "dstart", "dstop", "dremove", "dbdelete"}
      BY <1>1, <2>3 DEF AfterFind, JobTypes
    <3>3. CopyNames(p, w, c)'
      BY <1>3, <2>1, <3>1 DEF RowNames, CopyNames, Has, InDocker
    <3>4. next = "dbdelete" => Nothing(c)'
      <4>1. SUFFICES ASSUME next = "dbdelete" PROVE d = NoDocker
        BY <1>3, <2>1, NoDockerAssumption DEF RowNames, Nothing, Has, InDocker
      <4> QED BY <1>1, <4>1 DEF AfterFind, JobTypes
    <3> HIDE DEF next
    <3> QED BY <2>1, <3>1, <3>2, <3>3, <3>4 DEF WorkAgrees, Unrecorded
  <2> QED BY <1>1, <1>7, <2>2, <2>3 DEF Find
<1>8. CASE SyncState(p, w)
  <2>1. PICK s \in SyncOutcomes(wk[p][w].docker) :
          SetWork(p, w, [wk[p][w] EXCEPT !.pc = "update", !.status = s])
    BY <1>8 DEF SyncState
  <2>2. /\ wk'[p][w].pc = "update" /\ wk'[p][w].status = s
        /\ wk'[p][w].docker = wk[p][w].docker
    BY <1>1, <1>2, <2>1 DEF Work
  <2>3. CopyNames(p, w, c)
    BY <1>8 DEF WorkAgrees, Unrecorded, SyncState
  <2>4. CopyNames(p, w, c)'
    BY <1>3, <2>2, <2>3 DEF CopyNames, Has, InDocker
  <2>5. CopyRecords(p, w, c)'
    BY <1>3, <2>1, <2>2, <2>3 DEF CopyNames, CopyRecords, Has, InDocker, SyncOutcomes
  <2> QED BY <2>2, <2>4, <2>5 DEF WorkAgrees, Unrecorded
<1>9. CASE Finish(p, w)
  <2>1. wk'[p][w].pc = "take"
    BY <1>2, <1>9 DEF Finish, Free
  <2> QED BY <1>4, <1>9, <2>1 DEF WorkAgrees, Unrecorded, Finish
<1> QED BY <1>6, <1>7, <1>8, <1>9

LEMMA CreateKeeps ==
  ASSUME BaseInv, FitInv, ~Fault, NEW p \in Procs, NEW w \in Workers, NEW c \in ContainerIds,
         At(p, w, c), WorkAgrees(p, w, c), CreateInDocker(p, w)
  PROVE  Keeps(p, w, c)
<1> USE DEF BaseInv, TypeInv, TypeOK
<1>1. wk[p][w] \in Work /\ Working(p, w) /\ TargetOf(p, w) = c
  BY AtFits DEF At
<1>2. \A r : SetWork(p, w, r) => wk'[p][w] = r
  BY SetWorkElsewhere
<1>3. UNCHANGED containers /\ RowNames(c) /\ RowRecords(c)
  BY DEF CreateInDocker, WorkAgrees, Unrecorded
<1>4. CASE Fail(p, w) /\ UNCHANGED docker
  <2>1. wk'[p][w].pc = "finish" /\ ~wk'[p][w].ok
    BY <1>1, <1>2, <1>4 DEF Fail, Work
  <2> QED BY <1>3, <1>4, <2>1, SameDocker DEF Keeps, WorkAgrees, Unrecorded
<1>5. ASSUME NEW d \in FreshDockerIds, ~NameInUse(c), DockerCreate(d, c),
             SetWork(p, w, [wk[p][w] EXCEPT !.pc = "cstart", !.docker = d])
      PROVE  Keeps(p, w, c)
  <2>1. wk'[p][w].pc = "cstart" /\ wk'[p][w].docker = d
    BY <1>1, <1>2, <1>5 DEF Work
  <2>2. /\ d \in DockerIds /\ docker'[d] = [state |-> "created", name |-> c]
        /\ \A x \in DockerIds : x # d => docker'[x] = docker[x]
    BY <1>5 DEF DockerCreate, FreshDockerIds, DockerTypeOK
  <2>3. \A e \in ContainerIds : e # c => Fades(e)
    BY <2>2 DEF Fades, Has, InDocker
  <2>4. \A x \in DockerIds : Has(x, c)' => x = d
    BY <1>5, <2>2 DEF Has, InDocker, NameInUse
  <2>5. CopyNames(p, w, c)' /\ RowRecords(c)'
    BY <2>1, <2>2, <2>4 DEF CopyNames, RowRecords
  <2> QED BY <1>3, <2>1, <2>3, <2>5 DEF Keeps, WorkAgrees, Unrecorded
<1> QED BY <1>1, <1>4, <1>5, NewDockerIdIsFresh DEF CreateInDocker

LEMMA StartKeeps ==
  ASSUME BaseInv, FitInv, ~Fault, NamesFit, NEW p \in Procs, NEW w \in Workers,
         NEW c \in ContainerIds, At(p, w, c), WorkAgrees(p, w, c),
         StartCreated(p, w) \/ StartExisting(p, w)
  PROVE  Keeps(p, w, c)
<1> USE DEF BaseInv, TypeInv, TypeOK
<1>1. wk[p][w] \in Work /\ Working(p, w) /\ TargetOf(p, w) = c
  BY AtFits DEF At
<1>2. \A r : SetWork(p, w, r) => wk'[p][w] = r
  BY SetWorkElsewhere
<1> DEFINE d == wk[p][w].docker
<1>3. /\ UNCHANGED containers /\ CopyNames(p, w, c)
      /\ wk[p][w].pc = "cstart" \/ (wk[p][w].pc = "dstart" /\ RowNames(c) /\ RowRecords(c))
  BY DEF StartCreated, StartExisting, StartInDocker, WorkAgrees, Unrecorded
<1>4. CASE InDocker(d) /\ DockerStart(d) /\ Step(p, w, "sync")
  <2>1. d \in DockerIds /\ Has(d, c)
    BY <1>1, <1>4 DEF InDocker, Has, NamesFit, Named
  <2>2. wk'[p][w].pc = "sync" /\ wk'[p][w].docker = d
    BY <1>1, <1>4, StepGoes
  <2> HIDE DEF d
  <2>3. /\ \A e \in ContainerIds : e # c => Fades(e)
        /\ \A x \in DockerIds : Has(x, c)' => Has(x, c)
    BY <1>4, <2>1, StateIsSet DEF DockerStart
  <2>4. CopyNames(p, w, c)'
    BY <1>3, <2>2, <2>3 DEF CopyNames, d
  <2> QED BY <1>3, <2>2, <2>3, <2>4 DEF Keeps, WorkAgrees, Unrecorded
<1>5. CASE UNCHANGED docker /\ ~InDocker(d)
  <2>1. Nothing(c)
    BY <1>3, <1>5 DEF CopyNames, Nothing, Has
  <2>2. Nothing(c)' /\ \A e : Fades(e)
    BY <1>5, <2>1, SameDocker
  <2>3. RowNames(c)' /\ RowRecords(c)' /\ CopyNames(p, w, c)'
    BY <2>2 DEF Nothing, RowNames, RowRecords, CopyNames
  <2>4. CASE Fail(p, w)
    <3>1. wk'[p][w].pc = "finish" /\ ~wk'[p][w].ok
      BY <1>1, <1>2, <2>4 DEF Fail, Work
    <3> QED BY <1>3, <2>2, <2>3, <3>1 DEF Keeps, WorkAgrees, Unrecorded
  <2>5. CASE Step(p, w, "cleanup")
    <3>1. wk'[p][w].pc = "cleanup"
      BY <1>1, <2>5, StepGoes
    <3> QED BY <1>3, <2>2, <2>3, <3>1 DEF Keeps, WorkAgrees, Unrecorded
  <2> QED BY <1>5, <2>4, <2>5 DEF StartCreated, StartExisting, StartInDocker
<1> QED BY <1>4, <1>5 DEF StartCreated, StartExisting, StartInDocker

\* A removal of the only container Docker has under the name leaves nothing.
LEMMA RemovedIsNothing ==
  ASSUME DockerTypeOK, NEW p \in Procs, NEW w \in Workers, NEW c \in ContainerIds,
         Named(wk[p][w].docker, c), CopyNames(p, w, c),
         \/ InDocker(wk[p][w].docker) /\ DockerRemove(wk[p][w].docker)
         \/ ~InDocker(wk[p][w].docker) /\ UNCHANGED docker
  PROVE  /\ \A e \in ContainerIds : e # c => Fades(e)
         /\ Nothing(c)'
<1> DEFINE d == wk[p][w].docker
<1>1. CASE InDocker(d) /\ DockerRemove(d)
  <2>1. d \in DockerIds /\ Has(d, c)
    BY <1>1 DEF InDocker, Has, Named
  <2>2. \A x \in DockerIds : Has(x, c) => x = d
    BY DEF CopyNames
  <2> HIDE DEF d
  <2>3. /\ \A e \in ContainerIds : e # c => Fades(e)
        /\ \A x \in DockerIds : Has(x, c)' => Has(x, c)
        /\ docker'[d].state = "removed"
    BY <1>1, <2>1, StateIsSet DEF DockerRemove
  <2> QED BY <2>2, <2>3 DEF Nothing, Has, InDocker
<1>2. CASE ~InDocker(d) /\ UNCHANGED docker
  <2>1. Nothing(c)
    BY <1>2 DEF CopyNames, Nothing, Has
  <2> QED BY <1>2, <2>1, SameDocker
<1> QED BY <1>1, <1>2

LEMMA RemoveKeeps ==
  ASSUME BaseInv, FitInv, ~Fault, NamesFit, NEW p \in Procs, NEW w \in Workers,
         NEW c \in ContainerIds, At(p, w, c), WorkAgrees(p, w, c),
         Cleanup(p, w) \/ RemoveInDocker(p, w)
  PROVE  Keeps(p, w, c)
<1> USE DEF BaseInv, TypeInv, TypeOK
<1>1. wk[p][w] \in Work /\ Working(p, w) /\ Named(wk[p][w].docker, c)
  BY AtFits DEF At, NamesFit
<1>2. \A r : SetWork(p, w, r) => wk'[p][w] = r
  BY SetWorkElsewhere
<1>3. UNCHANGED containers /\ CopyNames(p, w, c)
  BY DEF Cleanup, RemoveInDocker, WorkAgrees, Unrecorded
<1>4. /\ \A e \in ContainerIds : e # c => Fades(e)
      /\ Nothing(c)'
  BY <1>1, <1>3, RemovedIsNothing DEF Cleanup, RemoveInDocker
<1>5. RowNames(c)' /\ RowRecords(c)' /\ CopyNames(p, w, c)'
  BY <1>4 DEF Nothing, RowNames, RowRecords, CopyNames
<1>6. CASE Fail(p, w)
  <2>1. wk'[p][w].pc = "finish" /\ ~wk'[p][w].ok
    BY <1>1, <1>2, <1>6 DEF Fail, Work
  <2> QED BY <1>3, <1>4, <1>5, <2>1 DEF Keeps, WorkAgrees, Unrecorded
<1>7. CASE Step(p, w, "dbdelete")
  <2>1. wk'[p][w].pc = "dbdelete"
    BY <1>1, <1>7, StepGoes
  <2> QED BY <1>3, <1>4, <1>5, <2>1 DEF Keeps, WorkAgrees, Unrecorded
<1> QED BY <1>6, <1>7 DEF Cleanup, RemoveInDocker

LEMMA StopKeeps ==
  ASSUME BaseInv, FitInv, ~Fault, NamesFit, NEW p \in Procs, NEW w \in Workers,
         NEW c \in ContainerIds, At(p, w, c), WorkAgrees(p, w, c), StopInDocker(p, w)
  PROVE  Keeps(p, w, c)
<1> USE DEF BaseInv, TypeInv, TypeOK
<1>1. wk[p][w] \in Work /\ Working(p, w) /\ Named(wk[p][w].docker, c)
  BY AtFits DEF At, NamesFit
<1>2. \A r : SetWork(p, w, r) => wk'[p][w] = r
  BY SetWorkElsewhere
<1>3. UNCHANGED containers /\ CopyNames(p, w, c) /\ RowNames(c) /\ RowRecords(c)
  BY DEF StopInDocker, WorkAgrees, Unrecorded
<1> DEFINE d == wk[p][w].docker
<1>4. CASE Fail(p, w) /\ UNCHANGED docker
  <2>1. wk'[p][w].pc = "finish" /\ ~wk'[p][w].ok
    BY <1>1, <1>2, <1>4 DEF Fail, Work
  <2> QED BY <1>3, <1>4, <2>1, SameDocker DEF Keeps, WorkAgrees, Unrecorded
<1>5. CASE /\ InDocker(d) /\ DockerStop(d)
           /\ SetWork(p, w, [wk[p][w] EXCEPT !.pc = "update", !.status = "Exited"])
  <2>1. wk'[p][w].pc = "update" /\ wk'[p][w].docker = d
    BY <1>1, <1>2, <1>5 DEF Work
  <2>2. d \in DockerIds /\ Has(d, c)
    BY <1>1, <1>5 DEF InDocker, Has, Named
  <2>3. \A x \in DockerIds : Has(x, c) => x = d
    BY <1>3 DEF CopyNames
  <2> HIDE DEF d
  <2>4. /\ \A e \in ContainerIds : e # c => Fades(e)
        /\ \A x \in DockerIds : Has(x, c)' => Has(x, c)
        /\ docker'[d].state # "running"
    <3>1. CASE docker[d].state = "running"
      BY <1>5, <2>2, <3>1, StateIsSet DEF DockerStop
    <3>2. CASE docker[d].state # "running"
      BY <1>5, <3>2, SameDocker DEF DockerStop, Has, InDocker
    <3> QED BY <3>1, <3>2
  <2>5. CopyNames(p, w, c)' /\ CopyRecords(p, w, c)'
    BY <2>1, <2>3, <2>4 DEF CopyNames, CopyRecords
  <2> QED BY <1>3, <2>1, <2>4, <2>5 DEF Keeps, WorkAgrees, Unrecorded
<1> QED BY <1>4, <1>5 DEF StopInDocker

LEMMA RowKeeps ==
  ASSUME BaseInv, FitInv, ~Fault, NEW p \in Procs, NEW w \in Workers,
         NEW c \in ContainerIds, At(p, w, c), WorkAgrees(p, w, c),
         UpdateRow(p, w) \/ DeleteRow(p, w)
  PROVE  Keeps(p, w, c)
<1> USE DEF BaseInv, TypeInv, TypeOK, DBTypeOK
<1>1. /\ wk[p][w] \in Work /\ Working(p, w) /\ TargetOf(p, w) = c
      /\ TypeOf(p, w) \in JobTypes /\ containers[c] \in ContainerRow
      /\ FitsAt(wk[p][w].pc, TypeOf(p, w), wk[p][w].status)
      /\ StartsFrom(TypeOf(p, w), containers[c].status)
  BY AtFits DEF At
<1>2. \A r : SetWork(p, w, r) => wk'[p][w] = r
  BY SetWorkElsewhere
<1>3. UNCHANGED docker /\ \A e : Fades(e) /\ (Nothing(e) => Nothing(e)')
  BY SameDocker DEF UpdateRow, DeleteRow
<1>4. CASE UpdateRow(p, w)
  <2>1. Stored(c)
    BY <1>1, <1>4 DEF UpdateRow, FitsAt, StartsFrom, CJ!From, Stored
  <2>2. UpdateContainer(c, wk[p][w].status, wk[p][w].docker) /\ Succeed(p, w)
    BY <1>1, <1>4, <2>1 DEF UpdateRow
  <2>3. /\ containers'[c].status = wk[p][w].status /\ containers'[c].docker = wk[p][w].docker
        /\ \A e \in ContainerIds : e # c => containers'[e] = containers[e]
    BY <1>1, <2>2 DEF UpdateContainer, ContainerRow
  <2>4. Stored(c)'
    BY <1>1, <2>3 DEF Stored, Work
  <2>5. CopyNames(p, w, c) /\ CopyRecords(p, w, c)
    BY <1>4 DEF UpdateRow, WorkAgrees, Unrecorded
  <2>6. RowNames(c)' /\ RowRecords(c)'
    BY <1>3, <2>3, <2>4, <2>5 DEF CopyNames, CopyRecords, RowNames, RowRecords, Has, InDocker
  <2>7. wk'[p][w].pc = "finish" /\ wk'[p][w].job = wk[p][w].job
    BY <1>1, <1>2, <2>2 DEF Succeed, Work
  <2>8. TypeOf(p, w)' # "delete"
    <3>1. WorkerStep(p, w)
      BY <1>4 DEF WorkerStep
    <3> QED BY <1>1, <1>4, <2>7, <3>1, TypeStays DEF UpdateRow, FitsAt
  <2> QED BY <1>3, <2>3, <2>6, <2>7, <2>8 DEF Keeps, WorkAgrees, Unrecorded
<1>5. CASE DeleteRow(p, w)
  <2>1. Nothing(c)'
    BY <1>3, <1>5 DEF DeleteRow, WorkAgrees
  <2>2. RowNames(c)' /\ RowRecords(c)'
    BY <2>1 DEF Nothing, RowNames, RowRecords
  <2>3. CASE DeleteContainer(c) /\ Succeed(p, w)
    <3>1. /\ containers'[c].status = "GONE"
          /\ \A e \in ContainerIds : e # c => containers'[e] = containers[e]
      BY <1>1, <2>3 DEF DeleteContainer, ContainerRow
    <3>2. wk'[p][w].pc = "finish"
      BY <1>1, <2>3, EndGoes
    <3> QED BY <1>3, <2>2, <3>1, <3>2 DEF Keeps, WorkAgrees, Unrecorded
  <2>4. CASE UNCHANGED containers /\ Retry(p, w)
    <3>1. \/ wk'[p][w].pc = "finish" /\ ~wk'[p][w].ok
          \/ wk'[p][w].pc = "dbdelete"
      BY <1>1, <1>2, <1>5, <2>4 DEF Retry, Fail, Work, DeleteRow
    <3> QED BY <1>3, <2>1, <2>2, <2>4, <3>1 DEF Keeps, WorkAgrees, Unrecorded
  <2> QED BY <1>1, <1>5, <2>3, <2>4 DEF DeleteRow
<1> QED BY <1>4, <1>5

-----------------------------------------------------------------------------
(* Every step keeps rows and Docker in agreement. *)

LEMMA WorkerKeeps ==
  ASSUME BaseInv, FitInv, ~Fault, NamesFit, NEW p \in Procs, NEW w \in Workers,
         NEW c \in ContainerIds, At(p, w, c), WorkAgrees(p, w, c), WorkerStep(p, w)
  PROVE  Keeps(p, w, c)
<1>1. ~Take(p, w)
  BY DEF Take, At
<1> QED BY <1>1, QuietKeeps, CreateKeeps, StartKeeps, RemoveKeeps, StopKeeps, RowKeeps DEF WorkerStep

\* A worker that has no job takes one of a container that no worker is at.
LEMMA TakesFree ==
  ASSUME BaseInv, NEW p \in Procs, NEW w \in Workers, Take(p, w)
  PROVE  \E c \in ContainerIds :
           /\ At(p, w, c)' /\ wk'[p][w].pc = "mark"
           /\ \A q \in Procs, v \in Workers : ~At(q, v, c)
<1> USE DEF BaseInv, TypeInv, TypeOK
<1> DEFINE j == Head(chan[p])
<1>1. chan[p] \in Seq(JobIds) /\ chan[p] # <<>>
  BY DEF Take, ServiceTypeOK
<1>2. 1 \in DOMAIN chan[p] /\ j = chan[p][1] /\ j \in JobIds
  BY <1>1
<1>3. wk'[p][w].pc = "mark" /\ wk'[p][w].job = j /\ UNCHANGED jobs
  BY SetWorkElsewhere DEF Take
<1>4. jobs[j].status = "PENDING"
  BY <1>2 DEF PlacesInv, QueuedPending
<1>5. jobs[j].target \in ContainerIds
  BY <1>2, <1>4 DEF DBTypeOK, JobRow, Unused
<1>6. PICK c \in ContainerIds : c = jobs[j].target
  BY <1>5
<1>7. ASSUME NEW q \in Procs, NEW v \in Workers PROVE ~At(q, v, c)
  <2> SUFFICES ASSUME Working(q, v), TargetOf(q, v) = jobs[j].target
               PROVE  FALSE
    BY <1>6 DEF At
  <2>1. wk[q][v].job \in JobIds /\ jobs[wk[q][v].job].status \in Active
    BY TargetType DEF PlacesInv, WorkedActive
  <2>2. wk[q][v].job # j
    BY <1>2 DEF PlacesInv, QueuedNotWorked
  <2> QED BY <1>2, <1>4, <2>1, <2>2 DEF AloneInv, OneActiveJob, Active, TargetOf
<1> HIDE DEF j
<1>8. At(p, w, c)'
  BY <1>3, <1>6 DEF At, Working, TargetOf
<1> QED BY <1>3, <1>7, <1>8

LEMMA WorkerAgrees ==
  ASSUME BaseInv, FitInv, ~Fault, NamesFit, WorkersAgree, RestAgrees,
         NEW p \in Procs, NEW w \in Workers, WorkerStep(p, w)
  PROVE  WorkersAgree' /\ RestAgrees'
<1>1. OnlyWorker(p, w) /\ [Next]_vars
  BY WorkerAlone DEF BaseInv, Next
<1>2. CASE Take(p, w)
  <2>1. PICK c \in ContainerIds : /\ At(p, w, c)' /\ wk'[p][w].pc = "mark"
                                  /\ \A q \in Procs, v \in Workers : ~At(q, v, c)
    BY <1>2, TakesFree
  <2>2. UNCHANGED <<docker, containers>> /\ ~Working(p, w)
    BY <1>2 DEF Take
  <2>3. RowNames(c) /\ RowRecords(c)
    BY <2>1 DEF RestAgrees, WorkedOn, At
  <2>4. (\A e : Fades(e)) /\ RowNames(c)' /\ RowRecords(c)'
    BY <2>2, <2>3, SameDocker
  <2>5. WorkAgrees(p, w, c)'
    BY <2>1, <2>4 DEF WorkAgrees, Unrecorded
  <2>6. Working(p, w)'
    BY <2>1 DEF At
  <2> QED BY <1>1, <2>1, <2>2, <2>4, <2>5, <2>6, OneMoves DEF BaseInv
<1>3. CASE ~Take(p, w)
  <2>1. Working(p, w)
    BY <1>3, WorkerKeepsJob DEF BaseInv, Finish, Working
  <2>2. PICK c \in ContainerIds : At(p, w, c)
    BY <2>1, TargetType DEF At, BaseInv
  <2>3. WorkAgrees(p, w, c)
    BY <2>2 DEF WorkersAgree
  <2>4. Keeps(p, w, c)
    BY <2>2, <2>3, WorkerKeeps
  <2>5. \A q \in Procs, v \in Workers : <<q, v>> # <<p, w>> => ~At(q, v, c)
    BY <2>2, JobsApart DEF WorkersApart, At, BaseInv
  <2>6. ASSUME Working(p, w)' PROVE At(p, w, c)'
    <3>1. ASSUME Finish(p, w) PROVE FALSE
      <4>1. wk'[p][w] = Free
        BY <3>1, SetWorkElsewhere DEF Finish, BaseInv, TypeInv, TypeOK
      <4> QED BY <2>6, <4>1 DEF Free, Working
    <3>2. wk'[p][w].job = wk[p][w].job
      BY <1>3, <3>1, WorkerKeepsJob DEF BaseInv
    <3>3. TargetOf(p, w)' = TargetOf(p, w)
      BY <2>1, <3>2, TypeStays
    <3> QED BY <2>2, <2>6, <3>3 DEF At, Working, TargetOf
  <2>7. Working(p, w)' <=> wk'[p][w].pc # "take"
    BY DEF Working
  <2> QED BY <1>1, <2>2, <2>4, <2>5, <2>6, <2>7, OneMoves DEF BaseInv, Keeps
<1> QED BY <1>2, <1>3

\* Steps without the workers.
LEMMA RestMoves ==
  ASSUME BaseInv, ~Spend("crashes"), [Next]_vars, ~\E p \in Procs, w \in Workers : WorkerStep(p, w)
  PROVE  /\ UNCHANGED wk
         /\ \A e \in ContainerIds : Fades(e) /\ (Generated(e) => containers'[e] = containers[e])
<1> USE DEF BaseInv, TypeInv, TypeOK
<1>1. CASE Service
  <2>1. UNCHANGED <<wk, docker>>
    BY <1>1 DEF Service, CreateSave, Submit, HandlerStep, CreateSaveJob, Lock, Guard, Abort,
       Commit, Send, SendTimeout
  <2>2. ASSUME NEW h \in Handlers, CreateSave(h), NEW e \in ContainerIds, Generated(e)
        PROVE  containers'[e] = containers[e]
    <3>1. NewContainerId \in ContainerIds /\ ~Generated(NewContainerId)
      BY <2>2 DEF CreateSave, NewContainerId, FreshContainers
    <3>2. PICK u, n : SaveContainer(NewContainerId, u, n)
      BY <2>2 DEF CreateSave
    <3> QED BY <2>2, <3>1, <3>2 DEF SaveContainer, DBTypeOK
  <2>3. ASSUME NEW h \in Handlers, Submit(h) \/ HandlerStep(h) PROVE UNCHANGED containers
    BY <2>3 DEF HandlerStep, Submit, CreateSaveJob, Lock, Guard, Abort, Commit, Send,
       SendTimeout
  <2> QED BY <1>1, <2>1, <2>2, <2>3, SameDocker DEF Service
<1>2. CASE (\E p \in Procs : Recover(p) \/ Boot(p)) \/ Clean \/ UNCHANGED vars
  <2>1. UNCHANGED <<wk, docker, containers>>
    BY <1>2 DEF Recover, Boot, Clean, vars
  <2> QED BY <2>1, SameDocker
<1>3. CASE DockerEnv
  <2>1. UNCHANGED <<wk, containers>>
    BY <1>3 DEF DockerEnv, DockerExit, ManualRemove
  <2>2. PICK d \in DockerIds : InDocker(d) /\ (SetState(d, "exited") \/ SetState(d, "removed"))
    BY <1>3 DEF DockerEnv, DockerExit, ManualRemove, DockerRemove, InDocker
  <2>3. PICK c \in ContainerIds : Has(d, c)
    BY <2>2 DEF DockerTypeOK, DockerRow, DockerUnused, InDocker, Has
  <2>4. /\ \A e \in ContainerIds : e # c => Fades(e)
        /\ \A x \in DockerIds : x # d => docker'[x] = docker[x]
        /\ docker'[d].state # "running"
        /\ \A x \in DockerIds : Has(x, c)' => Has(x, c)
    BY <2>2, <2>3, StateIsSet
  <2>5. Fades(c)
    BY <2>4 DEF Fades
  <2> QED BY <2>1, <2>4, <2>5
<1>4. ~\E p \in Procs : Crash(p)
  BY DEF Crash
<1> QED BY <1>1, <1>2, <1>3, <1>4 DEF Next, Quiescent

LEMMA AgreeNext ==
  ASSUME BaseInv, FitInv, Calm, NamesFit, WorkersAgree, RestAgrees, [Next]_vars
  PROVE  WorkersAgree' /\ RestAgrees'
<1>1. ~Fault /\ ~Spend("crashes")
  BY NoFaults DEF BaseInv
<1>2. CASE \E p \in Procs, w \in Workers : WorkerStep(p, w)
  BY <1>1, <1>2, WorkerAgrees
<1>3. CASE ~\E p \in Procs, w \in Workers : WorkerStep(p, w)
  BY <1>1, <1>3, RestMoves, NoneMoves DEF BaseInv
<1> QED BY <1>2, <1>3

-----------------------------------------------------------------------------
(* What is deleted stays so. *)

LEMMA GoneStays ==
  ASSUME TypeInv, [Next]_vars, NEW c \in ContainerIds, containers[c].status = "GONE"
  PROVE  containers'[c].status = "GONE"
<1> USE DEF TypeInv, TypeOK, DBTypeOK
<1>1. ASSUME NEW p \in Procs, NEW w \in Workers, Rewrites(p, w)
      PROVE  containers'[c] = containers[c]
  BY <1>1 DEF Rewrites, Stored, UpdateContainer, DeleteContainer
<1>2. ASSUME NEW x \in ContainerIds, ~Generated(x),
             \A y \in ContainerIds : y # x => containers'[y] = containers[y]
      PROVE  containers'[c] = containers[c]
  BY <1>2 DEF Generated
<1> QED BY <1>1, <1>2, RowSteps

\* Only a worker that has no error makes a job a success.
LEMMA SuccessMoves ==
  ASSUME TypeInv, [Next]_vars, NEW j \in JobIds, jobs'[j].status = "SUCCESS"
  PROVE  \/ jobs'[j] = jobs[j]
         \/ /\ jobs[j].status # "UNUSED"
            /\ \E p \in Procs, w \in Workers :
                 wk[p][w].pc = "finish" /\ wk[p][w].ok /\ wk[p][w].job = j
<1> USE DEF TypeInv, TypeOK, DBTypeOK
<1>1. ASSUME NEW p \in Procs, NEW w \in Workers, WorkerStep(p, w)
      PROVE  \/ jobs'[j] = jobs[j]
             \/ /\ jobs[j].status # "UNUSED"
                /\ wk[p][w].pc = "finish" /\ wk[p][w].ok /\ wk[p][w].job = j
  <2>1. CASE Mark(p, w)
    <3>1. ASSUME InJobs(wk[p][w].job), UpdateJob(wk[p][w].job, "RUNNING", FALSE)
          PROVE  jobs'[j] = jobs[j]
      <4>1. wk[p][w].job \in JobIds /\ jobs[wk[p][w].job] \in JobRow
        BY <2>1, TargetType DEF Mark, Working
      <4> QED BY <3>1, <4>1 DEF UpdateJob, JobRow
    <3> QED BY <2>1, <3>1 DEF Mark, JobOf
  <2>2. CASE Finish(p, w)
    <3> DEFINE final == IF wk[p][w].ok THEN "SUCCESS" ELSE "FAILED"
    <3>1. ASSUME InJobs(wk[p][w].job), UpdateJob(wk[p][w].job, final, TRUE),
                 jobs'[j] # jobs[j]
          PROVE  jobs[j].status # "UNUSED" /\ wk[p][w].ok /\ wk[p][w].job = j
      <4>1. wk[p][w].job \in JobIds /\ jobs[wk[p][w].job] \in JobRow
        BY <2>2, TargetType DEF Finish, Working
      <4>2. wk[p][w].job = j /\ jobs[j].status # "UNUSED"
        BY <3>1, <4>1 DEF UpdateJob, InJobs
      <4>3. jobs'[j].status = final
        BY <3>1, <4>1, <4>2 DEF UpdateJob, JobRow
      <4> QED BY <4>2, <4>3
    <3> QED BY <2>2, <3>1 DEF Finish, JobOf
  <2>3. CASE ~Mark(p, w) /\ ~Finish(p, w)
    <3>1. UNCHANGED jobs
      BY <1>1, <2>3 DEF WorkerStep, Take, Find, CreateInDocker, StartCreated, StartExisting,
         StartInDocker, Cleanup, SyncState, StopInDocker, UpdateRow, RemoveInDocker, DeleteRow
    <3> QED BY <3>1
  <2> QED BY <2>1, <2>2, <2>3
<1>2. CASE Service
  <2>1. ASSUME NEW k, NEW t, NEW c, NEW u, SaveJob(k, t, c, u) PROVE jobs'[j] = jobs[j]
    BY <2>1 DEF SaveJob
  <2> QED BY <1>2, <2>1 DEF Service, CreateSave, Submit, HandlerStep, CreateSaveJob, Lock, Guard,
             Abort, Commit, Send, SendTimeout
<1>3. CASE (\E p \in Procs : Recover(p) \/ Boot(p) \/ Crash(p)) \/ Clean
  <2>1. UNCHANGED jobs \/ MarkRunningAsFailed \/ \E old \in SUBSET Expirable : DeleteExpired(old)
    BY <1>3 DEF Recover, Boot, Crash, Clean
  <2>2. jobs[j] \in JobRow \cup {Unused}
    OBVIOUS
  <2>3. ASSUME MarkRunningAsFailed PROVE jobs'[j] = jobs[j]
    <3>1. jobs'[j] = IF jobs[j].status = "RUNNING" THEN [jobs[j] EXCEPT !.status = "FAILED"]
                     ELSE jobs[j]
      BY <2>3 DEF MarkRunningAsFailed
    <3> QED BY <2>2, <3>1 DEF JobRow, Unused
  <2>4. ASSUME NEW old \in SUBSET Expirable, DeleteExpired(old) PROVE jobs'[j] = jobs[j]
    <3>1. jobs'[j] = IF j \in old THEN [jobs[j] EXCEPT !.status = "GONE"] ELSE jobs[j]
      BY <2>4 DEF DeleteExpired
    <3>2. j \in old => jobs[j].status \in Terminal
      BY DEF Expirable
    <3> QED BY <2>2, <3>1, <3>2 DEF JobRow, Unused, Terminal
  <2> QED BY <2>1, <2>3, <2>4
<1>4. CASE DockerEnv \/ UNCHANGED vars
  BY <1>4 DEF DockerEnv, DockerExit, ManualRemove, serviceVars, vars
<1> QED BY <1>1, <1>2, <1>3, <1>4 DEF Next, Quiescent

LEMMA GoneNext ==
  ASSUME BaseInv, WorkersAgree, DeletedGone, [Next]_vars
  PROVE  DeletedGone'
<1> USE DEF BaseInv
<1> SUFFICES ASSUME NEW j \in JobIds, jobs'[j].status = "SUCCESS", jobs'[j].type = "delete",
                    NEW c, jobs'[j].target = c
             PROVE  containers'[c].status = "GONE"
  BY DEF DeletedGone
<1>1. c \in ContainerIds /\ containers[c].status = "GONE"
  <2>1. CASE jobs'[j] = jobs[j]
    BY <2>1 DEF DeletedGone, TypeInv, TypeOK, DBTypeOK, JobRow, Unused
  <2>2. ASSUME jobs[j].status # "UNUSED", NEW p \in Procs, NEW w \in Workers,
               wk[p][w].pc = "finish", wk[p][w].ok, wk[p][w].job = j
        PROVE  c \in ContainerIds /\ containers[c].status = "GONE"
    <3>1. TypeOf(p, w) = "delete" /\ TargetOf(p, w) = c
      BY <2>2, JobsKeep DEF TypeOf, TargetOf
    <3>2. c \in ContainerIds /\ At(p, w, c)
      BY <2>2, <3>1, TargetType DEF At, Working
    <3>3. WorkAgrees(p, w, c)
      BY <3>2 DEF WorkersAgree
    <3> QED BY <2>2, <3>1, <3>2, <3>3 DEF WorkAgrees
  <2> QED BY <2>1, <2>2, SuccessMoves
<1> QED BY <1>1, GoneStays

-----------------------------------------------------------------------------
(* The invariant, and what it says. *)

LEMMA AgreeInit == Init => AgreeInv
BY DEF Init, DBInit, DockerInit, WorkerInit, AgreeInv, NamesFit, WorkersAgree, RestAgrees, DeletedGone,
   At, Working, Generated, Has, InDocker, RowNames, RowRecords, Free, Unused, DockerUnused

LEMMA AgreeInvNext ==
  ASSUME Calm
  PROVE  BaseInv /\ FitInv /\ AgreeInv /\ [Next]_vars => AgreeInv'
<1> SUFFICES ASSUME BaseInv, FitInv, AgreeInv, [Next]_vars PROVE AgreeInv'
  OBVIOUS
<1>1. ~Spend("crashes")
  BY NoFaults DEF BaseInv
<1>2. ClaimsInv
  BY DEF BaseInv, PlacesInv, ClaimsInv
<1> QED BY <1>1, <1>2, AgreeNext, NamesNext, GoneNext DEF AgreeInv, BaseInv

LEMMA AgreeInvariant ==
  ASSUME Sole, ~EarlyAccess, Calm
  PROVE  Spec => [](BaseInv /\ FitInv /\ AgreeInv)
<1>1. Spec => [](BaseInv /\ FitInv)
  BY FitInvariant
<1> QED BY <1>1, AgreeInit, AgreeInvNext, PTL DEF Spec

\* Nobody's work leaves what Docker has of a container in the row's name.
LEMMA SettledAgrees ==
  ASSUME DockerTypeOK, AgreeInv, NEW d \in DockerIds, InDocker(d), ~WorkedOn(docker[d].name)
  PROVE  /\ Stored(docker[d].name) /\ containers[docker[d].name].docker = d
         /\ docker[d].state = "running" => containers[docker[d].name].status = "Running"
<1>1. docker[d].name \in ContainerIds
  BY DEF DockerTypeOK, DockerRow, DockerUnused, InDocker
<1> QED BY <1>1 DEF AgreeInv, RestAgrees, RowNames, RowRecords, Has

\* No zombie without failures: what Docker has is named by its row, or a worker
\* is making or removing it, whatever commands end and operators remove.
THEOREM NoZombie ==
  ASSUME Sole, ~EarlyAccess, Calm
  PROVE  Spec => []NoOrphanDocker
<1>1. BaseInv /\ AgreeInv => NoOrphanDocker
  BY SettledAgrees DEF NoOrphanDocker, BaseInv, TypeInv, TypeOK, InDocker
<1> QED BY <1>1, AgreeInvariant, PTL

\* Nothing runs behind the table's back without failures.
THEOREM WhatRunsIsRecorded ==
  ASSUME Sole, ~EarlyAccess, Calm
  PROVE  Spec => []RunningIsRecorded
<1>1. BaseInv /\ AgreeInv => RunningIsRecorded
  BY SettledAgrees DEF RunningIsRecorded, BaseInv, TypeInv, TypeOK, InDocker
<1> QED BY <1>1, AgreeInvariant, PTL

\* A Delete that reports success has removed the row and the Docker container,
\* and nothing brings them back.
THEOREM DeletesAreDone ==
  ASSUME Sole, ~EarlyAccess, Calm
  PROVE  Spec => []DeleteSucceedsFully
<1>1. BaseInv /\ FitInv /\ AgreeInv => DeleteSucceedsFully
  <2> SUFFICES ASSUME BaseInv, FitInv, AgreeInv, NEW j \in JobIds,
                      jobs[j].status = "SUCCESS", jobs[j].type = "delete"
               PROVE  ~Stored(jobs[j].target) /\ ~NameInUse(jobs[j].target)
    BY DEF DeleteSucceedsFully
  <2> DEFINE c == jobs[j].target
  <2>1. c \in ContainerIds
    BY DEF BaseInv, TypeInv, TypeOK, DBTypeOK, JobRow, Unused
  <2>2. containers[c].status = "GONE"
    BY DEF AgreeInv, DeletedGone
  <2> HIDE DEF c
  <2>3. ASSUME NEW d \in DockerIds, Has(d, c) PROVE FALSE
    <3>1. CASE ~WorkedOn(c)
      BY <2>1, <2>2, <2>3, <3>1 DEF AgreeInv, RestAgrees, RowNames, Stored
    <3>2. ASSUME NEW p \in Procs, NEW w \in Workers, At(p, w, c) PROVE FALSE
      <4>1. /\ FitsAt(wk[p][w].pc, TypeOf(p, w), wk[p][w].status)
            /\ TypeOf(p, w) = "delete"
        BY <2>1, <2>2, <3>2, AtFits DEF StartsFrom, CJ!From, JobTypes
      <4>2. wk[p][w].pc \notin Unrecorded
        BY <4>1 DEF FitsAt, Unrecorded
      <4>3. WorkAgrees(p, w, c)
        BY <2>1, <3>2 DEF AgreeInv, WorkersAgree
      <4> QED BY <2>2, <2>3, <4>2, <4>3 DEF WorkAgrees, RowNames, Stored
    <3> QED BY <3>1, <3>2 DEF WorkedOn, At
  <2> QED BY <2>2, <2>3 DEF Stored, NameInUse, Has, c, InDocker
<1> QED BY <1>1, AgreeInvariant, PTL
=============================================================================
