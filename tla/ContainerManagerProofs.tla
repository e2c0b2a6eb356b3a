----------------------- MODULE ContainerManagerProofs -----------------------
(***************************************************************************)
(* Safety of ContainerManager for any number of replicas, workers, clients,*)
(* containers and jobs, and any number of faults, crashes and removals:    *)
(* types first; then the row lock excludes, a job belongs to its           *)
(* container's owner, and Stop always has a Docker id.  Each invariant is  *)
(* inductive with the typing invariant; the lemmas before them say what    *)
(* one step may do to the container rows, the job rows, the requests and   *)
(* the workers.                                                            *)
(***************************************************************************)
EXTENDS ManagerProperties, FiniteSetTheorems, TLAPS

\* What memory holds of jobs are rows of the table: a job reaches a channel and
\* a worker only after its INSERT, so its target is a container id.
JobsKnown ==
  /\ \A h \in Handlers : req[h].pc = "send" => jobs[req[h].job].status # "UNUSED"
  /\ \A p \in Procs : \A i \in DOMAIN chan[p] : jobs[chan[p][i]].status # "UNUSED"
  /\ \A p \in Procs, w \in Workers :
       Working(p, w) => jobs[wk[p][w].job].status # "UNUSED"

TypeInv == TypeOK /\ JobsKnown

-----------------------------------------------------------------------------
(* The parts of steps that many actions share. *)

LEMMA SpendType ==
  ASSUME spent \in [Budgets -> Nat], NEW b \in Budgets, Spend(b)
  PROVE  spent' \in [Budgets -> Nat]
BY DEF Spend

LEMMA CallType ==
  ASSUME spent \in [Budgets -> Nat], NoFault \/ Fault
  PROVE  spent' \in [Budgets -> Nat]
BY DEF NoFault, Fault, Spend, Budgets

LEMMA RequestFields ==
  ASSUME ServiceTypeOK, NEW h \in Handlers, req[h].pc # "idle"
  PROVE  req[h] \in Request
BY DEF ServiceTypeOK, Idle

LEMMA WorkFields ==
  ASSUME WorkerTypeOK, NEW p \in Procs, NEW w \in Workers, Working(p, w)
  PROVE  wk[p][w] \in Work
BY DEF WorkerTypeOK, Working, Free

LEMMA SetWorkType ==
  ASSUME WorkerTypeOK, NEW p \in Procs, NEW w \in Workers, NEW r \in Work \cup {Free},
         SetWork(p, w, r)
  PROVE  /\ WorkerTypeOK'
         /\ wk'[p][w] = r
         /\ \A q \in Procs, v \in Workers : <<q, v>> # <<p, w>> => wk'[q][v] = wk[q][v]
BY DEF WorkerTypeOK, SetWork

LEMMA UnlockType ==
  ASSUME ServiceTypeOK, NEW h \in Handlers, req[h].pc # "idle", Reply(h)
  PROVE  mutex' \in [Procs -> [ContainerIds -> Handlers \cup {Nobody}]]
<1>1. req[h] \in Request
  BY RequestFields
<1>2. CASE req[h].op = "create"
  BY <1>2 DEF ServiceTypeOK, Reply, Unlock
<1>3. CASE req[h].op # "create"
  <2>1. mutex' = [mutex EXCEPT ![req[h].proc] = [mutex[req[h].proc] EXCEPT ![req[h].ctr] = Nobody]]
    BY <1>3 DEF Reply, Unlock
  <2>2. req[h].proc \in Procs /\ req[h].ctr \in ContainerIds
    BY <1>1 DEF Request
  <2>3. mutex[req[h].proc] \in [ContainerIds -> Handlers \cup {Nobody}]
    BY <2>2 DEF ServiceTypeOK
  <2> QED BY <2>1, <2>2, <2>3 DEF ServiceTypeOK
<1> QED BY <1>2, <1>3

LEMMA SaveJobType ==
  ASSUME jobs \in [JobIds -> JobRow \cup {Unused}],
         NEW j \in JobIds, NEW t \in JobTypes, NEW c \in ContainerIds, NEW u \in Users,
         SaveJob(j, t, c, u)
  PROVE  /\ jobs' \in [JobIds -> JobRow \cup {Unused}]
         /\ jobs'[j].status = "PENDING"
         /\ \A k \in JobIds : k # j => jobs'[k] = jobs[k]
BY DEF SaveJob, JobRow, Active

\* JobsKnown survives a step that forgets no row and brings only known jobs to
\* new places in memory.
LEMMA JobsKnownStep ==
  ASSUME TypeInv,
         \A k \in JobIds : jobs[k].status # "UNUSED" => jobs'[k].status # "UNUSED",
         \A h \in Handlers :
           \/ req'[h] = req[h]
           \/ req'[h].pc = "send" => jobs'[req'[h].job].status # "UNUSED",
         \A p \in Procs :
           \/ chan'[p] = chan[p]
           \/ \A i \in DOMAIN chan'[p] : jobs'[chan'[p][i]].status # "UNUSED",
         \A p \in Procs, w \in Workers :
           wk'[p][w].pc # "take" =>
             \/ wk[p][w].pc # "take" /\ wk'[p][w].job = wk[p][w].job
             \/ jobs'[wk'[p][w].job].status # "UNUSED"
  PROVE  JobsKnown'
<1> USE DEF TypeInv, TypeOK, JobsKnown
<1>1. ASSUME NEW h \in Handlers, req'[h].pc = "send"
      PROVE  jobs'[req'[h].job].status # "UNUSED"
  <2>1. CASE req'[h] = req[h]
    <3>1. req[h] \in Request
      BY <1>1, <2>1, RequestFields
    <3> QED BY <1>1, <2>1, <3>1 DEF Request
  <2> QED BY <1>1, <2>1
<1>2. ASSUME NEW p \in Procs, NEW i \in DOMAIN chan'[p]
      PROVE  jobs'[chan'[p][i]].status # "UNUSED"
  <2>1. CASE chan'[p] = chan[p]
    <3>1. chan[p] \in Seq(JobIds)
      BY DEF ServiceTypeOK
    <3>2. chan[p][i] \in JobIds
      BY <1>2, <2>1, <3>1
    <3> QED BY <1>2, <2>1, <3>2
  <2> QED BY <1>2, <2>1
<1>3. ASSUME NEW p \in Procs, NEW w \in Workers, wk'[p][w].pc # "take"
      PROVE  jobs'[wk'[p][w].job].status # "UNUSED"
  <2>1. CASE wk[p][w].pc # "take" /\ wk'[p][w].job = wk[p][w].job
    <3>1. wk[p][w] \in Work
      BY <2>1, WorkFields DEF Working
    <3> QED BY <2>1, <3>1 DEF Work, Working
  <2> QED BY <1>3, <2>1
<1> QED BY <1>1, <1>2, <1>3 DEF Working

-----------------------------------------------------------------------------
LEMMA TypeInit == Init => TypeInv
<1> SUFFICES ASSUME Init PROVE TypeInv
  OBVIOUS
<1> USE DEF Init
<1>1. spent \in [Budgets -> Nat]
  BY DEF EnvInit
<1>2. DBTypeOK
  BY DEF DBInit, DBTypeOK
<1>3. DockerTypeOK
  BY DEF DockerInit, DockerTypeOK
<1>4. ServiceTypeOK
  BY DEF ServiceInit, ServiceTypeOK
<1>5. WorkerTypeOK
  BY DEF WorkerInit, WorkerTypeOK
<1>6. JobsKnown
  BY DEF JobsKnown, ServiceInit, WorkerInit, Working, Idle, Free
<1> QED BY <1>1, <1>2, <1>3, <1>4, <1>5, <1>6 DEF TypeInv, TypeOK

-----------------------------------------------------------------------------
(* The requests. *)

\* A step that ends the request of h, changes at most spent and row locks, and
\* may insert the job of h.
LEMMA ReplyStepType ==
  ASSUME TypeInv, NEW h \in Handlers, req[h].pc # "idle", Reply(h),
         spent' \in [Budgets -> Nat], DBTypeOK',
         \A k \in JobIds : jobs[k].status # "UNUSED" => jobs'[k].status # "UNUSED",
         UNCHANGED <<docker, phase, wk>>,
         chan' \in [Procs -> Seq(JobIds)],
         \A p \in Procs :
           \/ chan'[p] = chan[p]
           \/ \A i \in DOMAIN chan'[p] : jobs'[chan'[p][i]].status # "UNUSED"
  PROVE  TypeInv'
<1> USE DEF TypeInv, TypeOK
<1>1. req[h] \in Request
  BY RequestFields
<1>2. /\ req' \in [Handlers -> Request \cup {Idle}]
      /\ \A k \in Handlers : req'[k] = req[k] \/ req'[k].pc # "send"
  BY DEF ServiceTypeOK, Reply, Idle
<1>3. mutex' \in [Procs -> [ContainerIds -> Handlers \cup {Nobody}]]
  BY UnlockType
<1>4. ServiceTypeOK'
  BY <1>2, <1>3 DEF ServiceTypeOK
<1>5. JobsKnown'
  BY <1>2, JobsKnownStep
<1> QED BY <1>4, <1>5 DEF DockerTypeOK, WorkerTypeOK

LEMMA CreateSaveType ==
  ASSUME TypeInv, NEW h \in Handlers, CreateSave(h), UNCHANGED wk
  PROVE  TypeInv'
<1> USE DEF TypeInv, TypeOK
<1> DEFINE c == NewContainerId
           j == NewJobId
<1>1. PICK p \in Procs, u \in Users, n \in Names :
        /\ SaveContainer(c, u, n)
        /\ \/ /\ NoFault
              /\ req' = [req EXCEPT ![h] =
                   [pc |-> "savejob", proc |-> p, op |-> "create", user |-> u,
                    ctr |-> c, job |-> j]]
           \/ Fault /\ UNCHANGED req
  BY DEF CreateSave
<1>2. c \in ContainerIds
  BY DEF CreateSave, NewContainerId, FreshContainers
<1>3. j \in JobIds
  BY DEF CreateSave, NewJobId, FreshJobs
<1>4. spent' \in [Budgets -> Nat]
  BY <1>1, CallType
<1>5. containers' \in [ContainerIds -> ContainerRow \cup {Unused}]
  BY <1>1, <1>2 DEF SaveContainer, DBTypeOK, ContainerRow
<1>6. DBTypeOK'
  BY <1>5 DEF DBTypeOK, CreateSave
<1>7. req' \in [Handlers -> Request \cup {Idle}] /\ \A k \in Handlers : req'[k].pc = "send" => req'[k] = req[k]
  BY <1>1, <1>2, <1>3 DEF ServiceTypeOK, Request, HandlerPC, JobTypes
<1>8. ServiceTypeOK'
  BY <1>7 DEF ServiceTypeOK, CreateSave
<1>9. JobsKnown'
  BY <1>7 DEF JobsKnown, CreateSave, Working
<1>10. DockerTypeOK' /\ WorkerTypeOK'
  BY DEF DockerTypeOK, WorkerTypeOK, CreateSave
<1> QED BY <1>4, <1>6, <1>8, <1>9, <1>10

LEMMA CreateSaveJobType ==
  ASSUME TypeInv, NEW h \in Handlers, CreateSaveJob(h), UNCHANGED wk
  PROVE  TypeInv'
<1> USE DEF TypeInv, TypeOK
<1> DEFINE r == req[h]
<1>1. r \in Request /\ r.pc # "idle"
  BY RequestFields DEF CreateSaveJob
<1>2. r.job \in JobIds /\ r.ctr \in ContainerIds /\ r.user \in Users
  BY <1>1 DEF Request
<1>3. spent' \in [Budgets -> Nat]
  BY CallType DEF CreateSaveJob
<1>4. /\ jobs' \in [JobIds -> JobRow \cup {Unused}]
      /\ \A k \in JobIds : jobs[k].status # "UNUSED" => jobs'[k].status # "UNUSED"
  BY <1>2, SaveJobType DEF CreateSaveJob, JobTypes, DBTypeOK
<1>5. CASE SaveJob(r.job, "create", r.ctr, r.user) /\ Goto(h, "send") /\ UNCHANGED mutex
  <2>1. /\ req' \in [Handlers -> Request \cup {Idle}]
        /\ req'[h].pc = "send" /\ req'[h].job = r.job
        /\ \A k \in Handlers : k # h => req'[k] = req[k]
    BY <1>1, <1>5 DEF Goto, ServiceTypeOK, Request, HandlerPC
  <2>2. jobs'[r.job].status # "UNUSED"
    BY <1>2, <1>5, SaveJobType DEF JobTypes, DBTypeOK
  <2>3. ServiceTypeOK'
    BY <1>5, <2>1 DEF ServiceTypeOK, CreateSaveJob
  <2>4. JobsKnown'
    BY <1>4, <2>1, <2>2, JobsKnownStep DEF CreateSaveJob
  <2> QED BY <1>3, <1>4, <2>3, <2>4 DEF DBTypeOK, DockerTypeOK, WorkerTypeOK, CreateSaveJob
<1>6. CASE Reply(h)
  <2>1. DBTypeOK'
    BY <1>4 DEF DBTypeOK, CreateSaveJob
  <2>2. UNCHANGED <<docker, phase, chan>>
    BY DEF CreateSaveJob
  <2> QED BY <1>1, <1>3, <1>4, <1>6, <2>1, <2>2, ReplyStepType DEF ServiceTypeOK
<1> QED BY <1>5, <1>6 DEF CreateSaveJob

LEMMA SubmitType ==
  ASSUME TypeInv, NEW h \in Handlers, Submit(h), UNCHANGED wk
  PROVE  TypeInv'
<1> USE DEF TypeInv, TypeOK
<1>1. PICK p \in Procs, op \in Guarded, u \in Users, c \in ContainerIds :
        req' = [req EXCEPT ![h] = [pc |-> "lock", proc |-> p, op |-> op,
                                   user |-> u, ctr |-> c, job |-> NewJobId]]
  BY DEF Submit
<1>2. NewJobId \in JobIds
  BY DEF Submit, NewJobId, FreshJobs
<1>3. /\ req' \in [Handlers -> Request \cup {Idle}]
      /\ \A k \in Handlers : req'[k] = req[k] \/ req'[k].pc # "send"
  BY <1>1, <1>2 DEF ServiceTypeOK, Request, HandlerPC, Guarded, JobTypes
<1>4. ServiceTypeOK'
  BY <1>3 DEF ServiceTypeOK, Submit
<1>5. JobsKnown'
  BY <1>3, JobsKnownStep DEF Submit
<1> QED BY <1>4, <1>5 DEF DBTypeOK, DockerTypeOK, WorkerTypeOK, Submit

LEMMA LockType ==
  ASSUME TypeInv, NEW h \in Handlers, Lock(h), UNCHANGED wk
  PROVE  TypeInv'
<1> USE DEF TypeInv, TypeOK
<1>1. req[h] \in Request
  BY RequestFields DEF Lock
<1>2. /\ req' \in [Handlers -> Request \cup {Idle}]
      /\ \A k \in Handlers : req'[k] = req[k] \/ req'[k].pc # "send"
  BY <1>1 DEF ServiceTypeOK, Request, HandlerPC, Lock, Goto
<1>3. mutex' \in [Procs -> [ContainerIds -> Handlers \cup {Nobody}]]
  <2>1. req[h].proc \in Procs /\ req[h].ctr \in ContainerIds
    BY <1>1 DEF Request
  <2> QED BY <2>1 DEF Lock, ServiceTypeOK
<1>4. ServiceTypeOK'
  BY <1>2, <1>3 DEF ServiceTypeOK, Lock
<1>5. JobsKnown'
  BY <1>2, JobsKnownStep DEF Lock
<1> QED BY <1>4, <1>5 DEF DBTypeOK, DockerTypeOK, WorkerTypeOK, Lock

LEMMA GuardType ==
  ASSUME TypeInv, NEW h \in Handlers, Guard(h), UNCHANGED wk
  PROVE  TypeInv'
<1> USE DEF TypeInv, TypeOK
<1>1. req[h] \in Request /\ req[h].pc # "idle"
  BY RequestFields DEF Guard
<1>2. spent' \in [Budgets -> Nat]
  BY CallType DEF Guard
<1>3. CASE /\ rowLock' = [rowLock EXCEPT ![req[h].ctr] = h]
           /\ Goto(h, "commit")
           /\ UNCHANGED mutex
  <2>1. /\ req' \in [Handlers -> Request \cup {Idle}]
        /\ \A k \in Handlers : req'[k] = req[k] \/ req'[k].pc # "send"
    BY <1>1, <1>3 DEF ServiceTypeOK, Request, HandlerPC, Goto
  <2>2. DBTypeOK'
    BY <1>1, <1>3 DEF DBTypeOK, Request, Guard
  <2>3. ServiceTypeOK'
    BY <1>3, <2>1 DEF ServiceTypeOK, Guard
  <2>4. JobsKnown'
    BY <2>1, JobsKnownStep DEF Guard
  <2> QED BY <1>2, <2>2, <2>3, <2>4 DEF DockerTypeOK, WorkerTypeOK, Guard
<1>4. CASE UNCHANGED rowLock /\ Reply(h)
  <2>1. DBTypeOK'
    BY <1>4 DEF DBTypeOK, Guard
  <2>2. UNCHANGED <<jobs, docker, phase, chan>>
    BY DEF Guard
  <2> QED BY <1>1, <1>2, <1>4, <2>1, <2>2, ReplyStepType DEF ServiceTypeOK
<1>5. CASE Goto(h, "aborted") /\ UNCHANGED <<rowLock, mutex>>
  <2>1. /\ req' \in [Handlers -> Request \cup {Idle}]
        /\ \A k \in Handlers : req'[k] = req[k] \/ req'[k].pc # "send"
    BY <1>1, <1>5 DEF ServiceTypeOK, Request, HandlerPC, Goto
  <2>2. DBTypeOK' /\ ServiceTypeOK'
    BY <1>5, <2>1 DEF DBTypeOK, ServiceTypeOK, Guard
  <2>3. JobsKnown'
    BY <2>1, JobsKnownStep DEF Guard
  <2> QED BY <1>2, <2>2, <2>3 DEF DockerTypeOK, WorkerTypeOK, Guard
<1> QED BY <1>3, <1>4, <1>5 DEF Guard

LEMMA AbortType ==
  ASSUME TypeInv, NEW h \in Handlers, Abort(h), UNCHANGED wk
  PROVE  TypeInv'
<1> USE DEF TypeInv, TypeOK
<1>1. req[h] \in Request /\ req[h].pc # "idle"
  BY RequestFields DEF Abort
<1>2. DBTypeOK' /\ spent' \in [Budgets -> Nat]
  BY DEF DBTypeOK, Abort
<1> QED BY <1>1, <1>2, ReplyStepType DEF Abort, ServiceTypeOK

LEMMA CommitType ==
  ASSUME TypeInv, NEW h \in Handlers, Commit(h), UNCHANGED wk
  PROVE  TypeInv'
<1> USE DEF TypeInv, TypeOK
<1> DEFINE r == req[h]
<1>1. r \in Request /\ r.pc # "idle"
  BY RequestFields DEF Commit
<1>2. /\ r.job \in JobIds /\ r.op \in JobTypes
      /\ r.ctr \in ContainerIds /\ r.user \in Users
  BY <1>1 DEF Request
<1>3. spent' \in [Budgets -> Nat]
  BY CallType DEF Commit
<1>4. /\ jobs' \in [JobIds -> JobRow \cup {Unused}]
      /\ \A k \in JobIds : jobs[k].status # "UNUSED" => jobs'[k].status # "UNUSED"
  BY <1>2, SaveJobType DEF Commit, DBTypeOK
<1>5. DBTypeOK'
  BY <1>2, <1>4 DEF DBTypeOK, Commit
<1>6. CASE SaveJob(r.job, r.op, r.ctr, r.user) /\ Goto(h, "send") /\ UNCHANGED mutex
  <2>1. /\ req' \in [Handlers -> Request \cup {Idle}]
        /\ req'[h].pc = "send" /\ req'[h].job = r.job
        /\ \A k \in Handlers : k # h => req'[k] = req[k]
    BY <1>1, <1>6 DEF Goto, ServiceTypeOK, Request, HandlerPC
  <2>2. jobs'[r.job].status # "UNUSED"
    BY <1>2, <1>6, SaveJobType DEF DBTypeOK
  <2>3. ServiceTypeOK'
    BY <1>6, <2>1 DEF ServiceTypeOK, Commit
  <2>4. JobsKnown'
    BY <1>4, <2>1, <2>2, JobsKnownStep DEF Commit
  <2> QED BY <1>3, <1>5, <2>3, <2>4 DEF DockerTypeOK, WorkerTypeOK, Commit
<1>7. CASE Reply(h)
  <2>1. UNCHANGED <<docker, phase, chan>>
    BY DEF Commit
  <2> QED BY <1>1, <1>3, <1>4, <1>5, <1>7, <2>1, ReplyStepType DEF ServiceTypeOK
<1> QED BY <1>6, <1>7 DEF Commit

LEMMA SendType ==
  ASSUME TypeInv, NEW h \in Handlers, Send(h), UNCHANGED wk
  PROVE  TypeInv'
<1> USE DEF TypeInv, TypeOK
<1> DEFINE q == req[h].proc
           j == req[h].job
<1>1. req[h] \in Request /\ req[h].pc # "idle"
  BY RequestFields DEF Send
<1>2. q \in Procs /\ j \in JobIds
  BY <1>1 DEF Request
<1>3. chan' = [chan EXCEPT ![q] = Append(chan[q], j)]
  BY DEF Send
<1>4. chan[q] \in Seq(JobIds)
  BY <1>2 DEF ServiceTypeOK
<1>5. chan' \in [Procs -> Seq(JobIds)]
  BY <1>2, <1>3, <1>4 DEF ServiceTypeOK
<1>6. jobs[j].status # "UNUSED" /\ \A i \in DOMAIN chan[q] : jobs[chan[q][i]].status # "UNUSED"
  BY <1>2 DEF JobsKnown, Send
<1>7. \A i \in DOMAIN chan'[q] : jobs[chan'[q][i]].status # "UNUSED"
  <2>1. chan'[q] = Append(chan[q], j)
    BY <1>2, <1>3 DEF ServiceTypeOK
  <2>2. ASSUME NEW i \in DOMAIN chan'[q]
        PROVE  (i \in DOMAIN chan[q] /\ chan'[q][i] = chan[q][i]) \/ chan'[q][i] = j
    BY <1>2, <1>4, <2>1, <2>2
  <2> QED BY <1>6, <2>2
<1>8. \A p \in Procs : \/ chan'[p] = chan[p]
                       \/ \A i \in DOMAIN chan'[p] : jobs'[chan'[p][i]].status # "UNUSED"
  BY <1>3, <1>7 DEF Send, ServiceTypeOK
<1>9. DBTypeOK' /\ spent' \in [Budgets -> Nat]
  BY DEF DBTypeOK, Send
<1> QED BY <1>1, <1>5, <1>8, <1>9, ReplyStepType DEF Send

LEMMA SendTimeoutType ==
  ASSUME TypeInv, NEW h \in Handlers, SendTimeout(h), UNCHANGED wk
  PROVE  TypeInv'
<1> USE DEF TypeInv, TypeOK
<1>1. spent' \in [Budgets -> Nat]
  BY CallType DEF SendTimeout
<1>2. DBTypeOK'
  BY DEF DBTypeOK, SendTimeout
<1> QED BY <1>1, <1>2, ReplyStepType DEF SendTimeout, ServiceTypeOK

LEMMA ServiceType == TypeInv /\ Service => TypeInv'
<1> SUFFICES ASSUME TypeInv, NEW h \in Handlers, UNCHANGED wk,
                    CreateSave(h) \/ Submit(h) \/ HandlerStep(h)
             PROVE  TypeInv'
  BY DEF Service
<1> QED BY CreateSaveType, CreateSaveJobType, SubmitType, LockType, GuardType, AbortType,
           CommitType, SendType, SendTimeoutType DEF HandlerStep

-----------------------------------------------------------------------------
(* The workers. *)

\* The worker goes on with its job or drops it, and no other worker is touched.
Moves(p, w) ==
  /\ WorkerTypeOK'
  /\ wk'[p][w].pc = "take" \/ wk'[p][w].job = wk[p][w].job
  /\ \A q \in Procs, v \in Workers : <<q, v>> # <<p, w>> => wk'[q][v] = wk[q][v]

LEMMA SetWorkMoves ==
  ASSUME WorkerTypeOK, NEW p \in Procs, NEW w \in Workers, NEW r, SetWork(p, w, r),
         r = Free \/ (r \in Work /\ r.job = wk[p][w].job)
  PROVE  Moves(p, w)
BY SetWorkType DEF Moves, Free

LEMMA StepMoves ==
  ASSUME WorkerTypeOK, NEW p \in Procs, NEW w \in Workers, Working(p, w),
         NEW pc \in WorkerPC, Step(p, w, pc)
  PROVE  Moves(p, w)
<1>1. wk[p][w] \in Work
  BY WorkFields
<1>2. [wk[p][w] EXCEPT !.pc = pc] \in Work
  BY <1>1 DEF Work
<1> QED BY <1>1, <1>2, SetWorkMoves DEF Step, Work

LEMMA EndMoves ==
  ASSUME WorkerTypeOK, NEW p \in Procs, NEW w \in Workers, Working(p, w),
         Succeed(p, w) \/ Fail(p, w)
  PROVE  Moves(p, w)
<1>1. wk[p][w] \in Work
  BY WorkFields
<1>2. \A b \in BOOLEAN : [wk[p][w] EXCEPT !.pc = "finish", !.ok = b] \in Work
  BY <1>1 DEF Work, WorkerPC
<1> QED BY <1>1, <1>2, SetWorkMoves DEF Succeed, Fail, Work

LEMMA RetryMoves ==
  ASSUME WorkerTypeOK, NEW p \in Procs, NEW w \in Workers, Working(p, w), Retry(p, w)
  PROVE  Moves(p, w)
<1>1. wk[p][w] \in Work
  BY WorkFields
<1>2. CASE wk[p][w].tries < UpdateRetries
  <2>1. wk[p][w].tries + 1 \in 1 .. UpdateRetries
    BY <1>1, <1>2 DEF Work, UpdateRetries
  <2>2. [wk[p][w] EXCEPT !.tries = wk[p][w].tries + 1] \in Work
    BY <1>1, <2>1 DEF Work
  <2> QED BY <1>1, <1>2, <2>2, SetWorkMoves DEF Retry, Work
<1>3. CASE ~(wk[p][w].tries < UpdateRetries)
  BY <1>3, EndMoves DEF Retry
<1> QED BY <1>2, <1>3

\* A step of a worker that moves, whatever it does to the tables and to Docker.
LEMMA MoveType ==
  ASSUME TypeInv, NEW p \in Procs, NEW w \in Workers, Working(p, w), Moves(p, w),
         spent' \in [Budgets -> Nat], DBTypeOK', DockerTypeOK',
         \A k \in JobIds : jobs[k].status # "UNUSED" => jobs'[k].status # "UNUSED",
         UNCHANGED <<phase, req, mutex, chan>>
  PROVE  TypeInv'
<1> USE DEF TypeInv, TypeOK
<1>1. JobsKnown'
  BY JobsKnownStep DEF Moves, Working
<1> QED BY <1>1 DEF ServiceTypeOK, Moves

\* The job of a worker is a row, so its target is a container id.
LEMMA TargetType ==
  ASSUME TypeInv, NEW p \in Procs, NEW w \in Workers, Working(p, w)
  PROVE  /\ wk[p][w] \in Work
         /\ wk[p][w].job \in JobIds
         /\ jobs[wk[p][w].job] \in JobRow
         /\ TargetOf(p, w) \in ContainerIds
<1> USE DEF TypeInv, TypeOK
<1>1. wk[p][w] \in Work /\ wk[p][w].job \in JobIds
  BY WorkFields DEF Work
<1>2. jobs[wk[p][w].job] \in JobRow
  BY <1>1 DEF JobsKnown, DBTypeOK, Unused
<1> QED BY <1>1, <1>2 DEF JobRow, TargetOf

LEMMA TakeType ==
  ASSUME TypeInv, NEW p \in Procs, NEW w \in Workers, Take(p, w)
  PROVE  TypeInv'
<1> USE DEF TypeInv, TypeOK
<1> DEFINE s == chan[p]
           r == [pc |-> "mark", job |-> Head(s), docker |-> NoDocker,
                 status |-> "Created", tries |-> 1, ok |-> FALSE]
<1>1. s \in Seq(JobIds) /\ s # <<>>
  BY DEF ServiceTypeOK, Take
<1>2. /\ Head(s) \in JobIds /\ Head(s) = s[1] /\ 1 \in DOMAIN s
      /\ Tail(s) \in Seq(JobIds)
      /\ \A i \in DOMAIN Tail(s) : i + 1 \in DOMAIN s /\ Tail(s)[i] = s[i + 1]
  BY <1>1
<1>3. r \in Work
  BY <1>2 DEF Work, WorkerPC, UpdateRetries
<1>4. /\ WorkerTypeOK' /\ wk'[p][w] = r
      /\ \A q \in Procs, v \in Workers : <<q, v>> # <<p, w>> => wk'[q][v] = wk[q][v]
  <2> HIDE DEF r
  <2>1. SetWork(p, w, r)
    BY DEF Take, r
  <2> QED BY <1>3, <2>1, SetWorkType
<1>5. chan' = [chan EXCEPT ![p] = Tail(s)]
  BY DEF Take
<1>6. ServiceTypeOK'
  BY <1>2, <1>5 DEF ServiceTypeOK, Take
<1>7. \A i \in DOMAIN s : jobs[s[i]].status # "UNUSED"
  BY DEF JobsKnown
<1>8. JobsKnown'
  <2>1. jobs'[wk'[p][w].job].status # "UNUSED"
    BY <1>2, <1>4, <1>7 DEF Take
  <2>2. chan'[p] = Tail(s) /\ \A q \in Procs : q # p => chan'[q] = chan[q]
    BY <1>5 DEF ServiceTypeOK
  <2>3. \A i \in DOMAIN chan'[p] : jobs'[chan'[p][i]].status # "UNUSED"
    BY <1>2, <1>7, <2>2 DEF Take
  <2> QED BY <1>4, <2>1, <2>2, <2>3, JobsKnownStep DEF Take
<1> QED BY <1>4, <1>6, <1>8 DEF DBTypeOK, DockerTypeOK, Take

LEMMA UpdateJobType ==
  ASSUME DBTypeOK, NEW j \in JobIds, NEW s \in Active \cup Terminal, NEW b \in BOOLEAN,
         UNCHANGED jobs \/ (jobs[j].status # "UNUSED" /\ UpdateJob(j, s, b)),
         UNCHANGED <<containers, rowLock>>
  PROVE  /\ DBTypeOK'
         /\ \A k \in JobIds : jobs[k].status # "UNUSED" => jobs'[k].status # "UNUSED"
<1>1. CASE jobs[j].status # "UNUSED" /\ UpdateJob(j, s, b)
  <2>1. jobs[j] \in JobRow
    BY <1>1 DEF DBTypeOK, Unused
  <2>2. [jobs[j] EXCEPT !.status = s, !.completed = b] \in JobRow
    BY <2>1 DEF JobRow
  <2> QED BY <1>1, <2>2 DEF DBTypeOK, UpdateJob, Active, Terminal, JobRow
<1> QED BY <1>1 DEF DBTypeOK

LEMMA MarkType ==
  ASSUME TypeInv, NEW p \in Procs, NEW w \in Workers, Mark(p, w)
  PROVE  TypeInv'
<1> USE DEF TypeInv, TypeOK
<1>1. Working(p, w)
  BY DEF Mark, Working
<1>2. Moves(p, w)
  BY <1>1, StepMoves DEF Mark, WorkerPC
<1>3. spent' \in [Budgets -> Nat]
  BY CallType DEF Mark
<1>4. /\ DBTypeOK'
      /\ \A k \in JobIds : jobs[k].status # "UNUSED" => jobs'[k].status # "UNUSED"
  BY <1>1, TargetType, UpdateJobType DEF Mark, InJobs, JobOf, Active
<1> QED BY <1>1, <1>2, <1>3, <1>4, MoveType DEF Mark, DockerTypeOK

LEMMA FinishType ==
  ASSUME TypeInv, NEW p \in Procs, NEW w \in Workers, Finish(p, w)
  PROVE  TypeInv'
<1> USE DEF TypeInv, TypeOK
<1>1. Working(p, w)
  BY DEF Finish, Working
<1>2. Moves(p, w)
  BY SetWorkMoves DEF Finish
<1>3. spent' \in [Budgets -> Nat]
  BY CallType DEF Finish
<1>4. /\ DBTypeOK'
      /\ \A k \in JobIds : jobs[k].status # "UNUSED" => jobs'[k].status # "UNUSED"
  BY <1>1, TargetType, UpdateJobType DEF Finish, InJobs, JobOf, Terminal
<1> QED BY <1>1, <1>2, <1>3, <1>4, MoveType DEF Finish, DockerTypeOK

LEMMA FindType ==
  ASSUME TypeInv, NEW p \in Procs, NEW w \in Workers, Find(p, w)
  PROVE  TypeInv'
<1> USE DEF TypeInv, TypeOK
<1> DEFINE d == containers[TargetOf(p, w)].docker
           next == AfterFind(TypeOf(p, w), d)
<1>1. Working(p, w)
  BY DEF Find, Working
<1>2. wk[p][w] \in Work /\ TargetOf(p, w) \in ContainerIds /\ TypeOf(p, w) \in JobTypes
  BY <1>1, TargetType DEF TypeOf, JobRow
<1>3. CASE Fail(p, w)
  BY <1>1, <1>3, EndMoves, MoveType, CallType DEF Find, DBTypeOK, DockerTypeOK
<1>4. CASE /\ NoFault /\ Stored(TargetOf(p, w)) /\ next # "fail"
           /\ SetWork(p, w, [wk[p][w] EXCEPT !.pc = next, !.docker = d])
  <2>1. d \in DockerIds \cup {NoDocker}
    BY <1>2, <1>4 DEF DBTypeOK, Stored, ContainerRow, Unused
  <2>2. next \in WorkerPC
    BY <1>2, <1>4 DEF AfterFind, JobTypes, WorkerPC
  <2>3. [wk[p][w] EXCEPT !.pc = next, !.docker = d] \in Work
    BY <1>2, <2>1, <2>2 DEF Work
  <2>4. Moves(p, w)
    BY <1>2, <1>4, <2>3, SetWorkMoves DEF Work
  <2> QED BY <1>1, <2>4, MoveType, CallType DEF Find, DBTypeOK, DockerTypeOK
<1> QED BY <1>3, <1>4 DEF Find

\* A step of a worker that calls Docker or changes a container row.
LEMMA CallStepType ==
  ASSUME TypeInv, NEW p \in Procs, NEW w \in Workers, Working(p, w), Moves(p, w),
         NoFault \/ Fault, DockerTypeOK',
         containers' \in [ContainerIds -> ContainerRow \cup {Unused}],
         UNCHANGED <<jobs, rowLock, phase, req, mutex, chan>>
  PROVE  TypeInv'
<1>1. DBTypeOK'
  BY DEF TypeInv, TypeOK, DBTypeOK
<1>2. spent' \in [Budgets -> Nat]
  BY CallType DEF TypeInv, TypeOK
<1> QED BY <1>1, <1>2, MoveType

LEMMA SetStateType ==
  ASSUME DockerTypeOK, NEW d, InDocker(d),
         NEW s \in {"created", "running", "exited", "removed"}, SetState(d, s)
  PROVE  DockerTypeOK'
<1>1. docker[d] \in DockerRow
  BY DEF DockerTypeOK, InDocker, DockerUnused
<1>2. [docker[d] EXCEPT !.state = s] \in DockerRow
  BY <1>1 DEF DockerRow
<1> QED BY <1>2 DEF DockerTypeOK, SetState

LEMMA NewDockerIdIsFresh == FreshDockerIds # {} => NewDockerId \in FreshDockerIds
BY DEF NewDockerId

LEMMA CreateInDockerType ==
  ASSUME TypeInv, NEW p \in Procs, NEW w \in Workers, CreateInDocker(p, w)
  PROVE  TypeInv'
<1> USE DEF TypeInv, TypeOK
<1>1. Working(p, w)
  BY DEF CreateInDocker, Working
<1>2. wk[p][w] \in Work /\ TargetOf(p, w) \in ContainerIds
  BY <1>1, TargetType
<1>3. containers' \in [ContainerIds -> ContainerRow \cup {Unused}] /\ (NoFault \/ Fault)
  BY DEF CreateInDocker, DBTypeOK
<1>4. CASE Fail(p, w) /\ UNCHANGED docker
  BY <1>1, <1>3, <1>4, EndMoves, CallStepType DEF CreateInDocker, DockerTypeOK
<1>5. ASSUME NEW d \in FreshDockerIds, DockerCreate(d, TargetOf(p, w)),
             \/ SetWork(p, w, [wk[p][w] EXCEPT !.pc = "cstart", !.docker = d])
             \/ Fail(p, w)
      PROVE  TypeInv'
  <2>1. d \in DockerIds
    BY DEF FreshDockerIds
  <2>2. DockerTypeOK'
    BY <1>2, <1>5, <2>1 DEF DockerTypeOK, DockerCreate, DockerRow
  <2>3. [wk[p][w] EXCEPT !.pc = "cstart", !.docker = d] \in Work
    BY <1>2, <2>1 DEF Work, WorkerPC
  <2>4. Moves(p, w)
    BY <1>1, <1>2, <1>5, <2>3, SetWorkMoves, EndMoves DEF Work
  <2> QED BY <1>1, <1>3, <2>2, <2>4, CallStepType DEF CreateInDocker
<1> QED BY <1>4, <1>5, NewDockerIdIsFresh DEF CreateInDocker

LEMMA StartInDockerType ==
  ASSUME TypeInv, NEW p \in Procs, NEW w \in Workers, StartCreated(p, w) \/ StartExisting(p, w)
  PROVE  TypeInv'
<1> USE DEF TypeInv, TypeOK
<1>1. Working(p, w)
  BY DEF StartCreated, StartExisting, Working
<1>2. containers' \in [ContainerIds -> ContainerRow \cup {Unused}] /\ (NoFault \/ Fault)
  BY DEF StartCreated, StartExisting, StartInDocker, DBTypeOK
<1>3. DockerTypeOK'
  BY SetStateType DEF StartCreated, StartExisting, StartInDocker, DockerStart, DockerTypeOK
<1>4. Step(p, w, "sync") \/ Step(p, w, "cleanup") \/ Fail(p, w)
  BY DEF StartCreated, StartExisting, StartInDocker
<1>5. Moves(p, w)
  BY <1>1, <1>4, StepMoves, EndMoves DEF WorkerPC
<1>6. UNCHANGED <<jobs, rowLock, phase, req, mutex, chan>>
  BY DEF StartCreated, StartExisting, StartInDocker
<1> QED BY <1>1, <1>2, <1>3, <1>5, <1>6, CallStepType

LEMMA CleanupType ==
  ASSUME TypeInv, NEW p \in Procs, NEW w \in Workers, Cleanup(p, w)
  PROVE  TypeInv'
<1> USE DEF TypeInv, TypeOK
<1>1. Working(p, w)
  BY DEF Cleanup, Working
<1>2. containers' \in [ContainerIds -> ContainerRow \cup {Unused}] /\ (NoFault \/ Fault)
  BY DEF Cleanup, DBTypeOK
<1>3. DockerTypeOK'
  BY SetStateType DEF Cleanup, DockerRemove, DockerTypeOK
<1>4. Moves(p, w)
  BY <1>1, EndMoves DEF Cleanup
<1> QED BY <1>1, <1>2, <1>3, <1>4, CallStepType DEF Cleanup

LEMMA SyncStateType ==
  ASSUME TypeInv, NEW p \in Procs, NEW w \in Workers, SyncState(p, w)
  PROVE  TypeInv'
<1> USE DEF TypeInv, TypeOK
<1>1. Working(p, w)
  BY DEF SyncState, Working
<1>2. wk[p][w] \in Work
  BY <1>1, TargetType
<1>3. PICK s \in {"Running", "Exited"} :
        SetWork(p, w, [wk[p][w] EXCEPT !.pc = "update", !.status = s])
  BY DEF SyncState
<1>4. [wk[p][w] EXCEPT !.pc = "update", !.status = s] \in Work
  BY <1>2 DEF Work, WorkerPC
<1>5. Moves(p, w)
  BY <1>2, <1>3, <1>4, SetWorkMoves DEF Work
<1>6. NoFault \/ Fault
  BY DEF SyncState
<1> QED BY <1>1, <1>5, <1>6, CallStepType DEF SyncState, DockerTypeOK, DBTypeOK

LEMMA StopInDockerType ==
  ASSUME TypeInv, NEW p \in Procs, NEW w \in Workers, StopInDocker(p, w)
  PROVE  TypeInv'
<1> USE DEF TypeInv, TypeOK
<1>1. Working(p, w)
  BY DEF StopInDocker, Working
<1>2. wk[p][w] \in Work
  BY <1>1, TargetType
<1>3. [wk[p][w] EXCEPT !.pc = "update", !.status = "Exited"] \in Work
  BY <1>2 DEF Work, WorkerPC
<1>4. Moves(p, w)
  BY <1>1, <1>2, <1>3, SetWorkMoves, EndMoves DEF StopInDocker, Work
<1>5. DockerTypeOK'
  BY SetStateType DEF StopInDocker, DockerStop, DockerTypeOK
<1>6. NoFault \/ Fault
  BY DEF StopInDocker
<1> QED BY <1>1, <1>4, <1>5, <1>6, CallStepType DEF StopInDocker, DBTypeOK

LEMMA RemoveInDockerType ==
  ASSUME TypeInv, NEW p \in Procs, NEW w \in Workers, RemoveInDocker(p, w)
  PROVE  TypeInv'
<1> USE DEF TypeInv, TypeOK
<1>1. Working(p, w)
  BY DEF RemoveInDocker, Working
<1>2. Moves(p, w)
  BY <1>1, StepMoves, EndMoves DEF RemoveInDocker, WorkerPC
<1>3. DockerTypeOK'
  BY SetStateType DEF RemoveInDocker, DockerRemove, DockerTypeOK
<1>4. NoFault \/ Fault
  BY DEF RemoveInDocker
<1> QED BY <1>1, <1>2, <1>3, <1>4, CallStepType DEF RemoveInDocker, DBTypeOK

LEMMA UpdateRowType ==
  ASSUME TypeInv, NEW p \in Procs, NEW w \in Workers, UpdateRow(p, w)
  PROVE  TypeInv'
<1> USE DEF TypeInv, TypeOK
<1> DEFINE c == TargetOf(p, w)
<1>1. Working(p, w)
  BY DEF UpdateRow, Working
<1>2. wk[p][w] \in Work /\ c \in ContainerIds
  BY <1>1, TargetType
<1>3. Moves(p, w)
  BY <1>1, RetryMoves, EndMoves DEF UpdateRow
<1>4. containers' \in [ContainerIds -> ContainerRow \cup {Unused}]
  <2>1. CASE Stored(c) /\ UpdateContainer(c, wk[p][w].status, wk[p][w].docker)
    <3>1. containers[c] \in ContainerRow
      BY <1>2, <2>1 DEF Stored, DBTypeOK, Unused
    <3>2. [containers[c] EXCEPT !.status = wk[p][w].status, !.docker = wk[p][w].docker] \in ContainerRow
      BY <1>2, <3>1 DEF ContainerRow, Work
    <3> QED BY <2>1, <3>2 DEF UpdateContainer, DBTypeOK
  <2> QED BY <2>1 DEF UpdateRow, DBTypeOK
<1>5. NoFault \/ Fault
  BY DEF UpdateRow
<1> QED BY <1>1, <1>3, <1>4, <1>5, CallStepType DEF UpdateRow, DockerTypeOK

LEMMA DeleteRowType ==
  ASSUME TypeInv, NEW p \in Procs, NEW w \in Workers, DeleteRow(p, w)
  PROVE  TypeInv'
<1> USE DEF TypeInv, TypeOK
<1> DEFINE c == TargetOf(p, w)
<1>1. Working(p, w)
  BY DEF DeleteRow, Working
<1>2. c \in ContainerIds
  BY <1>1, TargetType
<1>3. Moves(p, w)
  BY <1>1, RetryMoves, EndMoves DEF DeleteRow
<1>4. containers' \in [ContainerIds -> ContainerRow \cup {Unused}]
  <2>1. CASE Stored(c) /\ DeleteContainer(c)
    <3>1. containers[c] \in ContainerRow
      BY <1>2, <2>1 DEF Stored, DBTypeOK, Unused
    <3>2. [containers[c] EXCEPT !.status = "GONE"] \in ContainerRow
      BY <3>1 DEF ContainerRow
    <3> QED BY <2>1, <3>2 DEF DeleteContainer, DBTypeOK
  <2> QED BY <2>1 DEF DeleteRow, DBTypeOK
<1>5. NoFault \/ Fault
  BY DEF DeleteRow
<1> QED BY <1>1, <1>3, <1>4, <1>5, CallStepType DEF DeleteRow, DockerTypeOK

LEMMA WorkerType ==
  ASSUME TypeInv, NEW p \in Procs, NEW w \in Workers, WorkerStep(p, w)
  PROVE  TypeInv'
BY TakeType, MarkType, FindType, CreateInDockerType, StartInDockerType, CleanupType,
   SyncStateType, StopInDockerType, UpdateRowType, RemoveInDockerType, DeleteRowType,
   FinishType DEF WorkerStep

-----------------------------------------------------------------------------
(* Start-up, crashes, the clean-up and Docker on its own. *)

LEMMA RecoverType ==
  ASSUME TypeInv, NEW p \in Procs, Recover(p)
  PROVE  TypeInv'
<1> USE DEF TypeInv, TypeOK
<1>1. spent' \in [Budgets -> Nat]
  BY CallType DEF Recover
<1>2. /\ jobs' \in [JobIds -> JobRow \cup {Unused}]
      /\ \A k \in JobIds : jobs[k].status # "UNUSED" => jobs'[k].status # "UNUSED"
  <2>1. \A k \in JobIds : jobs[k].status = "RUNNING" =>
          [jobs[k] EXCEPT !.status = "FAILED"] \in JobRow /\ [jobs[k] EXCEPT !.status = "FAILED"].status = "FAILED"
    BY DEF DBTypeOK, JobRow, Unused, Terminal
  <2> QED BY <2>1 DEF Recover, MarkRunningAsFailed, DBTypeOK
<1>3. ServiceTypeOK'
  BY DEF ServiceTypeOK, Recover
<1>4. JobsKnown'
  BY <1>2, JobsKnownStep DEF Recover
<1> QED BY <1>1, <1>2, <1>3, <1>4 DEF Recover, DBTypeOK, DockerTypeOK, WorkerTypeOK

LEMMA RequeueType ==
  ASSUME NEW read \in SUBSET PendingJobs, NEW s \in Requeues(read)
  PROVE  s \in Seq(JobIds) /\ \A i \in DOMAIN s : jobs[s[i]].status = "PENDING"
<1>1. read \subseteq JobIds
  BY DEF PendingJobs
<1>2. Cardinality(read) \in Nat
  BY <1>1, JobsAssumption, FS_Subset, FS_CardinalityType
<1>3. Least(Cap, Cardinality(read)) \in Nat
  BY <1>2, CapAssumption DEF Least
<1>4. s \in [1 .. Least(Cap, Cardinality(read)) -> read]
  BY DEF Requeues
<1>5. DOMAIN s = 1 .. Least(Cap, Cardinality(read)) /\ \A i \in DOMAIN s : s[i] \in read
  BY <1>4
<1>6. s \in Seq(JobIds)
  <2> DEFINE n == Least(Cap, Cardinality(read))
  <2>1. s \in [1 .. n -> JobIds]
    BY <1>1, <1>4
  <2> HIDE DEF n
  <2> QED BY <2>1, <1>3 DEF n
<1>7. \A x \in read : jobs[x].status = "PENDING"
  BY DEF PendingJobs
<1> QED BY <1>5, <1>6, <1>7

LEMMA BootType ==
  ASSUME TypeInv, NEW p \in Procs, Boot(p)
  PROVE  TypeInv'
<1> USE DEF TypeInv, TypeOK
<1>1. spent' \in [Budgets -> Nat]
  BY CallType DEF Boot
<1>2. \E read \in SUBSET PendingJobs : \E s \in Requeues(read) : chan' = [chan EXCEPT ![p] = s]
  BY DEF Boot
<1>3. /\ chan' \in [Procs -> Seq(JobIds)]
      /\ \A q \in Procs : \/ chan'[q] = chan[q]
                          \/ \A i \in DOMAIN chan'[q] : jobs[chan'[q][i]].status # "UNUSED"
  BY <1>2, RequeueType DEF ServiceTypeOK
<1>4. ServiceTypeOK'
  BY <1>3 DEF ServiceTypeOK, Boot
<1>5. JobsKnown'
  BY <1>3, JobsKnownStep DEF Boot
<1> QED BY <1>1, <1>4, <1>5 DEF Boot, DBTypeOK, DockerTypeOK, WorkerTypeOK

LEMMA CrashType ==
  ASSUME TypeInv, NEW p \in Procs, Crash(p)
  PROVE  TypeInv'
<1> USE DEF TypeInv, TypeOK
<1>1. spent' \in [Budgets -> Nat]
  BY SpendType DEF Crash, Budgets
<1>2. DBTypeOK'
  BY DEF Crash, DBTypeOK
<1>3. /\ WorkerTypeOK'
      /\ \A q \in Procs, w \in Workers : wk'[q][w].pc = "take" \/ wk'[q][w] = wk[q][w]
  BY DEF Crash, WorkerTypeOK, Free
<1>4. /\ req' \in [Handlers -> Request \cup {Idle}]
      /\ \A h \in Handlers : req'[h] = req[h] \/ req'[h].pc # "send"
  BY DEF Crash, ServiceTypeOK, Idle
<1>5. /\ chan' \in [Procs -> Seq(JobIds)]
      /\ \A q \in Procs : chan'[q] = chan[q] \/ DOMAIN chan'[q] = {}
  BY DEF Crash, ServiceTypeOK
<1>6. ServiceTypeOK'
  BY <1>4, <1>5 DEF Crash, ServiceTypeOK
<1>7. JobsKnown'
  BY <1>3, <1>4, <1>5, JobsKnownStep DEF Crash
<1> QED BY <1>1, <1>2, <1>3, <1>6, <1>7 DEF Crash, DockerTypeOK

LEMMA CleanType ==
  ASSUME TypeInv, Clean
  PROVE  TypeInv'
<1> USE DEF TypeInv, TypeOK
<1>1. spent' \in [Budgets -> Nat]
  BY SpendType DEF Clean, Budgets
<1>2. PICK old \in SUBSET Expirable : DeleteExpired(old)
  BY DEF Clean
<1>3. /\ jobs' \in [JobIds -> JobRow \cup {Unused}]
      /\ \A k \in JobIds : jobs[k].status # "UNUSED" => jobs'[k].status # "UNUSED"
  <2>1. \A k \in old : /\ [jobs[k] EXCEPT !.status = "GONE"] \in JobRow
                       /\ [jobs[k] EXCEPT !.status = "GONE"].status = "GONE"
    BY DEF DBTypeOK, JobRow, Unused, Expirable, Terminal
  <2> QED BY <1>2, <2>1 DEF DeleteExpired, DBTypeOK
<1>4. JobsKnown'
  BY <1>3, JobsKnownStep DEF Clean
<1> QED BY <1>1, <1>3, <1>4 DEF Clean, DBTypeOK, DockerTypeOK, WorkerTypeOK, ServiceTypeOK

LEMMA DockerEnvType ==
  ASSUME TypeInv, DockerEnv
  PROVE  TypeInv'
<1> USE DEF TypeInv, TypeOK
<1>1. PICK d \in DockerIds : DockerExit(d) \/ ManualRemove(d)
  BY DEF DockerEnv
<1>2. UNCHANGED <<containers, jobs, rowLock, phase, req, mutex, chan, wk>>
  BY <1>1 DEF DockerEnv, DockerExit, ManualRemove, serviceVars
<1>3. InDocker(d)
  BY <1>1 DEF DockerExit, ManualRemove, InDocker
<1>4. DockerTypeOK'
  BY <1>1, <1>3, SetStateType DEF DockerExit, ManualRemove, DockerRemove
<1>5. spent' \in [Budgets -> Nat]
  BY <1>1, SpendType DEF DockerExit, ManualRemove, Budgets
<1>6. JobsKnown'
  BY <1>2, JobsKnownStep
<1> QED BY <1>2, <1>4, <1>5, <1>6 DEF DBTypeOK, WorkerTypeOK, ServiceTypeOK

LEMMA StutterType ==
  ASSUME TypeInv, UNCHANGED vars
  PROVE  TypeInv'
BY DEF vars, TypeInv, TypeOK, JobsKnown, DBTypeOK, DockerTypeOK, ServiceTypeOK, WorkerTypeOK, Working

LEMMA TypeNext == TypeInv /\ [Next]_vars => TypeInv'
<1> SUFFICES ASSUME TypeInv, [Next]_vars PROVE TypeInv'
  OBVIOUS
<1>1. CASE Service
  BY <1>1, ServiceType
<1>2. CASE \E p \in Procs, w \in Workers : WorkerStep(p, w)
  BY <1>2, WorkerType
<1>3. CASE \E p \in Procs : Recover(p) \/ Boot(p) \/ Crash(p)
  BY <1>3, RecoverType, BootType, CrashType
<1>4. CASE Clean
  BY <1>4, CleanType
<1>5. CASE DockerEnv
  BY <1>5, DockerEnvType
<1>6. CASE UNCHANGED vars
  BY <1>6, StutterType
<1> QED BY <1>1, <1>2, <1>3, <1>4, <1>5, <1>6 DEF Next, Quiescent

\* Every variable keeps its type, and no job is in memory before it is in the
\* table (container_svc.go inserts before it sends).
THEOREM TypeCorrect == Spec => []TypeInv
BY TypeInit, TypeNext, PTL DEF Spec

\* The type invariant the runs check.
THEOREM TypeSafe == Spec => []TypeOK
<1>1. TypeInv => TypeOK
  BY DEF TypeInv
<1> QED BY <1>1, TypeCorrect, PTL

-----------------------------------------------------------------------------
(* What one step does to rows, requests and workers. *)

\* A container row after a step: new, deleted or rewritten from a worker's copy.
RowMove(c) ==
  \/ containers'[c] = containers[c]
  \/ ~Generated(c) /\ containers'[c].status = "Created"
  \/ Generated(c) /\ containers'[c] = [containers[c] EXCEPT !.status = "GONE"]
  \/ \E p \in Procs, w \in Workers :
       /\ wk[p][w].pc = "update"
       /\ Generated(c)
       /\ containers'[c] = [containers[c] EXCEPT !.status = wk[p][w].status,
                                                 !.docker = wk[p][w].docker]

LEMMA WorkerRowMoves ==
  ASSUME TypeInv, NEW p \in Procs, NEW w \in Workers, WorkerStep(p, w)
  PROVE  \A c \in ContainerIds : RowMove(c)
<1> USE DEF TypeInv, TypeOK, DBTypeOK
<1>1. CASE UpdateRow(p, w)
  <2>1. TargetOf(p, w) \in ContainerIds /\ wk[p][w].pc = "update"
    BY <1>1, TargetType DEF UpdateRow, Working
  <2>2. \/ /\ Generated(TargetOf(p, w))
           /\ containers' = [containers EXCEPT ![TargetOf(p, w)] =
                [containers[TargetOf(p, w)] EXCEPT !.status = wk[p][w].status,
                                                   !.docker = wk[p][w].docker]]
        \/ UNCHANGED containers
    BY <1>1 DEF UpdateRow, UpdateContainer, Stored, Generated
  <2>3. ASSUME NEW c \in ContainerIds PROVE RowMove(c)
    <3>1. CASE c = TargetOf(p, w) /\ ~UNCHANGED containers
      <4>1. /\ Generated(c)
            /\ containers'[c] = [containers[c] EXCEPT !.status = wk[p][w].status,
                                                      !.docker = wk[p][w].docker]
        BY <2>2, <3>1
      <4> QED BY <2>1, <4>1 DEF RowMove
    <3>2. CASE c # TargetOf(p, w) \/ UNCHANGED containers
      BY <2>2, <3>2 DEF RowMove
    <3> QED BY <3>1, <3>2
  <2> QED BY <2>3
<1>2. CASE DeleteRow(p, w)
  <2>1. TargetOf(p, w) \in ContainerIds
    BY <1>2, TargetType DEF DeleteRow, Working
  <2>2. \/ Stored(TargetOf(p, w)) /\ DeleteContainer(TargetOf(p, w))
        \/ UNCHANGED containers
    BY <1>2 DEF DeleteRow
  <2> QED BY <2>1, <2>2 DEF RowMove, DeleteContainer, Stored, Generated
<1>3. CASE ~UpdateRow(p, w) /\ ~DeleteRow(p, w)
  <2>1. UNCHANGED containers
    BY <1>3 DEF WorkerStep, Take, Mark, Find, CreateInDocker, StartCreated, StartExisting,
       StartInDocker, Cleanup, SyncState, StopInDocker, RemoveInDocker, Finish
  <2> QED BY <2>1 DEF RowMove
<1> QED BY <1>1, <1>2, <1>3

LEMMA ServiceRowMoves ==
  ASSUME TypeInv, Service
  PROVE  \A c \in ContainerIds : RowMove(c)
<1> USE DEF TypeInv, TypeOK, DBTypeOK
<1>1. PICK h \in Handlers : CreateSave(h) \/ Submit(h) \/ HandlerStep(h)
  BY DEF Service
<1>2. CASE CreateSave(h)
  <2>1. NewContainerId \in FreshContainers
    BY <1>2 DEF CreateSave, NewContainerId
  <2>2. PICK u \in Users, n \in Names : SaveContainer(NewContainerId, u, n)
    BY <1>2 DEF CreateSave
  <2>3. ASSUME NEW c \in ContainerIds PROVE RowMove(c)
    <3>1. CASE c = NewContainerId
      BY <2>1, <2>2, <3>1 DEF RowMove, SaveContainer, FreshContainers
    <3>2. CASE c # NewContainerId
      BY <2>2, <3>2 DEF RowMove, SaveContainer
    <3> QED BY <3>1, <3>2
  <2> QED BY <2>3
<1>3. CASE ~CreateSave(h)
  <2>1. UNCHANGED containers
    BY <1>1, <1>3 DEF HandlerStep, Submit, CreateSaveJob, Lock, Guard, Abort, Commit, Send,
       SendTimeout
  <2> QED BY <2>1 DEF RowMove
<1> QED BY <1>2, <1>3

LEMMA RowMoves ==
  ASSUME TypeInv, [Next]_vars
  PROVE  \A c \in ContainerIds : RowMove(c)
<1>1. CASE Service
  BY <1>1, ServiceRowMoves
<1>2. CASE \E p \in Procs, w \in Workers : WorkerStep(p, w)
  BY <1>2, WorkerRowMoves
<1>3. CASE UNCHANGED containers
  BY <1>3 DEF RowMove
<1>4. CASE \E p \in Procs : Recover(p) \/ Boot(p) \/ Crash(p)
  BY <1>3, <1>4 DEF Recover, Boot, Crash
<1>5. CASE Clean
  BY <1>3, <1>5 DEF Clean
<1>6. CASE DockerEnv
  BY <1>3, <1>6 DEF DockerEnv, DockerExit, ManualRemove
<1>7. CASE UNCHANGED vars
  BY <1>3, <1>7 DEF vars
<1> QED BY <1>1, <1>2, <1>4, <1>5, <1>6, <1>7 DEF Next, Quiescent

-----------------------------------------------------------------------------
\* A job row after a step: untouched, updated, or inserted for the request of h.
JobMove(j) ==
  \/ jobs'[j] = jobs[j]
  \/ /\ jobs[j].status # "UNUSED"
     /\ jobs'[j].type = jobs[j].type
     /\ jobs'[j].target = jobs[j].target
     /\ jobs'[j].user = jobs[j].user
  \/ \E h \in Handlers :
       /\ req[h].pc \in {"savejob", "commit"}
       /\ jobs'[j].type \in {"create", req[h].op}
       /\ jobs'[j].target = req[h].ctr
       /\ jobs'[j].user = req[h].user

LEMMA ServiceJobMoves ==
  ASSUME TypeInv, Service
  PROVE  \A j \in JobIds : JobMove(j)
<1> USE DEF TypeInv, TypeOK, DBTypeOK
<1>1. PICK h \in Handlers : CreateSave(h) \/ Submit(h) \/ HandlerStep(h)
  BY DEF Service
<1>2. CASE CreateSaveJob(h) \/ Commit(h)
  <2> DEFINE r == req[h]
  <2>1. r.pc \in {"savejob", "commit"}
    BY <1>2 DEF CreateSaveJob, Commit
  <2>2. \/ UNCHANGED jobs
        \/ \E t \in {"create", r.op} : SaveJob(r.job, t, r.ctr, r.user)
    BY <1>2 DEF CreateSaveJob, Commit
  <2>3. ASSUME NEW t \in {"create", r.op}, SaveJob(r.job, t, r.ctr, r.user), NEW j \in JobIds
        PROVE  JobMove(j)
    BY <2>1, <2>3 DEF SaveJob, JobMove
  <2> QED BY <2>2, <2>3 DEF JobMove
<1>3. CASE ~(CreateSaveJob(h) \/ Commit(h))
  <2>1. UNCHANGED jobs
    BY <1>1, <1>3 DEF HandlerStep, CreateSave, Submit, Lock, Guard, Abort, Send,
       SendTimeout
  <2> QED BY <2>1 DEF JobMove
<1> QED BY <1>2, <1>3

LEMMA WorkerJobMoves ==
  ASSUME TypeInv, NEW p \in Procs, NEW w \in Workers, WorkerStep(p, w)
  PROVE  \A j \in JobIds : JobMove(j)
<1> USE DEF TypeInv, TypeOK, DBTypeOK
<1>1. CASE Mark(p, w) \/ Finish(p, w)
  <2>1. \/ UNCHANGED jobs
        \/ \E s \in {"RUNNING", "SUCCESS", "FAILED"}, b \in BOOLEAN :
             InJobs(JobOf(p, w)) /\ UpdateJob(JobOf(p, w), s, b)
    BY <1>1 DEF Mark, Finish
  <2>2. ASSUME NEW s \in {"RUNNING", "SUCCESS", "FAILED"}, NEW b \in BOOLEAN,
               InJobs(JobOf(p, w)), UpdateJob(JobOf(p, w), s, b), NEW j \in JobIds
        PROVE  JobMove(j)
    <3>1. CASE j = JobOf(p, w)
      BY <2>2, <3>1 DEF UpdateJob, InJobs, JobMove, JobRow
    <3>2. CASE j # JobOf(p, w)
      BY <2>2, <3>2 DEF UpdateJob, JobMove
    <3> QED BY <3>1, <3>2
  <2> QED BY <2>1, <2>2 DEF JobMove
<1>2. CASE ~(Mark(p, w) \/ Finish(p, w))
  <2>1. UNCHANGED jobs
    BY <1>2 DEF WorkerStep, Take, Find, CreateInDocker, StartCreated, StartExisting,
       StartInDocker, Cleanup, SyncState, StopInDocker, UpdateRow, RemoveInDocker, DeleteRow
  <2> QED BY <2>1 DEF JobMove
<1> QED BY <1>1, <1>2

LEMMA JobMoves ==
  ASSUME TypeInv, [Next]_vars
  PROVE  \A j \in JobIds : JobMove(j)
<1> USE DEF TypeInv, TypeOK, DBTypeOK
<1>1. CASE Service
  BY <1>1, ServiceJobMoves
<1>2. CASE \E p \in Procs, w \in Workers : WorkerStep(p, w)
  BY <1>2, WorkerJobMoves
<1>3. CASE UNCHANGED jobs
  BY <1>3 DEF JobMove
<1>4. CASE MarkRunningAsFailed
  BY <1>4 DEF MarkRunningAsFailed, JobMove, JobRow, Unused
<1>5. ASSUME NEW old \in SUBSET Expirable, DeleteExpired(old)
      PROVE  \A j \in JobIds : JobMove(j)
  BY <1>5 DEF DeleteExpired, Expirable, Terminal, JobMove, JobRow, Unused
<1>6. CASE \E p \in Procs : Recover(p) \/ Boot(p) \/ Crash(p)
  BY <1>3, <1>4, <1>6 DEF Recover, Boot, Crash
<1>7. CASE Clean
  BY <1>5, <1>7 DEF Clean
<1>8. CASE DockerEnv
  BY <1>3, <1>8 DEF DockerEnv, DockerExit, ManualRemove
<1>9. CASE UNCHANGED vars
  BY <1>3, <1>9 DEF vars
<1> QED BY <1>1, <1>2, <1>6, <1>7, <1>8, <1>9 DEF Next, Quiescent

-----------------------------------------------------------------------------
Deciding == {"savejob", "commit"}     \* where a handler is about to insert a job

\* A request after a step, if it is about to insert its job: it was already, or
\* it inserted a container of its user, or its guard accepted under the lock.
ReqMove(h) ==
  \/ req'[h] = req[h]
  \/ req'[h].pc \notin Deciding
  \/ LET r == req'[h] IN
     /\ r.pc = "savejob" /\ r.op = "create"
     /\ r.ctr \in ContainerIds
     /\ containers'[r.ctr].status = "Created" /\ containers'[r.ctr].owner = r.user
  \/ LET r == req'[h] IN
     /\ r.pc = "commit"
     /\ r.ctr \in ContainerIds
     /\ rowLock[r.ctr] = Nobody /\ rowLock'[r.ctr] = h
     /\ Accepts(r.op, r.user, r.ctr)

LEMMA ServiceReqMoves ==
  ASSUME TypeInv, Service
  PROVE  \A h \in Handlers : ReqMove(h)
<1> USE DEF TypeInv, TypeOK, DBTypeOK, ServiceTypeOK
<1>1. PICK h \in Handlers : CreateSave(h) \/ Submit(h) \/ HandlerStep(h)
  BY DEF Service
<1>2. \A k \in Handlers : k # h => req'[k] = req[k]
  BY <1>1 DEF HandlerStep, CreateSave, CreateSaveJob, Submit, Lock, Guard, Abort, Commit,
     Send, SendTimeout, Goto, Reply
<1>3. CASE CreateSave(h)
  <2> DEFINE c == NewContainerId
  <2>1. c \in ContainerIds
    BY <1>3 DEF CreateSave, NewContainerId, FreshContainers
  <2>2. PICK p \in Procs, u \in Users, n \in Names :
          /\ SaveContainer(c, u, n)
          /\ \/ req' = [req EXCEPT ![h] =
                  [pc |-> "savejob", proc |-> p, op |-> "create", user |-> u,
                   ctr |-> c, job |-> NewJobId]]
             \/ UNCHANGED req
    BY <1>3 DEF CreateSave
  <2>3. containers'[c].status = "Created" /\ containers'[c].owner = u
    BY <2>1, <2>2 DEF SaveContainer
  <2> HIDE DEF c
  <2>4. ReqMove(h)
    BY <2>1, <2>2, <2>3 DEF ReqMove
  <2> QED BY <1>2, <2>4 DEF ReqMove
<1>4. CASE Guard(h)
  <2>1. req[h] \in Request
    BY <1>4, RequestFields DEF Guard
  <2>2. CASE Goto(h, "commit") /\ rowLock' = [rowLock EXCEPT ![req[h].ctr] = h]
             /\ Accepts(req[h].op, req[h].user, req[h].ctr)
    <3>1. /\ req'[h].pc = "commit" /\ req'[h].ctr = req[h].ctr
          /\ req'[h].op = req[h].op /\ req'[h].user = req[h].user
      BY <2>1, <2>2 DEF Goto, Request
    <3>2. req[h].ctr \in ContainerIds /\ rowLock[req[h].ctr] = Nobody
      BY <1>4, <2>1 DEF Guard, Request
    <3> QED BY <1>2, <2>2, <3>1, <3>2 DEF ReqMove
  <2>3. CASE Reply(h)
    BY <1>2, <2>3 DEF Reply, Idle, ReqMove, Deciding
  <2>4. CASE Goto(h, "aborted")
    <3>1. req'[h].pc = "aborted"
      BY <2>1, <2>4 DEF Goto, Request
    <3> QED BY <1>2, <3>1 DEF ReqMove, Deciding
  <2> QED BY <1>4, <2>2, <2>3, <2>4 DEF Guard
<1>5. CASE ~CreateSave(h) /\ ~Guard(h)
  <2>1. \/ Reply(h)
        \/ \E pc \in {"send", "guard"} : req[h].pc # "idle" /\ Goto(h, pc)
        \/ Submit(h)
    BY <1>1, <1>5 DEF HandlerStep, CreateSaveJob, Lock, Abort, Commit, Send, SendTimeout
  <2>2. Reply(h) => req'[h].pc \notin Deciding
    BY DEF Reply, Idle, Deciding
  <2>3. ASSUME NEW pc \in {"send", "guard"}, req[h].pc # "idle", Goto(h, pc)
        PROVE  req'[h].pc \notin Deciding
    BY <2>3, RequestFields DEF Goto, Deciding, Request
  <2>4. Submit(h) => req'[h].pc \notin Deciding
    BY DEF Submit, Deciding
  <2>5. req'[h].pc \notin Deciding
    BY <2>1, <2>2, <2>3, <2>4
  <2> QED BY <1>2, <2>5 DEF ReqMove
<1> QED BY <1>3, <1>4, <1>5

LEMMA ReqMoves ==
  ASSUME TypeInv, [Next]_vars
  PROVE  \A h \in Handlers : ReqMove(h)
<1>1. CASE Service
  BY <1>1, ServiceReqMoves
<1>2. CASE UNCHANGED req
  BY <1>2 DEF ReqMove
<1>3. CASE \E p \in Procs, w \in Workers : WorkerStep(p, w)
  <2>1. PICK p \in Procs, w \in Workers : WorkerStep(p, w)
    BY <1>3
  <2>2. UNCHANGED req
    BY <2>1 DEF WorkerStep, Take, Mark, Find, CreateInDocker, StartCreated, StartExisting,
       StartInDocker, Cleanup, SyncState, StopInDocker, UpdateRow, RemoveInDocker,
       DeleteRow, Finish
  <2> QED BY <1>2, <2>2
<1>4. CASE \E p \in Procs : Crash(p)
  BY <1>4 DEF Crash, ReqMove, Idle, Deciding
<1>5. CASE (\E p \in Procs : Recover(p) \/ Boot(p)) \/ Clean
  BY <1>2, <1>5 DEF Recover, Boot, Clean
<1>6. CASE DockerEnv
  BY <1>2, <1>6 DEF DockerEnv, serviceVars
<1>7. CASE UNCHANGED vars
  BY <1>2, <1>7 DEF vars
<1> QED BY <1>1, <1>3, <1>4, <1>5, <1>6, <1>7 DEF Next, Quiescent

-----------------------------------------------------------------------------
\* Where a worker's copy of the row carries a Docker id that matters.
Synced == {"sync", "update"}

\* A worker after a step, if it is there: Docker has just acted on the id it
\* carries, it was there already, or it has read the id for a stop.
WorkMove(p, w) ==
  \/ wk'[p][w].pc \notin Synced \cup {"dstop"}
  \/ wk'[p][w] = wk[p][w]
  \/ /\ wk'[p][w].pc \in Synced
     /\ wk'[p][w].docker = wk[p][w].docker
     /\ wk[p][w].pc \in Synced \/ InDocker(wk[p][w].docker)
  \/ /\ wk'[p][w].pc = "dstop"
     /\ Working(p, w)
     /\ TypeOf(p, w) = "stop"
     /\ wk'[p][w].docker = containers[TargetOf(p, w)].docker

LEMMA SetWorkElsewhere ==
  ASSUME WorkerTypeOK, NEW p \in Procs, NEW w \in Workers, NEW r, SetWork(p, w, r)
  PROVE  /\ wk'[p][w] = r
         /\ \A q \in Procs, v \in Workers : <<q, v>> # <<p, w>> => wk'[q][v] = wk[q][v]
BY DEF SetWork, WorkerTypeOK

LEMMA StepGoes ==
  ASSUME WorkerTypeOK, NEW p \in Procs, NEW w \in Workers, Working(p, w),
         NEW pc, Step(p, w, pc)
  PROVE  wk'[p][w].pc = pc /\ wk'[p][w].docker = wk[p][w].docker
<1>1. wk[p][w] \in Work
  BY WorkFields
<1> QED BY <1>1, SetWorkElsewhere DEF Step, Work

LEMMA EndGoes ==
  ASSUME WorkerTypeOK, NEW p \in Procs, NEW w \in Workers, Working(p, w),
         Succeed(p, w) \/ Fail(p, w)
  PROVE  wk'[p][w].pc = "finish"
<1>1. wk[p][w] \in Work
  BY WorkFields
<1>2. CASE Succeed(p, w)
  <2>1. wk'[p][w] = [wk[p][w] EXCEPT !.pc = "finish", !.ok = TRUE]
    BY <1>2, SetWorkElsewhere DEF Succeed
  <2> QED BY <1>1, <2>1 DEF Work
<1>3. CASE Fail(p, w)
  <2>1. wk'[p][w] = [wk[p][w] EXCEPT !.pc = "finish", !.ok = FALSE]
    BY <1>3, SetWorkElsewhere DEF Fail
  <2> QED BY <1>1, <2>1 DEF Work
<1> QED BY <1>2, <1>3

LEMMA RetryGoes ==
  ASSUME WorkerTypeOK, NEW p \in Procs, NEW w \in Workers, Working(p, w), Retry(p, w)
  PROVE  \/ wk'[p][w].pc = "finish"
         \/ wk'[p][w].pc = wk[p][w].pc /\ wk'[p][w].docker = wk[p][w].docker
<1>1. wk[p][w] \in Work
  BY WorkFields
<1>2. CASE wk[p][w].tries < UpdateRetries
  BY <1>1, <1>2, SetWorkElsewhere DEF Retry, Work
<1>3. CASE ~(wk[p][w].tries < UpdateRetries)
  BY <1>3, EndGoes DEF Retry
<1> QED BY <1>2, <1>3

LEMMA WorkerWorkMoves ==
  ASSUME TypeInv, NEW p \in Procs, NEW w \in Workers, WorkerStep(p, w)
  PROVE  \A q \in Procs, v \in Workers : WorkMove(q, v)
<1> USE DEF TypeInv, TypeOK
<1>1. PICK r : SetWork(p, w, r)
  BY DEF WorkerStep, Take, Mark, Find, CreateInDocker, StartCreated, StartExisting,
     StartInDocker, Cleanup, SyncState, StopInDocker, UpdateRow, RemoveInDocker,
     DeleteRow, Finish, Step, Succeed, Fail, Retry
<1>2. SUFFICES WorkMove(p, w)
  BY <1>1, SetWorkElsewhere DEF WorkMove
<1>3. CASE Take(p, w) \/ Finish(p, w)
  <2>1. r.pc \in {"mark", "take"}
    <3>1. CASE Take(p, w)
      <4>1. wk'[p][w] = [pc |-> "mark", job |-> Head(chan[p]), docker |-> NoDocker,
                         status |-> "Created", tries |-> 1, ok |-> FALSE]
        BY <3>1, SetWorkElsewhere DEF Take
      <4> QED BY <1>1, <4>1, SetWorkElsewhere
    <3>2. CASE Finish(p, w)
      <4>1. wk'[p][w] = Free
        BY <3>2, SetWorkElsewhere DEF Finish
      <4> QED BY <1>1, <4>1, SetWorkElsewhere DEF Free
    <3> QED BY <1>3, <3>1, <3>2
  <2> QED BY <1>1, <2>1, SetWorkElsewhere DEF WorkMove, Synced
<1>5. ASSUME Working(p, w), Succeed(p, w) \/ Fail(p, w) PROVE WorkMove(p, w)
  BY <1>5, EndGoes DEF WorkMove, Synced
<1>6. CASE Mark(p, w) \/ RemoveInDocker(p, w)
  <2>1. Working(p, w)
    BY <1>6 DEF Mark, RemoveInDocker, Working
  <2>2. ASSUME NEW pc \in {"find", "dbdelete"}, Step(p, w, pc) PROVE WorkMove(p, w)
    BY <2>1, <2>2, StepGoes DEF WorkMove, Synced
  <2> QED BY <1>5, <1>6, <2>1, <2>2 DEF Mark, RemoveInDocker
<1>7. CASE Find(p, w)
  <2> DEFINE c == TargetOf(p, w)
             next == AfterFind(TypeOf(p, w), containers[c].docker)
  <2>1. Working(p, w) /\ wk[p][w] \in Work
    BY <1>7, WorkFields DEF Find, Working
  <2>2. CASE /\ Stored(c) /\ next # "fail"
             /\ SetWork(p, w, [wk[p][w] EXCEPT !.pc = next, !.docker = containers[c].docker])
    <3>0. wk'[p][w] = [wk[p][w] EXCEPT !.pc = next, !.docker = containers[c].docker]
      BY <2>2, SetWorkElsewhere
    <3>1. wk'[p][w].pc = next /\ wk'[p][w].docker = containers[c].docker
      BY <2>1, <3>0 DEF Work
    <3>2. TypeOf(p, w) \in JobTypes
      BY <2>1, TargetType DEF TypeOf, JobRow
    <3>3. /\ next \notin Synced
          /\ next = "dstop" => TypeOf(p, w) = "stop"
      BY <3>2 DEF AfterFind, JobTypes, Synced
    <3> QED BY <2>1, <3>1, <3>3 DEF WorkMove
  <2> QED BY <1>5, <1>7, <2>1, <2>2 DEF Find
<1>8. CASE CreateInDocker(p, w)
  <2>1. Working(p, w) /\ wk[p][w] \in Work
    BY <1>8, WorkFields DEF CreateInDocker, Working
  <2>2. ASSUME NEW d, SetWork(p, w, [wk[p][w] EXCEPT !.pc = "cstart", !.docker = d])
        PROVE  WorkMove(p, w)
    <3>1. wk'[p][w] = [wk[p][w] EXCEPT !.pc = "cstart", !.docker = d]
      BY <2>2, SetWorkElsewhere
    <3>2. wk'[p][w].pc = "cstart"
      BY <2>1, <3>1 DEF Work
    <3> QED BY <3>2 DEF WorkMove, Synced
  <2> QED BY <1>5, <1>8, <2>1, <2>2 DEF CreateInDocker
<1>9. CASE StartCreated(p, w) \/ StartExisting(p, w)
  <2>1. Working(p, w)
    BY <1>9 DEF StartCreated, StartExisting, Working
  <2>2. ASSUME InDocker(wk[p][w].docker), Step(p, w, "sync") PROVE WorkMove(p, w)
    BY <2>1, <2>2, StepGoes DEF WorkMove, Synced
  <2>3. ASSUME Step(p, w, "cleanup") PROVE WorkMove(p, w)
    BY <2>1, <2>3, StepGoes DEF WorkMove, Synced
  <2> QED BY <1>5, <1>9, <2>1, <2>2, <2>3 DEF StartCreated, StartExisting, StartInDocker
<1>10. CASE Cleanup(p, w)
  <2>1. Working(p, w)
    BY <1>10 DEF Cleanup, Working
  <2> QED BY <1>5, <1>10, <2>1 DEF Cleanup
<1>11. CASE SyncState(p, w)
  <2>1. Working(p, w) /\ wk[p][w] \in Work /\ wk[p][w].pc \in Synced
    BY <1>11, WorkFields DEF SyncState, Working, Synced
  <2>2. PICK s : SetWork(p, w, [wk[p][w] EXCEPT !.pc = "update", !.status = s])
    BY <1>11 DEF SyncState
  <2>3. wk'[p][w] = [wk[p][w] EXCEPT !.pc = "update", !.status = s]
    BY <2>2, SetWorkElsewhere
  <2>4. wk'[p][w].pc = "update" /\ wk'[p][w].docker = wk[p][w].docker
    BY <2>1, <2>3 DEF Work
  <2> QED BY <2>1, <2>4 DEF WorkMove, Synced
<1>12. CASE StopInDocker(p, w)
  <2>1. Working(p, w) /\ wk[p][w] \in Work
    BY <1>12, WorkFields DEF StopInDocker, Working
  <2>2. CASE /\ InDocker(wk[p][w].docker)
             /\ SetWork(p, w, [wk[p][w] EXCEPT !.pc = "update", !.status = "Exited"])
    <3>1. wk'[p][w] = [wk[p][w] EXCEPT !.pc = "update", !.status = "Exited"]
      BY <2>2, SetWorkElsewhere
    <3>2. wk'[p][w].pc = "update" /\ wk'[p][w].docker = wk[p][w].docker
      BY <2>1, <3>1 DEF Work
    <3> QED BY <2>2, <3>2 DEF WorkMove, Synced
  <2> QED BY <1>5, <1>12, <2>1, <2>2 DEF StopInDocker
<1>13. CASE UpdateRow(p, w) \/ DeleteRow(p, w)
  <2>1. Working(p, w) /\ wk[p][w].pc \in {"update", "dbdelete"}
    BY <1>13 DEF UpdateRow, DeleteRow, Working
  <2>2. ASSUME Retry(p, w) PROVE WorkMove(p, w)
    BY <2>1, <2>2, RetryGoes DEF WorkMove, Synced
  <2> QED BY <1>5, <1>13, <2>1, <2>2 DEF UpdateRow, DeleteRow
<1> QED BY <1>3, <1>6, <1>7, <1>8, <1>9, <1>10, <1>11, <1>12, <1>13 DEF WorkerStep

LEMMA WorkMoves ==
  ASSUME TypeInv, [Next]_vars
  PROVE  \A p \in Procs, w \in Workers : WorkMove(p, w)
<1>1. CASE \E p \in Procs, w \in Workers : WorkerStep(p, w)
  BY <1>1, WorkerWorkMoves
<1>2. CASE UNCHANGED wk
  BY <1>2 DEF WorkMove
<1>3. CASE \E p \in Procs : Crash(p)
  BY <1>3 DEF Crash, WorkMove, Free, Synced, TypeInv, TypeOK, WorkerTypeOK
<1>4. CASE (\E p \in Procs : Recover(p) \/ Boot(p)) \/ Clean \/ Service
  BY <1>2, <1>4 DEF Recover, Boot, Clean, Service
<1>5. CASE DockerEnv \/ UNCHANGED vars
  BY <1>2, <1>5 DEF DockerEnv, vars
<1> QED BY <1>1, <1>3, <1>4, <1>5 DEF Next, Quiescent

-----------------------------------------------------------------------------
(* The row lock excludes.                                                  *)

\* A handler about to commit still holds the lock its guard took.
LockInv == \A h \in Handlers : req[h].pc = "commit" => rowLock[req[h].ctr] = h

\* A row lock after a step: a lock that was held is given up only by a handler
\* that leaves "commit".
LockMove(c) ==
  \/ rowLock'[c] = rowLock[c]
  \/ rowLock[c] = Nobody
  \/ \E h \in Handlers : /\ req[h].pc = "commit" /\ req[h].ctr = c
                         /\ req'[h].pc # "commit"
  \/ /\ rowLock[c] \in Handlers
     /\ req'[rowLock[c]].pc # "commit"

LEMMA LockMoves ==
  ASSUME TypeInv, [Next]_vars
  PROVE  \A c \in ContainerIds : LockMove(c)
<1> USE DEF TypeInv, TypeOK, DBTypeOK, ServiceTypeOK
<1>1. CASE UNCHANGED rowLock
  BY <1>1 DEF LockMove
<1>2. ASSUME NEW h \in Handlers, Guard(h)
      PROVE  \A c \in ContainerIds : LockMove(c)
  BY <1>2 DEF Guard, LockMove
<1>3. ASSUME NEW h \in Handlers, Commit(h)
      PROVE  \A c \in ContainerIds : LockMove(c)
  <2>1. req[h] \in Request /\ req[h].pc = "commit"
    BY <1>3, RequestFields DEF Commit
  <2>2. req'[h].pc # "commit"
    BY <1>3, <2>1 DEF Commit, Goto, Reply, Idle, Request
  <2>3. rowLock' = [rowLock EXCEPT ![req[h].ctr] = Nobody]
    BY <1>3 DEF Commit
  <2> QED BY <2>1, <2>2, <2>3 DEF LockMove
<1>4. CASE \E p \in Procs : Crash(p)
  BY <1>4 DEF Crash, LockMove, Idle
<1>5. CASE Service
  <2>1. PICK h \in Handlers : CreateSave(h) \/ Submit(h) \/ HandlerStep(h)
    BY <1>5 DEF Service
  <2>2. Guard(h) \/ Commit(h) \/ UNCHANGED rowLock
    BY <2>1 DEF HandlerStep, CreateSave, CreateSaveJob, Submit, Lock, Abort, Send, SendTimeout
  <2> QED BY <1>1, <1>2, <1>3, <2>2
<1>6. CASE \E p \in Procs, w \in Workers : WorkerStep(p, w)
  <2>1. PICK p \in Procs, w \in Workers : WorkerStep(p, w)
    BY <1>6
  <2>2. UNCHANGED rowLock
    BY <2>1 DEF WorkerStep, Take, Mark, Find, CreateInDocker, StartCreated, StartExisting,
       StartInDocker, Cleanup, SyncState, StopInDocker, UpdateRow, RemoveInDocker,
       DeleteRow, Finish
  <2> QED BY <1>1, <2>2
<1>7. CASE (\E p \in Procs : Recover(p) \/ Boot(p)) \/ Clean
  BY <1>1, <1>7 DEF Recover, Boot, Clean
<1>8. CASE DockerEnv \/ UNCHANGED vars
  BY <1>1, <1>8 DEF DockerEnv, DockerExit, ManualRemove, vars
<1> QED BY <1>4, <1>5, <1>6, <1>7, <1>8 DEF Next, Quiescent

LEMMA LockInit == Init => LockInv
BY DEF Init, ServiceInit, LockInv, Idle

LEMMA LockNext == TypeInv /\ LockInv /\ [Next]_vars => LockInv'
<1> SUFFICES ASSUME TypeInv, LockInv, [Next]_vars, NEW h \in Handlers, req'[h].pc = "commit"
             PROVE  rowLock'[req'[h].ctr] = h
  BY DEF LockInv
<1>1. CASE req'[h] = req[h]
  <2>1. req[h].pc = "commit" /\ req[h].ctr \in ContainerIds
    BY <1>1, RequestFields DEF TypeInv, TypeOK, Request
  <2>2. rowLock[req[h].ctr] = h /\ LockMove(req[h].ctr)
    BY <2>1, LockMoves DEF LockInv
  <2> QED BY <1>1, <2>1, <2>2, NobodyAssumption DEF LockMove, LockInv
<1>2. CASE req'[h] # req[h]
  BY <1>2, ReqMoves DEF ReqMove, Deciding
<1> QED BY <1>1, <1>2

\* SELECT ... FOR UPDATE makes the guard and the INSERT of the job one step for
\* everybody else: no two requests are between them for one container, in
\* whatever replica they run.
THEOREM RowLockExcludes == Spec => []GuardedExclusively
<1>1. LockInv => GuardedExclusively
  BY DEF LockInv, GuardedExclusively
<1>2. Spec => []LockInv
  BY LockInit, LockNext, TypeCorrect, PTL DEF Spec
<1> QED BY <1>1, <1>2, PTL

-----------------------------------------------------------------------------
(* Jobs belong to the owner of their container.                            *)

\* The user of a request whose guard has accepted owns the container.
RequestOfOwner ==
  \A h \in Handlers :
    req[h].pc \in Deciding =>
      /\ Generated(req[h].ctr)
      /\ containers[req[h].ctr].owner = req[h].user

OwnerInv == RequestOfOwner /\ JobBelongsToOwner

\* Rows never change hands and identifiers are not used again.
LEMMA RowsKeepOwner ==
  ASSUME TypeInv, [Next]_vars, NEW c \in ContainerIds, Generated(c)
  PROVE  Generated(c)' /\ containers'[c].owner = containers[c].owner
<1>1. containers[c] \in ContainerRow
  BY DEF TypeInv, TypeOK, DBTypeOK, Generated, Unused
<1>2. TypeInv'
  BY TypeNext
<1>3. RowMove(c)
  BY RowMoves
<1>4. CASE containers'[c] = [containers[c] EXCEPT !.status = "GONE"]
  BY <1>1, <1>4 DEF ContainerRow, Generated
<1>5. ASSUME NEW p \in Procs, NEW w \in Workers,
             wk[p][w].pc = "update",
             containers'[c] = [containers[c] EXCEPT !.status = wk[p][w].status,
                                                    !.docker = wk[p][w].docker]
      PROVE  Generated(c)' /\ containers'[c].owner = containers[c].owner
  <2>1. wk[p][w] \in Work
    BY <1>5, WorkFields DEF TypeInv, TypeOK, Working
  <2> QED BY <1>1, <1>5, <2>1 DEF ContainerRow, Work, Generated
<1> QED BY <1>3, <1>4, <1>5 DEF RowMove, Generated

LEMMA OwnerInit == Init => OwnerInv
BY DEF Init, ServiceInit, DBInit, OwnerInv, RequestOfOwner, JobBelongsToOwner, Idle, Deciding,
   Unused

LEMMA OwnerNext == TypeInv /\ OwnerInv /\ [Next]_vars => OwnerInv'
<1> SUFFICES ASSUME TypeInv, OwnerInv, [Next]_vars PROVE OwnerInv'
  OBVIOUS
<1>1. ASSUME NEW h \in Handlers, req'[h].pc \in Deciding
      PROVE  containers'[req'[h].ctr].status # "UNUSED" /\ containers'[req'[h].ctr].owner = req'[h].user
  <2>1. CASE req'[h] = req[h]
    <3>1. req[h].ctr \in ContainerIds
      BY <1>1, <2>1, RequestFields DEF TypeInv, TypeOK, Request, Deciding
    <3>2. Generated(req[h].ctr) /\ containers[req[h].ctr].owner = req[h].user
      BY <1>1, <2>1 DEF OwnerInv, RequestOfOwner
    <3> QED BY <2>1, <3>1, <3>2, RowsKeepOwner DEF Generated
  <2>2. CASE /\ req'[h].ctr \in ContainerIds
             /\ containers'[req'[h].ctr].status = "Created"
             /\ containers'[req'[h].ctr].owner = req'[h].user
    BY <2>2 DEF Generated
  <2>3. CASE /\ req'[h].ctr \in ContainerIds
             /\ Accepts(req'[h].op, req'[h].user, req'[h].ctr)
    BY <2>3, RowsKeepOwner DEF Accepts, Stored, Generated
  <2> QED BY <1>1, <2>1, <2>2, <2>3, ReqMoves DEF ReqMove
<1>2. ASSUME NEW j \in JobIds, jobs'[j].status # "UNUSED"
      PROVE  /\ containers'[jobs'[j].target].status # "UNUSED"
             /\ containers'[jobs'[j].target].owner = jobs'[j].user
  <2>1. CASE jobs'[j] = jobs[j] \/ /\ jobs[j].status # "UNUSED"
                                   /\ jobs'[j].target = jobs[j].target
                                   /\ jobs'[j].user = jobs[j].user
    <3>1. jobs[j].status # "UNUSED" /\ jobs[j].target \in ContainerIds
      BY <1>2, <2>1 DEF TypeInv, TypeOK, DBTypeOK, JobRow, Unused
    <3>2. /\ Generated(jobs[j].target)
          /\ containers[jobs[j].target].owner = jobs[j].user
      BY <3>1 DEF OwnerInv, JobBelongsToOwner
    <3> QED BY <2>1, <3>1, <3>2, RowsKeepOwner DEF Generated
  <2>2. ASSUME NEW h \in Handlers, req[h].pc \in Deciding,
               jobs'[j].target = req[h].ctr, jobs'[j].user = req[h].user
        PROVE  /\ containers'[jobs'[j].target].status # "UNUSED"
               /\ containers'[jobs'[j].target].owner = jobs'[j].user
    <3>1. req[h].ctr \in ContainerIds
      BY <2>2, RequestFields DEF TypeInv, TypeOK, Request, Deciding
    <3>2. Generated(req[h].ctr) /\ containers[req[h].ctr].owner = req[h].user
      BY <2>2 DEF OwnerInv, RequestOfOwner
    <3> QED BY <2>2, <3>1, <3>2, RowsKeepOwner DEF Generated
  <2> QED BY <2>1, <2>2, JobMoves DEF JobMove, Deciding
<1> QED BY <1>1, <1>2 DEF OwnerInv, RequestOfOwner, JobBelongsToOwner, Generated

\* The owner check of a guard is still true of the job a worker runs later, which
\* checks nothing: no job acts for a user on a container of another one.
THEOREM OwnersJobsOnly == Spec => []JobBelongsToOwner
<1>1. OwnerInv => JobBelongsToOwner
  BY DEF OwnerInv
<1>2. Spec => []OwnerInv
  BY OwnerInit, OwnerNext, TypeCorrect, PTL DEF Spec
<1> QED BY <1>1, <1>2, PTL

-----------------------------------------------------------------------------
(* Stop always has a Docker id.                                            *)

HasDocker(c) == Generated(c) /\ containers[c].docker \in DockerIds

\* The path a Docker id takes from a running container to the stop: the row, the
\* guard that saw Running, the job, the worker's copy.  The lock plays no part,
\* because a row never loses its Docker id.
RowsHaveDocker == \A c \in ContainerIds : containers[c].status \in {"Running", "Exited"} => HasDocker(c)
SyncedHaveDocker == \A p \in Procs, w \in Workers : wk[p][w].pc \in Synced => wk[p][w].docker \in DockerIds
RequestsHaveDocker == \A h \in Handlers : req[h].pc \in Deciding /\ req[h].op = "stop" => HasDocker(req[h].ctr)
StopsHaveDocker == \A j \in JobIds : jobs[j].status # "UNUSED" /\ jobs[j].type = "stop" => HasDocker(jobs[j].target)

DockerIdInv == /\ RowsHaveDocker
               /\ SyncedHaveDocker
               /\ RequestsHaveDocker
               /\ StopsHaveDocker
               /\ StopHasDockerId

LEMMA DockerIdInit == Init => DockerIdInv
BY DEF Init, DBInit, ServiceInit, WorkerInit, DockerIdInv, RowsHaveDocker, SyncedHaveDocker,
   RequestsHaveDocker, StopsHaveDocker, StopHasDockerId, Unused, Idle, Free, Synced, Deciding

\* A worker that writes a row writes the id Docker has just acted on.
LEMMA RowsKeepDocker ==
  ASSUME TypeInv, SyncedHaveDocker, [Next]_vars, NEW c \in ContainerIds
  PROVE  /\ HasDocker(c) => containers'[c].status # "UNUSED" /\ containers'[c].docker \in DockerIds
         /\ \/ containers'[c] = containers[c]
            \/ containers'[c].status \in {"Created", "GONE"}
            \/ containers'[c].status # "UNUSED" /\ containers'[c].docker \in DockerIds
<1>1. containers[c] \in ContainerRow \cup {Unused}
  BY DEF TypeInv, TypeOK, DBTypeOK
<1>2. Generated(c) => containers[c] \in ContainerRow
  BY <1>1 DEF Generated, Unused
<1>3. RowMove(c)
  BY RowMoves
<1>4. CASE Generated(c) /\ containers'[c] = [containers[c] EXCEPT !.status = "GONE"]
  BY <1>2, <1>4 DEF ContainerRow, HasDocker
<1>5. ASSUME NEW p \in Procs, NEW w \in Workers,
             wk[p][w].pc = "update", Generated(c),
             containers'[c] = [containers[c] EXCEPT !.status = wk[p][w].status,
                                                    !.docker = wk[p][w].docker]
      PROVE  containers'[c].status # "UNUSED" /\ containers'[c].docker \in DockerIds
  <2>1. wk[p][w] \in Work
    BY <1>5, WorkFields DEF TypeInv, TypeOK, Working
  <2>2. wk[p][w].docker \in DockerIds
    BY <1>5 DEF SyncedHaveDocker, Synced
  <2> QED BY <1>2, <1>5, <2>1, <2>2 DEF ContainerRow, Work
<1> QED BY <1>3, <1>4, <1>5 DEF RowMove, HasDocker, Generated

LEMMA DockerIdNext == TypeInv /\ DockerIdInv /\ [Next]_vars => DockerIdInv'
<1> SUFFICES ASSUME TypeInv, DockerIdInv, [Next]_vars PROVE DockerIdInv'
  OBVIOUS
<1> DEFINE Has2(c) == containers'[c].status # "UNUSED" /\ containers'[c].docker \in DockerIds
<1>1. ASSUME NEW c \in ContainerIds, HasDocker(c) PROVE Has2(c)
  BY <1>1, RowsKeepDocker DEF DockerIdInv
<1>2. ASSUME NEW c \in ContainerIds, containers'[c].status \in {"Running", "Exited"}
      PROVE  Has2(c)
  BY <1>1, <1>2, RowsKeepDocker DEF DockerIdInv, RowsHaveDocker
<1>3. ASSUME NEW p \in Procs, NEW w \in Workers, wk'[p][w].pc \in Synced
      PROVE  wk'[p][w].docker \in DockerIds
  BY <1>3, WorkMoves DEF WorkMove, DockerIdInv, SyncedHaveDocker, InDocker, Synced
<1>4. ASSUME NEW h \in Handlers, req'[h].pc \in Deciding, req'[h].op = "stop"
      PROVE  Has2(req'[h].ctr)
  <2>1. CASE req'[h] = req[h]
    <3>1. req[h].ctr \in ContainerIds
      BY <1>4, <2>1, RequestFields DEF TypeInv, TypeOK, Request, Deciding
    <3>2. HasDocker(req[h].ctr)
      BY <1>4, <2>1 DEF DockerIdInv, RequestsHaveDocker
    <3> QED BY <1>1, <2>1, <3>1, <3>2
  <2>2. CASE /\ req'[h].ctr \in ContainerIds
             /\ Accepts(req'[h].op, req'[h].user, req'[h].ctr)
    <3>1. containers[req'[h].ctr].status = "Running"
      BY <1>4, <2>2 DEF Accepts, StatusAllows
    <3> QED BY <1>1, <2>2, <3>1 DEF DockerIdInv, RowsHaveDocker
  <2> QED BY <1>4, <2>1, <2>2, ReqMoves DEF ReqMove
<1>5. ASSUME NEW j \in JobIds, jobs'[j].status # "UNUSED", jobs'[j].type = "stop"
      PROVE  Has2(jobs'[j].target)
  <2>1. CASE jobs'[j] = jobs[j] \/ /\ jobs[j].status # "UNUSED"
                                   /\ jobs'[j].type = jobs[j].type
                                   /\ jobs'[j].target = jobs[j].target
    <3>1. jobs[j].status # "UNUSED" /\ jobs[j].target \in ContainerIds
      BY <1>5, <2>1 DEF TypeInv, TypeOK, DBTypeOK, JobRow, Unused
    <3>2. HasDocker(jobs[j].target)
      BY <1>5, <2>1, <3>1 DEF DockerIdInv, StopsHaveDocker
    <3> QED BY <1>1, <2>1, <3>1, <3>2
  <2>2. ASSUME NEW h \in Handlers, req[h].pc \in Deciding, req[h].op = "stop",
               jobs'[j].target = req[h].ctr
        PROVE  Has2(jobs'[j].target)
    <3>1. req[h].ctr \in ContainerIds
      BY <2>2, RequestFields DEF TypeInv, TypeOK, Request, Deciding
    <3>2. HasDocker(req[h].ctr)
      BY <2>2 DEF DockerIdInv, RequestsHaveDocker
    <3> QED BY <1>1, <2>2, <3>1, <3>2
  <2> QED BY <1>5, <2>1, <2>2, JobMoves DEF JobMove, Deciding
<1>6. ASSUME NEW p \in Procs, NEW w \in Workers, wk'[p][w].pc = "dstop"
      PROVE  wk'[p][w].docker \in DockerIds
  <2>1. CASE wk'[p][w] = wk[p][w]
    BY <1>6, <2>1 DEF DockerIdInv, StopHasDockerId
  <2>2. CASE /\ Working(p, w) /\ TypeOf(p, w) = "stop"
             /\ wk'[p][w].docker = containers[TargetOf(p, w)].docker
    <3>1. wk[p][w].job \in JobIds /\ jobs[wk[p][w].job] \in JobRow
      BY <2>2, TargetType
    <3>2. HasDocker(TargetOf(p, w))
      BY <2>2, <3>1 DEF DockerIdInv, StopsHaveDocker, JobRow, TypeOf, TargetOf, Active, Terminal
    <3> QED BY <2>2, <3>2 DEF HasDocker
  <2> QED BY <1>6, <2>1, <2>2, WorkMoves DEF WorkMove, Synced
<1> QED BY <1>2, <1>3, <1>4, <1>5, <1>6 DEF DockerIdInv, RowsHaveDocker, SyncedHaveDocker,
        RequestsHaveDocker, StopsHaveDocker, StopHasDockerId, HasDocker, Generated

\* processStop passes the Docker id of the row on without the check processStart
\* and processDelete make; it is never empty.
THEOREM StopIsSafe == Spec => []StopHasDockerId
<1>1. DockerIdInv => StopHasDockerId
  BY DEF DockerIdInv
<1>2. Spec => []DockerIdInv
  BY DockerIdInit, DockerIdNext, TypeCorrect, PTL DEF Spec
<1> QED BY <1>1, <1>2, PTL
=============================================================================
