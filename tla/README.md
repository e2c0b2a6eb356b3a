# Verification of Go Container Manager

A formal model of the service in `src/`: a REST API that creates, starts, stops
and deletes Docker containers for its users. Each request writes a *job* to
PostgreSQL and hands it to a pool of workers over a Go channel; the worker
carries it out against Docker and writes the result back. The TLA+ modules here
describe that path step by step, with the start-up and the shutdown of the
processes, the files and the paged lists beside it. TLC checks them on small
instances, and TLAPS proves the central safety properties for every instance, up
to the theorems that the service, and its store of files, implement abstract
specifications of what they promise.

## 1. The system

```
 HTTP clients
    |            internal/handler, middleware: token, body limit, JSON
    v
 ContainerService --- mutex per container ---+        FileService --- disk
    |   \  transaction + SELECT ... FOR UPDATE           |
    |    \-------------> PostgreSQL  <-------------------+
    | jobChan (100)        users, containers, jobs, files
    v                       ^        ^
 Worker pool (4) -----------+        | hourly
    |                             JobCleaner
    v
 Docker daemon
```

`app/handler.go` puts these together at start-up; `cmd/server/main.go` serves
and shuts down.

### Components

| Component (source) | State | Operations | What is hard | What makes it correct |
| --- | --- | --- | --- | --- |
| **ContainerService** (`internal/service/container_svc.go`) | `containerMu` (mutex per container), the open transaction, `jobChan` | Create, Start, Stop, Delete; List and Get read | the guard's two reads and the insert against other requests and replicas; Create has no guard; a full channel after the commit | one guarded job per container; jobs only for the owner; every request answered |
| **Worker pool** (`internal/service/worker.go`) | a job and a copy of the container row per goroutine | process: create, start, stop, delete; retries of the row's update and delete | slow Docker calls between the read and the write of the row; each step may fail; the last update's error is only logged | two workers never on one container; results final; table and Docker agree |
| **Repositories** (`internal/repository/postgres`) | tables `containers`, `jobs`, `files`, `users` | one statement each; `WithTx` | lost replies, row locks, an ambiguous COMMIT | statements atomic, locks held to the end of the transaction |
| **Docker adapter** (`internal/repository/docker`) | the daemon's containers | create+start, start, stop, remove, wait, inspect | half-done create+start; containers that end or are removed behind the service's back | no container nobody records |
| **Start-up** (`app/handler.go`) | - | fail RUNNING jobs, re-enqueue PENDING jobs, start workers | what a crash lost; the channel's capacity; a second live replica | every job held once and brought to an end |
| **JobCleaner** (`internal/service/job_cleaner.go`) | a ticker | delete finished jobs after 7 days; Stop | goes by `completed_at` | touches no job under way, reaches every finished one |
| **FileService** (`internal/service/file_svc.go`) | `fileMu`, files on disk | Upload, Delete; List reads | disk and table are two stores with no common transaction | no row without a file |
| **Shutdown** (`cmd/server/main.go`, `App.Stop`) | signal goroutine, `quit`, `WaitGroup` | Shutdown, worker.Stop, jobCleaner.Stop | `main` returns while the signal goroutine still drains the workers; the 10 s of Shutdown against the 10 s of a full channel; a `select` that may prefer jobs to `quit` | handlers end before workers, workers before the process; it comes to an end; what it leaves is finished by the next start |
| **HTTP layer** (`internal/handler`) | none | bind, call the service, render | body limit against file limit | every accepted request answered |
| **Pagination** (`List`, `FindByUserID`) | none of its own; a client's walk through the pages | COUNT, then SELECT ... LIMIT OFFSET | overflow of `(page-1)*limit`; two statements without a transaction; rows that come and go between pages; ties of `created_at` | a page holds the rows it should; a walk misses or repeats none, as far as OFFSET allows |
| **Authentication, logging, errors** | none | token check, logs, error values | - | - |

A job's life: `PENDING` (inserted) -> `RUNNING` (a worker marked it) ->
`SUCCESS` or `FAILED`; recovery turns `RUNNING` into `FAILED`; the cleaner
deletes finished rows.

## 2. The modules

The modules of the containers extend each other, from the tables up to the whole
system and its shutdown:

```
Environment <- ContainerDB <- DockerRuntime <- ContainerService <- Worker
  <- ContainerManager <- ManagerProperties <- AppLifecycle
                                           <- ManagerRefinement -- INSTANCE --> ContainerJobs
Environment <- FileStore <- FileRefinement -- INSTANCE --> FileLibrary
```

`FileStore` and `Listing` stand apart: files share nothing with containers but the
database and the folder that the containers of a user mount, and a list only reads.

| Module | Models | State |
| --- | --- | --- |
| `Environment` | what may go wrong, with a budget for each: faults, crashes, manual removals, clean-ups | `spent` |
| `ContainerDB` | the statements of the container and job repositories; row locks | `containers`, `jobs`, `rowLock` |
| `DockerRuntime` | the daemon as the adapter uses it (external), commands that end, `docker rm -f` | `docker` |
| `ContainerService` | Create, Start, Stop, Delete, one step per statement, lock or channel operation | `phase`, `req`, `mutex`, `chan` |
| `Worker` | `process` for the four job types, one step per database or Docker call | `wk` |
| `ContainerManager` | start-up, crash, clean-up, `Next` | - |
| `ManagerProperties` | the properties | - |
| `ContainerJobs` | abstract: containers change by jobs, one at a time | `status`, `job`, `executing`, `done` |
| `ManagerRefinement` | the mapping from `ContainerManager` to `ContainerJobs` | - |
| `AppLifecycle` | `ContainerManager` with signals, Shutdown, App.Stop and the return of `main` | `stage`, `accepted`, `pool` |
| `FileStore` | Upload and Delete of `file_svc.go` as steps on disk and table, crashes, workloads that remove a file | `files`, `rowLock`, `disk`, `fileMu`, `req` |
| `FileLibrary` | abstract: a file comes by one upload and goes by one delete of its owner | `entry`, `content`, `request` |
| `FileRefinement` | the mapping from `FileStore` to `FileLibrary` | - |
| `Listing` | the paged lists of containers and of files, a client that walks through the pages, inserts and deletes beside it | `created`, `used`, `list` |
| `MCContainerManager`, `MCAppLifecycle`, `MCFileStore`, `MCListing` | symmetry sets and bounds for TLC | - |
| `ContainerManagerProofs` | proofs of type correctness and of what holds in any environment | - |
| `JobProofs` | proofs of where a job is in memory, that it is not lost, of its result, and that jobs on a container exclude each other | - |
| `ManagerRefinementProofs` | proof that `ContainerManager` implements `ContainerJobs` | - |
| `DockerAgreementProofs` | proofs that workers act for the owner of what they act on, and that table and Docker agree when nothing fails | - |
| `AppLifecycleProofs` | proofs about shutdowns, and that `AppLifecycle` implements `ContainerManager` | - |
| `ContainerJobsProofs` | what follows from the abstract specification | - |
| `FileStoreProofs` | proofs of every property of files, that `FileStore` implements `FileLibrary`, and what follows from `FileLibrary` | - |
| `ListingProofs` | proofs of every property of lists | - |

How the state corresponds to the code:

- `containers[c]`, `jobs[j]`: the rows. `"UNUSED"` is a UUID not yet generated,
  `"GONE"` a deleted row; neither is ever returned by a query. Of a job's row the
  status, type, target, user and "is `completed_at` set" are kept. `Paused` and
  `Dead`, which no code writes, are left out.
- `rowLock[c]`: the open transaction of a handler that holds `FOR UPDATE`.
- `req[h]`: the program counter and local variables of the request on connection
  `h`. `"lock"`: before `mu.Lock()`; `"guard"`: before BEGIN; `"commit"`: guard
  accepted; `"aborted"`: the guard's second query failed, which the code takes for "no
  job", and the INSERT is still to come; `"savejob"`: Create between its two INSERTs;
  `"send"`: in `sendJob`.
- `mutex[p][c]`: `containerMu` of process `p`; `chan[p]`: its `jobChan`.
- `wk[p][w]`: a goroutine of the pool: its next step, its job, and of its copy
  of the row the Docker id and the status it will write.
- `phase[p]`: `down`, `recovered` (after `MarkRunningAsFailed`), `up`.

In `FileStore`, `files[f]` and `disk[f]` are the row and the file of one id:
a file is `"partial"` after a write that failed or was cut short by a crash and
`"lost"` when a workload removed it (`Delete` tolerates that). `req[h].pc` names the
call about to be made: `write`, `save`, `cleanup` in Upload, `lock`, `guard`,
`commit`, `remove` in Delete. An ended request keeps its answer, `ok` or `failed`, so
that properties can speak of what clients were told.

In `AppLifecycle`, `stage[p]` is how far the signal goroutine of `main.go` is:
`serving` (waits for a signal), `closing` (in `srv.Shutdown`), `draining` (in
`wg.Wait` of `worker.Stop`), `cleaner` (in `jobCleaner.Stop`), `stopped` (`App.Stop`
has returned); of a process that is down it keeps the way it ended (`returned`,
`timeout`, `killed`). `accepted[p]` are connections the listener accepted before it
closed, each good for one more request, and `pool[p]` the workers that have not yet
received `quit`. Its actions are those of `ContainerManager`, each under the condition
that the stage allows it, and the steps of the shutdown.

In `Listing`, `created[r]` is the `created_at` of a stored row (0: no row), `used` the
rows that were ever inserted, `list` the request under way and the walk it is part of.
`Page`, `Limit` and `Offset` are the corrections of `List` and the multiplication of
`FindByUserID` in integers from `MinInt` to `MaxInt` (`Wrap` is the overflow of Go's `int`);
the two statements are `Count` and `Select`, with other requests in between, and rows
of the same `created_at` come in any order, perhaps another one in each query.

In `ContainerJobs`, `status[c]` is what the row of a container says, `job[j]` the row
of a job, `executing` the jobs that are being carried out, and `done` those of them
whose change has been acknowledged. `ManagerRefinement` maps a job to `executing` from
the moment a worker takes it from the channel to the end of `process`, and to `done`
when its worker has reached that end without an error; locks, channels, copies of
rows, Docker and processes disappear.

In `FileLibrary`, `entry[f]` is what the list says of a file, `content[f]` what storage
has of it and `request[h]` what the client of connection `h` asked and was told.
`FileRefinement` maps a request to `"done"` when its row was inserted or its deletion
committed, although the code may learn an error and answer `"failed"`; mutexes,
transactions, replicas and the steps before the effect disappear.

An action is what happens up to and including one call to the database, Docker,
a mutex or a channel, so that every interleaving of requests, workers and
replicas at those calls is explored. A call can succeed, fail without effect, or
take effect and lose its reply (`Fault`, with a budget).

Operators described as a *mutant* of a definition (`AcceptsBusy`,
`GuardWithoutRowLock`, ...) are bugs the code does not have. No specification
uses them: each one, put in the place of the definition it names, makes one
property fail, which shows that the property depends on that piece of code.

### Abstractions

- The guard's `SELECT ... FOR UPDATE` and its query of `jobs` are one step. The
  container row cannot change between them, and a job inserted between them is
  by a Create, which takes no lock: waiting for the lock a little longer gives
  the same result. That the second may fail and read as "no job" is an
  alternative of the step (`Guard` to `"aborted"`, then `Abort`): only PostgreSQL, which
  fails the INSERT of an aborted transaction, then keeps the handler from a second job.
- `WaitExit` and `InspectState` are one step with every answer the two can give
  together.
- Re-enqueued jobs come in any order. When `FindPendingJobs` fails on the way, start-up
  drops the error and enqueues what it has read: any part of the PENDING jobs. `created_at` is set by the handlers before
  they wait for locks, so it does not follow the order of insertion.
- A clean-up may find any finished job with a `completed_at` past 7 days:
  nothing else in the model measures time. The 10 s of `Shutdown` and of `sendJob`
  are a step that may be taken at any time.
- A statement that was in flight when its process died has either taken effect
  (the action, then the crash) or not (the crash alone).
- Status codes, names of images, commands, directories, Get and the environment
  whitelist are left out. The transaction manager is
  always present, as in `app`.
- A request is sent for a container id a client can know. In Create the 202
  reply carries the job, not the container; a client that lists containers sees
  the row before the reply. `EarlyAccess` says whether clients do that.
- `LateBoot` says whether requests come while some replica has yet to start.

## 3. Runs

The runs are of `MCContainerManager`; `full_channel`, `shutdown` and `v_shutdown` are of
`MCAppLifecycle`, `files` of `MCFileStore` and `listing` of `MCListing`. The bounds are
in the `.cfg`.

| Run | Instance | Checks | Shows |
| --- | --- | --- | --- |
| `lifecycle` | 1 process, 2 workers, 2 clients, 2 users, 1 container id, 4 jobs, 1 removal, 1 clean-up | JobBelongsToOwner, NoOrphanDocker, RunningIsRecorded, DeleteSucceedsFully, DeletesOnlyStopped | without faults, table, Docker and results agree |
| `faults` | 1 process, 3 jobs, 2 Docker ids, 2 faults, 1 crash, 1 clean-up | TypeOK, StopHasDockerId, HeldOnce, HeldIsActive, OneActiveJob, WorkersApart, ResultsAreFinal, ImplementsJobs | faults and a restart never run a job twice or two jobs at once, and do nothing the abstract specification forbids |
| `replicas` | 2 processes, 1 worker each, 2 users, 2 container ids, 3 jobs, 1 fault, `EarlyAccess` | OneActiveGuardedJob, WorksForOwner | the row lock does what the mutexes of two processes cannot; no order of jobs, in either replica, makes a worker touch another user's Docker container |
| `full_channel` | `FairAppSpec`, 1 process, 2 workers, 2 connections, 3 jobs, channel of 1, `EarlyAccess`, 1 end of the process | RequestsEnd, ShutdownEnds | every request and every shutdown comes to an end, also when handlers wait for room in the channel and others for their mutex |
| `shutdown` | `FairAppSpec`, 1 process, 2 workers, 2 connections, 3 jobs, 1 end of the process (by signal or crash), 1 removal, 1 clean-up | StoppedIsIdle, ActiveIsHeld, JobsEnd | a shutdown that is let finish leaves nothing at work; no job is lost and every job ends, whatever way the process went |
| `files` | 2 users, 2 files, 2 requests, 2 replicas, 2 faults, 1 crash, 1 removal by a workload | TypeOK, RowHasFile, NoStrayFile, DeletesOnce, AnswersHold, OnlyOwnersDelete, ImplementsLibrary | the order write-insert and commit-remove keeps disk and table together; clients are told the truth, and see nothing the abstract specification forbids |
| `listing` | 3 rows, 3 values of `created_at`, default limit 1, cap 2, integers of 4 bits (`MaxInt` 7), any page, limits 0 to 3 | TypeOK, PageIsRight, NothingMissed, NothingTwice | pages have the rows they should, each in its place, for any parameters that do not overflow; a walk misses nothing among inserts and repeats nothing among deletes |
| `v_early_delete` | `EarlyAccess` | DeleteSucceedsFully *(violated)* | finding 1 |
| `v_completed_at` | 1 crash | FinishedHasCompletedAt *(violated)* | finding 2 |
| `v_full_channel` | channel of 1 | PendingIsHeld *(violated)* | finding 3 |
| `v_late_replica` | 2 processes, `LateBoot` | WorkersApart *(violated)* | finding 4 |
| `v_shutdown` | 1 shutdown | ExitCompletesJobs *(violated)* | finding 5 |

**Why the bounds are enough to be interesting.** One container id suffices for
what happens between operations on one container, since containers share only the
channel and the pool; a second is used where a worker could mistake one container for
another (`replicas`). Three or
four jobs allow create, start, stop and delete of it, and one operation racing
another at each stage. Two clients and two workers give each lock a waiter. Two
faults reach a failed step followed by a failed clean-up or a failed result; with
one crash both the recovery and the work after it are reached. Of files, two
requests are what a race needs, and the second file lets an upload run beside a
delete. In `shutdown` the one end of the process may be a signal at any moment, and
three jobs leave some in the channel, some with workers and one with a handler that
still has to send it. In `full_channel` the one place fills while both workers are busy:
`EarlyAccess` lets a start or a delete follow its create into a full channel, so that a
handler waits for room while it holds the mutex another waits for, and the signal may
come then. In `listing` three rows and limits of 1 and 2 give full, partial,
empty and one-past pages, both corrections of the limit, and a row that comes or goes
before, in and after the page being read; integers of 4 bits let every page number be
tried and the product overflow to either sign. The safety runs use symmetry where
values are interchangeable: users, connections and workers of the container runs; users,
files, connections and replicas in `files`; rows in `listing`. The liveness runs do
not.

**When a run stops.** A state in which every identifier is used up and nothing is
under way may only repeat itself (`Quiescent`); every other state without a
successor is reported as a deadlock, which is checked in all runs.

**Environment of each property.** NoOrphanDocker, RunningIsRecorded and
DeleteSucceedsFully are checked without faults and with `EarlyAccess` off. A
`ContainerCreate` whose reply is lost leaves a container the service does not
know, and so does a crash between it and the update of the row; no document
promises otherwise, and a start-up scan of Docker does not exist in the code.
HeldOnce, HeldIsActive, ResultsAreFinal, OneActiveJob, WorkersApart and ImplementsJobs
are properties of one process: when a replica starts beside a live one, finding 4 breaks
them. OneActiveJob, WorkersApart, DeletesOnlyStopped and ImplementsJobs also need
`EarlyAccess` to be off, because of finding 1. With several replicas OneActiveGuardedJob
is checked where all have started before the first request and none crashes, because of
finding 4 again; WorksForOwner holds in any environment and is checked there because
one container may then have jobs in two replicas.
ActiveIsHeld is checked without faults and with a channel that has room for every job, as
JobsEnd is (below); JobBelongsToOwner and StopHasDockerId hold in any environment.
RowHasFile is stated without faults, because an INSERT that takes effect but
returns an error makes Upload remove the file of a stored row; NoStrayFile without
faults and crashes, because a crash between the two stores leaves a file no row
names (nothing in the code looks for such files). The other properties of files hold
with both. PageIsRight speaks of the table the SELECT met, also when it changed after the
COUNT; only `total` is left out then. NothingMissed leaves out deletes and NothingTwice inserts during the walk, and both
leave out equal `created_at`: with them OFFSET really shifts or reshuffles the pages.

### Fairness

`FairAppSpec` assumes that start-up, workers and the signal goroutine go on (weak
fairness: a goroutine that can run does, calls return) and that a handler that can go on
again and again does (strong fairness: `sync.Mutex`, PostgreSQL's row locks and a
channel's senders all serve waiters in order). `Recover` is fair: a process that died is
started again by whoever operates it. Nothing is assumed of clients, of the commands in
containers, or of faults.

`WorkerQuits` is only weakly fair although the `select` of `run` chooses at random
between `quit` and a job: handlers have ended by then, so the channel runs empty and
`quit` is all that is left. In `closing` no connection accepts requests without end
(`accepted` bounds what may still arrive). `main` is only known to return in the end
(`MainReturns` is fair once `stopped`), and nothing makes the 10 s of `Shutdown` short:
`ShutdownTimeout` is not fair, and ShutdownEnds does not need it. A handler in `sendJob`
goes on one way or the other: a worker makes room, or its 10 s are over (`SendTimeout` is
one of the steps of `Serve`). A signal reserves what the end of its process will take of
the budget of crashes (`Reserved`), so that the budget never stops a process from ending.

JobsEnd is checked without faults and with a channel that has room for every job: when
the last update of a job fails, which `process` only logs, the job stays RUNNING until
a restart, and with a full channel (finding 3) it stays PENDING.

## 4. Findings

Each is a disagreement between the code and what a document or test of the
repository says; the quotations are in `PROJECT.json`.

1. **Delete before Create's job.** Create inserts the container and its job in two
   statements with no lock. A Delete in between is accepted; its worker finds no
   Docker id and deletes the row while the create job starts a container.
2. **No `completed_at` after recovery.** `MarkRunningAsFailed` leaves it NULL, so
   the retention never removes these jobs.
3. **503 leaves a PENDING job.** When `sendJob` gives up the row stays. Nothing
   runs it before a restart and the container answers 409 meanwhile. Re-enqueuing at
   start-up (`app/handler.go:122`) leaves jobs the same way when the table has more
   PENDING jobs than the channel has room, since no worker runs yet.
4. **A starting replica takes over live jobs.** Start-up fails every RUNNING job
   and re-enqueues every PENDING one, whichever replica holds it.
5. **main does not wait for the shutdown.** `ListenAndServe` returns as soon as
   `Shutdown` begins, then `main` does (`main.go:44`) and the process ends; the
   goroutine that waits for handlers and workers is cut off, and with it the running
   jobs that ADR 015 wants completed (`spec/ADR.md:168`). The next start fails them.

Not findings, but worth knowing. A Running container that Docker has lost is stuck: Stop
fails on 404 and leaves the row Running, and Start and Delete are refused for a Running
row. A page number near the end of `int` overflows the offset and is answered 500,
where `spec/api.md` promises an empty list for pages past the last; PageIsRight says
for which pages it keeps that promise.

## 5. Proofs

The theorems about containers are about `Spec`, with faults, crashes, removals and
clean-ups, for any number of containers, users, jobs, connections, workers and
processes. The modules assume only that `Cap` is a positive natural number, the budgets
are natural numbers, `NoDocker` and `Nobody` are no real values, and `JobIds` is finite
(a running system has made finitely many jobs; `Cardinality` of the PENDING jobs has to
be a number).

**In any environment** (replicas started at any time, early access or not):

- **TypeCorrect, TypeSafe** (`ContainerManagerProofs`). `TypeOK` alone is not
  inductive: a worker's target is looked up in the job's row, which an UNUSED row
  does not have. `JobsKnown` adds that what is in a channel, at a worker or about
  to be sent is a row of the table, which holds because the code inserts before
  it sends. One lemma per action; the lemmas at the top treat what many actions
  share (a reply, a worker that moves on).
- **RowLockExcludes**: no two requests are between
  the guard and the end of its transaction for one container. Inductive invariant
  `LockInv`: a handler at `"commit"` holds the row lock.
- **OwnersJobsOnly**: no job acts for a user on another user's container. The
  worker checks nothing, so the invariant `OwnerInv` follows the owner check from
  the guard's read over the request at `"commit"` to the job; it rests on rows
  never changing hands (`RowsKeepOwner`).
- **StopIsSafe**: `ContainerStop` is never called with an empty id although
  `processStop` does not check. `DockerIdInv` follows the id from Docker to the
  worker's copy, the row, the guard that saw Running, the stop job and the next
  worker's copy.

- **ActsForOwner** (`DockerAgreementProofs`): WorksForOwner. A worker never looks at
  users, and what it starts, stops or removes is the Docker id of the copy it read. The
  copy and every row name Docker containers that carry the row's id (`NamesFit`), which
  needs that a row is new when its Create still has a request (`ClaimsInv`); with
  OwnersJobsOnly the name is the user's.

RowLockExcludes, OwnersJobsOnly and StopIsSafe rest on four lemmas that say what one step of
the system may do to a container row (`RowMoves`), a job row (`JobMoves`), a request
(`ReqMoves`) and a worker (`WorkMoves`); each is proved once, by a case for every
action.

**With one process, restarted at will, or several that all start before the first
request and do not crash** (`Sole`, stated in `JobProofs`; finding 4 is why it is
needed). Each invariant below rests on those before it.

- **OnePlace, HeldJobsActive, ResultsStay** (`JobProofs`): HeldOnce,
  HeldIsActive, ResultsAreFinal. `PlacesInv` says of every place a job can be in memory
  (a handler before its INSERT, one that sends, a slot of a channel, a worker) what the
  table says of the job, and that no two places have the same job. A restart fills
  the channel from the table, which is only right because nothing is in memory
  then: `StartInv`. One lemma says what a step does to handlers, channels, workers and
  rows (`JobSteps`); one lemma for each kind of step then keeps `PlacesInv`.
- **NoJobIsLost**: ActiveIsHeld, when no call fails (`MaxFaults = 0`:
  each way to lose a job that the code has by a failed call is a hazard of its own) and
  the PENDING jobs never outnumber the channel's places (finding 3), for any crashes and
  restarts. A handler that sends finds room, since what is queued is PENDING, each job
  once, and its own job is one more (`RoomToSend`, the pigeonhole principle from
  `PlacesInv`); a start puts every PENDING job in the channel (`RequeuesAll`), and nothing
  is RUNNING at that moment (`RecoveredInv`), so the two queries of start-up together miss
  no job.
- **OneGuardedJob**: OneActiveGuardedJob, with or without early
  access. `GuardInv`: while a handler is at `"commit"` there is no guarded job under way
  for its container. Only another handler at `"commit"` could insert one, and
  RowLockExcludes says there is none.
- **OneJob, OneWorker**: OneActiveJob and WorkersApart, without early access
  (`AloneInv`). Create has no guard; what protects its job is that nobody knows the
  container yet. The proof follows that from the generation of the id to the insert
  of the job.
- **StoppedFirst** (`ManagerRefinementProofs`): DeletesOnlyStopped. `FitInv`: the
  status the guard accepted a job in is still one the job starts from when its worker
  writes the row, however many steps later.
- **ServiceRefines**: `Spec => ImplementsJobs`. The state functions of
  `ManagerRefinement` map initial states to initial states (`ImplInit`), and every step
  to a step of `ContainerJobs` or to none (`ImplNext`, one lemma per kind of step): a
  worker's take is `Begin`, the update of a row `Change`, the last update `End`, a crash
  `Interrupt`, recovery `Repair`, the clean-up `Forget`. The guards of `Submit` and
  `Begin` are where OneJob and OneWorker are used, `Change` where `FitInv` is.
- **OneOpenJob, ResultsFinal, ChangedByJobs** (`ContainerJobsProofs`): what the
  abstract specification implies, and so what ServiceRefines gives a reader who
  knows nothing of locks and channels: one open job for a container, results final,
  containers changed only by the open job carried out on them.

**The same, when moreover no call fails and nothing crashes** (`Calm`, and no early
access), while commands may end and operators remove containers at any time:

- **NoZombie, WhatRunsIsRecorded, DeletesAreDone** (`DockerAgreementProofs`):
  NoOrphanDocker, RunningIsRecorded, DeleteSucceedsFully. At every moment either the
  row names all that Docker has of a container and records whether it runs, or the one
  worker at it is between a Docker call and the update of the row and its copy does:
  `WorkAgrees` says for each program counter which of the two holds. A worker may act on
  its old copy only because no other changes row or container meanwhile, which is
  OneWorker; that a Docker id is never made for another container is `NamesFit`. `Keeps`
  is what a worker's step must keep, with one lemma per group of actions; `OneMoves` and
  `NoneMoves` carry it to all other workers and containers. DeletesAreDone needs the
  history too: a row that is gone stays gone, and only a worker that deleted it makes a
  delete job a success (`DeletedGone`).

**Shutdown** (`AppLifecycleProofs`, any environment):

- **ShutdownRefines**: `AppSpec => Spec`. A signal, a drain or a worker that quits
  changes nothing of the service, the ends of a process are its `Crash`; so every
  theorem above holds with shutdowns too.
- **AppTypeSafe, StopDrains**: when `App.Stop` has returned, no handler and no worker
  of the process is at work. The invariant says what each stage has left behind:
  after `closing` no handler, after `draining` no worker; it needs that an idle
  connection cannot bring a request to a process whose `accepted` is empty.

**Files** (`FileStoreProofs`):

- **FilesTypeSafe, RowsHaveFiles, DeletesHappenOnce, OwnersDeleteTheirFiles,
  NoFileIsStray**, for any number of users, files,
  requests, replicas, faults, crashes and removals (RowHasFile speaks of runs without
  faults, NoStrayFile of runs without faults and crashes). One inductive invariant `Inv`
  carries them: an upload has its id to itself and no row of it exists before its
  INSERT (`UploadsApart`, `UploadsFresh`); a delete at `"commit"` holds the lock of a
  row that is there and is its user's (`CommitsLocked`); past it the row is gone for
  good (`RemovesGone`). `StepMoves` says what one step does to a request, a row and a
  file; each part of the invariant then takes one lemma. NoStrayFile follows a file from
  the upload to its row and from the row to the delete (`StrayStep`).
- **FilesImplementLibrary**: ImplementsLibrary, in any environment. From `Inv`, every
  step maps to a step of `FileLibrary` or to none, with one lemma per kind of step
  (`MappedStep`). Whether an upload that cleans up has had its effect is read from its
  row, so no other request may change that (`EffectIsSettled`, from `UploadsApart` and
  `CommitsLocked`).
- **LibraryAnswersHold, LibraryOwnersOnly**: what clients may rely on follows from the
  abstract specification alone: an answer `"ok"` is true, of an upload as long as nobody
  deletes the file, of a delete for ever; and files come and go by open requests of
  their owners. `LInv`: an upload that has not acted has its file to itself and the list
  does not name it, and a request that has acted left its mark.
- **AnswersAreTrue**: AnswersHold, for `FileStore`, by the refinement.

**Lists** (`ListingProofs`):

- **ListTypeSafe, PagesAreRight, WalkMissesNothing, WalkRepeatsNothing**, for any rows,
  limits, clock and width of `int`; of the constants only that they are positive and the
  default limit is within the cap. `Rows` may be infinite: that a table holds finitely
  many at any moment is part of the invariant (`TableOK`).
  `PageOK` carries what COUNT found and what SELECT returned to the answer; that each row
  of a page stands behind all newer ones and before all older ones, ties in any order, is
  counted in `PlaceBounds`. The two properties of a walk compare
  the *rank* of a row, the number of stored rows that are listed no later, with the
  *frontier*, the number of rows the pages read so far are long: while rows only come, a
  row that stays and was not seen is beyond the frontier (`AllSeenBehind`); while rows
  only go, one that was seen is within it (`NoneSeenBeyond`). An insert only raises
  ranks, a delete only lowers them, and the rank of a row is its place in the sorted
  answer when no two share a `created_at` (`RankIsPlace`), so a page holds exactly the
  ranks between two frontiers. What these need of `int` is that a number in its range is
  itself (`WrapFits`); with the offset it comes to the bound `Exact <= MaxInt` of the
  properties.

**Only model-checked:** the liveness properties JobsEnd, RequestsEnd and ShutdownEnds,
since fairness and ENABLED are outside the prover. Every safety property that a passing
run checks is proved.

## 6. Not modelled, and what is left

- **Upload limits** (`max_bytes.go`, the size check of Upload): two comparisons of one
  number before the first step, without state.
- **Authentication, login and users**: stateless; the models start from the
  authenticated user.
- **Job queries**: read one row and compare its user.
- **Logging, error values, JSON binding and rendering, health, migrations, the
  environment whitelist**: change nothing another component reads.
- **The clock of the cleaner**: retention is the condition that a job has a
  `completed_at`; whether 7 days have passed is left open. That every finished job is
  deleted in the end therefore is no property here; finding 2 says which ones never are.

## 7. Running

`tlc -config Manager_lifecycle.cfg MCContainerManager.tla` checks a run,
`tlapm JobProofs.tla` the proofs of a module. Most runs take less than half a
minute, `faults`, `full_channel` and `listing` about one minute, `replicas` and `shutdown`
under two. The proofs of a module take from
seconds to a few minutes; `ManagerRefinementProofs` is the longest.
