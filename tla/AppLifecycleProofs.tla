-------------------------- MODULE AppLifecycleProofs --------------------------
(***************************************************************************)
(* Shutdown for any number of replicas, workers, clients, faults, crashes  *)
(* and clean-ups: a process that is stopped does nothing ContainerManager  *)
(* does not allow, so that what is proved of it holds on, and App.Stop     *)
(* leaves nothing at work.                                                 *)
(***************************************************************************)
EXTENDS AppLifecycle, ContainerManagerProofs

Drained == {"draining", "cleaner", "stopped"}

\* What each part of the signal goroutine has waited for: Shutdown for the handlers,
\* worker.Stop for the pool, which no job leaves.
ShutdownInv ==
  /\ \A p \in Procs, h \in Handlers : stage[p] \in Drained => ~Serves(h, p)
  /\ \A p \in Procs, w \in Workers : Working(p, w) => w \in pool[p]
  /\ \A p \in Procs : stage[p] \in {"cleaner", "stopped"} => pool[p] = {}
  /\ \A p \in Procs : stage[p] \in Drained => accepted[p] = {}

AppInv == TypeInv /\ AppTypeOK /\ ShutdownInv

-----------------------------------------------------------------------------
LEMMA AppStep == ASSUME [AppNext]_appVars PROVE [Next]_vars
<1>1. ASSUME NEW h \in Handlers, Arrive(h) \/ Serve(h) PROVE Next
  BY <1>1 DEF Arrive, Serve, Next, Service
<1>2. ASSUME NEW p \in Procs,
             \/ Start(p) \/ ShutdownTimeout(p) \/ MainReturns(p) \/ Killed(p)
      PROVE  Next
  BY <1>2 DEF Start, Restart, ShutdownTimeout, MainReturns, Killed, Exit, Next
<1>3. ASSUME NEW p \in Procs, NEW w \in Workers, Runs(p, w) PROVE Next
  BY <1>3 DEF Runs, Next
<1>4. ASSUME NEW p \in Procs, Signal(p) \/ Drain(p) \/ WorkersDone(p) \/ CleanerStops(p)
      PROVE  UNCHANGED vars
  BY <1>4 DEF Signal, Drain, WorkersDone, CleanerStops
<1>5. ASSUME NEW p \in Procs, NEW w \in Workers, WorkerQuits(p, w) PROVE UNCHANGED vars
  BY <1>5 DEF WorkerQuits
<1>6. CASE Tick \/ ((DockerEnv \/ Quiescent) /\ UNCHANGED <<stage, accepted, pool>>)
  BY <1>6 DEF Tick, Next
<1>7. CASE UNCHANGED appVars
  BY <1>7 DEF appVars
<1> QED BY <1>1, <1>2, <1>3, <1>4, <1>5, <1>6, <1>7 DEF AppNext

\* A service that is shut down behaves as one that may crash at any time.
THEOREM ShutdownRefines == AppSpec => Spec
<1>1. AppInit => Init
  BY DEF AppInit
<1>2. [AppNext]_appVars => [Next]_vars
  BY AppStep
<1> QED BY <1>1, <1>2, PTL DEF AppSpec, Spec

-----------------------------------------------------------------------------
LEMMA AppInitInv == AppInit => AppInv
<1> SUFFICES ASSUME AppInit PROVE AppInv
  OBVIOUS
<1>1. TypeInv
  BY TypeInit DEF AppInit
<1>2. AppTypeOK
  BY <1>1 DEF AppInit, AppTypeOK, TypeInv, Ended
<1>3. ShutdownInv
  BY DEF AppInit, Init, ServiceInit, WorkerInit, ShutdownInv, Working, Serves, Busy, Idle, Free, Drained
<1> QED BY <1>1, <1>2, <1>3 DEF AppInv

\* A request stays with its process.
LEMMA ServeStays ==
  ASSUME TypeInv, NEW h \in Handlers, HandlerStep(h)
  PROVE  /\ \A k \in Handlers : k # h => req'[k] = req[k]
         /\ req'[h] = Idle \/ (Busy(h) /\ req'[h].proc = req[h].proc)
<1> USE DEF TypeInv, TypeOK
<1>1. \/ Reply(h)
      \/ \E pc \in HandlerPC : Goto(h, pc)
  BY DEF HandlerStep, CreateSaveJob, Lock, Guard, Abort, Commit, Send, SendTimeout, HandlerPC
<1>2. Busy(h) /\ req[h] \in Request
  BY RequestFields DEF HandlerStep, CreateSaveJob, Lock, Guard, Abort, Commit, Send, SendTimeout,
     Busy
<1>3. CASE Reply(h)
  BY <1>3 DEF Reply, ServiceTypeOK
<1>4. ASSUME NEW pc \in HandlerPC, Goto(h, pc)
      PROVE  /\ req' = [req EXCEPT ![h] = [req[h] EXCEPT !.pc = pc]]
             /\ [req[h] EXCEPT !.pc = pc].proc = req[h].proc
  BY <1>2, <1>4 DEF Goto, Request
<1> QED BY <1>1, <1>2, <1>3, <1>4 DEF ServiceTypeOK

LEMMA ArriveTo ==
  ASSUME TypeInv, NEW h \in Handlers, Arrive(h)
  PROVE  /\ \A k \in Handlers : k # h => req'[k] = req[k]
         /\ req'[h] = Idle \/ \E p \in Procs : /\ req'[h].proc = p
                                               /\ \/ stage[p] = "serving"
                                                  \/ h \in accepted[p]
BY DEF TypeInv, TypeOK, ServiceTypeOK, Arrive, CreateSave, Submit

LEMMA AppTypeNext ==
  ASSUME TypeInv, AppTypeOK, [AppNext]_appVars
  PROVE  TypeInv' /\ AppTypeOK'
<1>1. TypeInv'
  BY AppStep, TypeNext
<1>2. TypeOK'
  BY <1>1 DEF TypeInv
<1> DEFINE Stages == {"serving"} \cup Stopping \cup Ended
<1>3. stage' \in [Procs -> Stages]
  <2> USE DEF AppTypeOK, Stopping, Ended
  <2>1. ASSUME NEW p \in Procs, NEW to \in Stages, stage' = [stage EXCEPT ![p] = to]
        PROVE  stage' \in [Procs -> Stages]
    BY <2>1
  <2>2. ASSUME NEW p \in Procs,
               \/ Restart(p) \/ Signal(p) \/ Drain(p) \/ WorkersDone(p) \/ CleanerStops(p)
               \/ ShutdownTimeout(p) \/ MainReturns(p) \/ Killed(p)
        PROVE  stage' \in [Procs -> Stages]
    BY <2>1, <2>2 DEF Restart, Signal, Drain, WorkersDone, CleanerStops, ShutdownTimeout,
       MainReturns, Killed, Exit, Advance
  <2>3. UNCHANGED stage => stage' \in [Procs -> Stages]
    OBVIOUS
  <2> QED BY <2>2, <2>3 DEF AppNext, appVars, Start, Arrive, Serve, Runs, WorkerQuits, Tick
<1>4. accepted' \in [Procs -> SUBSET Handlers]
  <2> USE DEF AppTypeOK
  <2>1. ASSUME NEW h \in Handlers, Arrive(h) PROVE accepted' \in [Procs -> SUBSET Handlers]
    BY <2>1 DEF Arrive
  <2>2. ASSUME NEW p \in Procs,
               \/ Restart(p) \/ Signal(p) \/ Drain(p) \/ WorkersDone(p) \/ CleanerStops(p)
               \/ ShutdownTimeout(p) \/ MainReturns(p) \/ Killed(p)
        PROVE  accepted' \in [Procs -> SUBSET Handlers]
    BY <2>2 DEF Restart, Signal, Drain, WorkersDone, CleanerStops, ShutdownTimeout,
       MainReturns, Killed, Exit
  <2> QED BY <2>1, <2>2 DEF AppNext, appVars, Start, Serve, Runs, WorkerQuits, Tick
<1>5. pool' \in [Procs -> SUBSET Workers]
  <2> USE DEF AppTypeOK
  <2>1. ASSUME NEW p \in Procs, NEW w \in Workers, WorkerQuits(p, w)
        PROVE  pool' \in [Procs -> SUBSET Workers]
    BY <2>1 DEF WorkerQuits
  <2>2. ASSUME NEW p \in Procs,
               \/ Restart(p) \/ Signal(p) \/ Drain(p) \/ WorkersDone(p) \/ CleanerStops(p)
               \/ ShutdownTimeout(p) \/ MainReturns(p) \/ Killed(p)
        PROVE  pool' \in [Procs -> SUBSET Workers]
    BY <2>2 DEF Restart, Signal, Drain, WorkersDone, CleanerStops, ShutdownTimeout,
       MainReturns, Killed, Exit
  <2> QED BY <2>1, <2>2 DEF AppNext, appVars, Start, Arrive, Serve, Runs, Tick
<1> QED BY <1>1, <1>2, <1>3, <1>4, <1>5 DEF AppTypeOK

-----------------------------------------------------------------------------
\* A worker touches no other worker and no request.
LEMMA WorkerApart ==
  ASSUME TypeInv, NEW p \in Procs, NEW w \in Workers, WorkerStep(p, w)
  PROVE  /\ UNCHANGED req
         /\ \A q \in Procs, v \in Workers : <<q, v>> # <<p, w>> => wk'[q][v] = wk[q][v]
<1> USE DEF TypeInv, TypeOK
<1>1. UNCHANGED req
  BY DEF WorkerStep, Take, Mark, Find, CreateInDocker, StartCreated, StartExisting,
     StartInDocker, Cleanup, SyncState, StopInDocker, UpdateRow, RemoveInDocker,
     DeleteRow, Finish
<1>2. \E r : SetWork(p, w, r)
  BY DEF WorkerStep, Take, Mark, Find, CreateInDocker, StartCreated, StartExisting,
     StartInDocker, Cleanup, SyncState, StopInDocker, UpdateRow, RemoveInDocker,
     DeleteRow, Finish, Step, Succeed, Fail, Retry
<1> QED BY <1>1, <1>2, SetWorkElsewhere

LEMMA CrashEmpties ==
  ASSUME TypeInv, NEW p \in Procs, Crash(p)
  PROVE  /\ \A h \in Handlers : req'[h] = Idle \/ (req'[h] = req[h] /\ ~Serves(h, p))
         /\ \A w \in Workers : wk'[p][w] = Free
         /\ \A q \in Procs : q # p => wk'[q] = wk[q]
BY DEF TypeInv, TypeOK, WorkerTypeOK, Crash, Serves

LEMMA ShutdownNext ==
  ASSUME AppInv, [AppNext]_appVars
  PROVE  ShutdownInv'
<1> USE DEF AppInv
<1>1. CASE UNCHANGED <<req, wk, stage, accepted, pool>>
  BY <1>1 DEF ShutdownInv, Serves, Busy, Working
<1>2. ASSUME NEW h \in Handlers, Arrive(h) PROVE ShutdownInv'
  <2>1. UNCHANGED <<wk, stage, pool>>
    BY <1>2 DEF Arrive
  <2>2. \A p \in Procs : stage[p] \in Drained => accepted'[p] = {}
    BY <1>2 DEF Arrive, ShutdownInv, AppTypeOK
  <2>3. ASSUME NEW p \in Procs, NEW k \in Handlers, stage[p] \in Drained
        PROVE  ~Serves(k, p)'
    BY <1>2, <2>3, ArriveTo DEF ShutdownInv, Serves, Busy, Idle, Drained
  <2> QED BY <2>1, <2>2, <2>3 DEF ShutdownInv, Working
<1>3. ASSUME NEW h \in Handlers, Serve(h) PROVE ShutdownInv'
  <2>1. UNCHANGED <<wk, stage, accepted, pool>> /\ HandlerStep(h)
    BY <1>3 DEF Serve
  <2>2. ASSUME NEW p \in Procs, NEW k \in Handlers, stage[p] \in Drained
        PROVE  ~Serves(k, p)'
    BY <2>1, <2>2, ServeStays DEF ShutdownInv, Serves, Busy, Idle
  <2> QED BY <2>1, <2>2 DEF ShutdownInv, Working
<1>4. ASSUME NEW p \in Procs, NEW w \in Workers, Runs(p, w) PROVE ShutdownInv'
  <2>1. UNCHANGED <<req, stage, accepted, pool>> /\ w \in pool[p]
    BY <1>4, WorkerApart DEF Runs
  <2>2. \A q \in Procs, v \in Workers : Working(q, v)' => v \in pool[q]
    BY <1>4, <2>1, WorkerApart DEF Runs, ShutdownInv, Working
  <2> QED BY <2>1, <2>2 DEF ShutdownInv, Serves, Busy
<1>5. ASSUME NEW p \in Procs, NEW w \in Workers, WorkerQuits(p, w) PROVE ShutdownInv'
  <2>1. /\ UNCHANGED <<req, wk, stage, accepted>> /\ ~Working(p, w)
        /\ \A q \in Procs : pool'[q] = pool[q] \/ (q = p /\ pool'[q] = pool[q] \ {w})
    BY <1>5 DEF WorkerQuits, vars, AppTypeOK
  <2> QED BY <2>1 DEF ShutdownInv, Serves, Busy, Working
<1>6. ASSUME NEW p \in Procs, Restart(p) PROVE ShutdownInv'
  <2>1. UNCHANGED <<req, wk, accepted>>
    BY <1>6 DEF Restart, Boot
  <2>2. \A q \in Procs : \/ stage'[q] = stage[q] /\ pool'[q] = pool[q]
                         \/ stage'[q] = "serving" /\ pool'[q] = Workers
    BY <1>6 DEF Restart, AppTypeOK
  <2> QED BY <2>1, <2>2 DEF ShutdownInv, Serves, Busy, Working, Drained
<1>7. ASSUME NEW p \in Procs, Signal(p) \/ Drain(p) \/ WorkersDone(p) \/ CleanerStops(p)
      PROVE  ShutdownInv'
  <2>1. UNCHANGED <<req, wk, pool>>
    BY <1>7 DEF Signal, Drain, WorkersDone, CleanerStops, vars
  <2>2. ASSUME NEW q \in Procs
        PROVE  \/ stage'[q] = stage[q] /\ accepted'[q] = accepted[q]
               \/ stage'[q] = "closing"
               \/ /\ stage'[q] = "draining" /\ accepted'[q] = {}
                  /\ \A h \in Handlers : ~Serves(h, q)
               \/ stage'[q] = "cleaner" /\ stage[q] = "draining" /\ pool[q] = {}
                  /\ accepted'[q] = accepted[q]
               \/ stage'[q] = "stopped" /\ stage[q] = "cleaner" /\ accepted'[q] = accepted[q]
    BY <1>7 DEF Signal, Drain, WorkersDone, CleanerStops, Advance, AppTypeOK
  <2> QED BY <2>1, <2>2 DEF ShutdownInv, Serves, Busy, Working, Drained
<1>8. ASSUME NEW p \in Procs, NEW how \in Ended, Exit(p, how) PROVE ShutdownInv'
  <2>1. \A q \in Procs : \/ q = p /\ stage'[q] = how /\ pool'[q] = {} /\ accepted'[q] = {}
                         \/ /\ q # p /\ stage'[q] = stage[q] /\ pool'[q] = pool[q]
                            /\ accepted'[q] = accepted[q]
    BY <1>8 DEF Exit, AppTypeOK
  <2>2. how \notin Drained
    BY DEF Ended, Drained
  <2>3. \A q \in Procs, w \in Workers : Working(q, w)' => q # p /\ Working(q, w)
    BY <1>8, CrashEmpties DEF Exit, Working, Free
  <2>4. \A q \in Procs, h \in Handlers : Serves(h, q)' => Serves(h, q)
    BY <1>8, CrashEmpties DEF Exit, Serves, Busy, Idle
  <2> QED BY <2>1, <2>2, <2>3, <2>4 DEF ShutdownInv, Drained
<1>9. ASSUME NEW p \in Procs, ShutdownTimeout(p) \/ MainReturns(p) \/ Killed(p)
      PROVE  ShutdownInv'
  BY <1>8, <1>9 DEF ShutdownTimeout, MainReturns, Killed, Ended
<1>10. ASSUME NEW p \in Procs, Recover(p) /\ UNCHANGED <<stage, accepted, pool>>
       PROVE  ShutdownInv'
  BY <1>1, <1>10 DEF Recover
<1>11. CASE Tick
  BY <1>1, <1>11 DEF Tick, Clean
<1>12. CASE (DockerEnv \/ Quiescent) /\ UNCHANGED <<stage, accepted, pool>>
  BY <1>1, <1>12 DEF DockerEnv, serviceVars, Quiescent, vars
<1>13. CASE UNCHANGED appVars
  BY <1>1, <1>13 DEF appVars, vars
<1> QED BY <1>2, <1>3, <1>4, <1>5, <1>6, <1>7, <1>9, <1>10, <1>11, <1>12, <1>13 DEF AppNext, Start

LEMMA AppInvariant == AppSpec => []AppInv
<1>1. AppInv /\ [AppNext]_appVars => AppInv'
  BY AppTypeNext, ShutdownNext DEF AppInv
<1> QED BY <1>1, AppInitInv, PTL DEF AppSpec

\* The type invariant of AppLifecycle.
THEOREM AppTypeSafe == AppSpec => []AppTypeOK
<1>1. AppInv => AppTypeOK
  BY DEF AppInv
<1> QED BY <1>1, AppInvariant, PTL

\* When App.Stop has come to its end (main.go:40), no handler and no worker of the
\* process is at work, whatever failed or crashed before.
THEOREM StopDrains == AppSpec => []StoppedIsIdle
<1>1. AppInv => StoppedIsIdle
  BY DEF AppInv, ShutdownInv, StoppedIsIdle, Drained
<1> QED BY <1>1, AppInvariant, PTL
=============================================================================
