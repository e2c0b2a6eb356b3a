----------------------------- MODULE AppLifecycle -----------------------------
(***************************************************************************)
(* ContainerManager with the end of its processes: the signal goroutine of *)
(* cmd/server/main.go (Shutdown, then App.Stop of app/handler.go: quit of  *)
(* the workers, then of the cleaner) beside the goroutine of main, which   *)
(* returns, and with it the process, as soon as ListenAndServe does.       *)
(*                                                                         *)
(* The signal goroutine of a process goes through these stages:            *)
(*   serving -> closing -> draining -> cleaner -> stopped                  *)
(* in srv.Shutdown, in wg.Wait of worker.Stop, in jobCleaner.Stop, done.   *)
(* A process that is down keeps the way it ended.                          *)
(***************************************************************************)
EXTENDS ManagerProperties

VARIABLES stage,          \* of each process
          accepted,       \* connections good for one more request in a shutdown
          pool            \* the workers whose goroutine still runs

appVars == <<vars, stage, accepted, pool>>

Stopping == {"closing", "draining", "cleaner", "stopped"}
Ended == {"none", "returned", "timeout", "killed"}

AppTypeOK == /\ TypeOK
             /\ stage \in [Procs -> {"serving"} \cup Stopping \cup Ended]
             /\ accepted \in [Procs -> SUBSET Handlers]
             /\ pool \in [Procs -> SUBSET Workers]

AppInit == /\ Init
           /\ stage = [p \in Procs |-> "none"]
           /\ accepted = [p \in Procs |-> {}]
           /\ pool = [p \in Procs |-> {}]

Advance(p, from, to) == /\ stage[p] = from
                      /\ stage' = [stage EXCEPT ![p] = to]

Serves(h, p) == Busy(h) /\ req[h].proc = p

\* The exits that shutdowns under way will take from the budget of crashes.
Reserved == Cardinality({p \in Procs : stage[p] \in Stopping})

-----------------------------------------------------------------------------
(* The signal goroutine *)

\* SIGTERM: Shutdown closes the listeners.  A connection it had accepted may bring
\* its first request yet; after a reply no connection is kept alive.
Signal(p) ==
  /\ phase[p] = "up"
  /\ Advance(p, "serving", "closing")
  /\ spent["crashes"] + Reserved < MaxCrashes
  /\ accepted' = [accepted EXCEPT ![p] = {h \in Handlers : ~Serves(h, p)}]
  /\ UNCHANGED <<vars, pool>>

\* Shutdown returns: no connection has a request left.  worker.Stop closes quit.
Drain(p) ==
  /\ Advance(p, "closing", "draining")
  /\ \A h \in Handlers : ~Serves(h, p)
  /\ accepted' = [accepted EXCEPT ![p] = {}]
  /\ UNCHANGED <<vars, pool>>

\* Mutant of WorkerQuits: quit is sent to, not closed, and one worker receives.
OneWorkerQuits(p, w) ==
  /\ stage[p] = "draining"
  /\ pool[p] = Workers
  /\ w \in pool[p] /\ ~Working(p, w)
  /\ pool' = [pool EXCEPT ![p] = @ \ {w}]
  /\ UNCHANGED <<vars, stage, accepted>>

\* The select of run takes case <-w.quit, which competes with the job channel.
WorkerQuits(p, w) ==
  /\ stage[p] = "draining"
  /\ w \in pool[p] /\ ~Working(p, w)
  /\ pool' = [pool EXCEPT ![p] = @ \ {w}]
  /\ UNCHANGED <<vars, stage, accepted>>

\* Mutant of WorkersDone: Stop closes quit and does not wait.
WorkersNotAwaited(p) == /\ Advance(p, "draining", "cleaner")
                        /\ UNCHANGED <<vars, accepted, pool>>

\* wg.Wait() returns; jobCleaner.Stop closes its own quit.
WorkersDone(p) == /\ Advance(p, "draining", "cleaner")
                  /\ pool[p] = {}
                  /\ UNCHANGED <<vars, accepted, pool>>

\* <-c.done: the cleaner's goroutine has returned, after its last tick.
CleanerStops(p) == /\ Advance(p, "cleaner", "stopped")
                   /\ UNCHANGED <<vars, accepted, pool>>

-----------------------------------------------------------------------------
(* The ends of a process *)

Exit(p, how) == /\ Crash(p)
                /\ stage' = [stage EXCEPT ![p] = how]
                /\ accepted' = [accepted EXCEPT ![p] = {}]
                /\ pool' = [pool EXCEPT ![p] = {}]

\* Shutdown gives up after 10 s and the goroutine calls os.Exit(1).  The request
\* it waited for may have ended since it last looked.
ShutdownTimeout(p) == stage[p] = "closing" /\ Exit(p, "timeout")

\* ListenAndServe returns ErrServerClosed when Shutdown begins, and main returns:
\* nothing makes it wait for the signal goroutine.
MainReturns(p) == stage[p] \in Stopping /\ Exit(p, "returned")

\* The process dies without a signal it could handle.
Killed(p) == /\ stage[p] \notin Stopping
             /\ spent["crashes"] + Reserved < MaxCrashes
             /\ Exit(p, "killed")

-----------------------------------------------------------------------------
(* ContainerManager, as far as the stage lets it *)

\* A request reaches a process that has its listener, or comes on a connection
\* the listener had accepted.
Arrive(h) ==
  /\ CreateSave(h) \/ Submit(h)
  /\ \E p \in Procs :
       /\ Accepting(p)
       /\ req'[h] # Idle => req'[h].proc = p
       /\ \/ stage[p] = "serving" /\ UNCHANGED accepted
          \/ h \in accepted[p] /\ accepted' = [accepted EXCEPT ![p] = @ \ {h}]
  /\ UNCHANGED <<wk, stage, pool>>

Serve(h) == HandlerStep(h) /\ UNCHANGED <<wk, stage, accepted, pool>>

Runs(p, w) == w \in pool[p] /\ WorkerStep(p, w) /\ UNCHANGED <<stage, accepted, pool>>

\* Mutant of Restart: the PENDING jobs are not re-enqueued.
RestartEmpty(p) == /\ phase[p] = "recovered"
                   /\ phase' = [phase EXCEPT ![p] = "up"]
                   /\ stage' = [stage EXCEPT ![p] = "serving"]
                   /\ pool' = [pool EXCEPT ![p] = Workers]
                   /\ UNCHANGED <<spent, containers, jobs, rowLock, docker, req, mutex, chan,
                                  wk, accepted>>

\* NewHandler, NewWorker and the start of the signal goroutine.
Restart(p) == /\ Boot(p)
              /\ stage' = [stage EXCEPT ![p] = "serving"]
              /\ pool' = [pool EXCEPT ![p] = Workers]
              /\ UNCHANGED accepted

\* The goroutine of main up to ListenAndServe.
Start(p) == \/ Recover(p) /\ UNCHANGED <<stage, accepted, pool>>
            \/ Restart(p)

\* A tick needs a cleaner that has not returned.
Tick == /\ \E p \in Procs : phase[p] = "up" /\ stage[p] # "stopped"
        /\ Clean
        /\ UNCHANGED <<stage, accepted, pool>>

AppNext ==
  \/ \E h \in Handlers : Arrive(h) \/ Serve(h)
  \/ \E p \in Procs : \/ Start(p) \/ Signal(p) \/ Drain(p) \/ WorkersDone(p)
                      \/ CleanerStops(p) \/ ShutdownTimeout(p) \/ MainReturns(p)
                      \/ Killed(p)
  \/ \E p \in Procs, w \in Workers : Runs(p, w) \/ WorkerQuits(p, w)
  \/ Tick
  \/ (DockerEnv \/ Quiescent) /\ UNCHANGED <<stage, accepted, pool>>

AppSpec == AppInit /\ [][AppNext]_appVars

(***************************************************************************)
(* Fairness.  Goroutines are scheduled, statements and Docker calls return *)
(* and a process that died is started again, so start-up, workers and the  *)
(* signal goroutine are weakly fair.  A handler waits for a mutex, a row   *)
(* lock or room in a channel, each of which serves its waiters in order    *)
(* (sync.Mutex in starvation mode, PostgreSQL's lock queue, a channel's    *)
(* queue of senders), so its steps are strongly fair.  The select of a     *)
(* worker chooses at random between quit and a job, so weak fairness of    *)
(* quitting only counts on a queue that ends.  main may be late: it is     *)
(* only known to return in the end.  Nothing makes clients send requests,  *)
(* commands end, calls fail or the 10 s of Shutdown short.                 *)
(***************************************************************************)
AppFairness ==
  /\ \A p \in Procs :
       /\ WF_appVars(Start(p))
       /\ WF_appVars(Drain(p) \/ WorkersDone(p) \/ CleanerStops(p))
       /\ WF_appVars(MainReturns(p) /\ stage[p] = "stopped")
       /\ \A w \in Workers : WF_appVars(Runs(p, w)) /\ WF_appVars(WorkerQuits(p, w))
  /\ \A h \in Handlers : SF_appVars(Serve(h))

FairAppSpec == AppSpec /\ AppFairness

-----------------------------------------------------------------------------
\* App.Stop keeps what it promises when it gets to its end: nothing of the process
\* is left at work, so that nothing is cut off when the process then exits
\* (Shutdown waited for the handlers, worker.Stop for the pool, in this order).
StoppedIsIdle ==
  \A p \in Procs :
    stage[p] = "stopped" =>
      /\ \A h \in Handlers : ~Serves(h, p)
      /\ \A w \in Workers : ~Working(p, w)

\* A shutdown comes to its end, also when main is late: handlers that wait for room
\* in a full channel, or for the mutex of one that does, are answered while the workers
\* still run, and every worker receives quit although it may prefer the jobs left in the
\* channel.
ShutdownEnds ==
  \A p \in Procs : stage[p] = "closing" ~> stage[p] \in {"stopped"} \cup Ended

\* ADR 015 of spec/ADR.md: a process that was asked to stop does not end while one
\* of its jobs is executed.
ExitCompletesJobs ==
  \A p \in Procs :
    stage[p] = "returned" /\ phase[p] = "down" =>
      \A j \in JobIds : jobs[j].status # "RUNNING"
=============================================================================
