---------------------------- MODULE ContainerJobs ----------------------------
(***************************************************************************)
(* What the service promises its clients, without locks, channels, Docker  *)
(* or processes: containers change only by jobs, one at a time, along the  *)
(* transitions of the container state machine, and a job that reports      *)
(* success has made its change.  Calls may fail and everything may be      *)
(* interrupted: a job may fail having made its change or not.              *)
(***************************************************************************)
EXTENDS FiniteSets

CONSTANTS ContainerIds, JobIds

VARIABLES status,         \* of each container, "none" before it is inserted
          job,            \* row of each job, NoJob before it is submitted
          executing,      \* the jobs that are being carried out
          done            \* those of them whose change has been acknowledged

jvars == <<status, job, executing, done>>

NoJob == [state |-> "none"]
JobKinds == {"create", "start", "stop", "delete"}
Open == {"PENDING", "RUNNING"}
Closed == {"SUCCESS", "FAILED"}
Row == [state : Open \cup Closed \cup {"gone"}, type : JobKinds, target : ContainerIds]

JTypeOK == /\ status \in [ContainerIds -> {"none", "Created", "Running", "Exited", "gone"}]
           /\ job \in [JobIds -> Row \cup {NoJob}]
           /\ executing \subseteq JobIds
           /\ done \subseteq executing

JInit == /\ status = [c \in ContainerIds |-> "none"]
         /\ job = [j \in JobIds |-> NoJob]
         /\ executing = {}
         /\ done = {}

\* Statuses a job type is accepted in.
Acceptable(type) == CASE type = "create" -> {"Created"}
                      [] type = "start"  -> {"Created", "Exited"}
                      [] type = "stop"   -> {"Running"}
                      [] type = "delete" -> {"Created", "Exited"}

\* Statuses a job of the type may turn into others, and those it leads to.
From(type) == CASE type \in {"create", "start"} -> {"Created", "Running", "Exited"}
                [] type = "stop"                -> {"Running", "Exited"}
                [] type = "delete"              -> {"Created", "Exited"}
To(type) == CASE type \in {"create", "start"} -> {"Running", "Exited"}
              [] type = "stop"                -> {"Exited"}
              [] type = "delete"              -> {"gone"}

SetState(j, state) == job' = [job EXCEPT ![j] = [@ EXCEPT !.state = state]]

-----------------------------------------------------------------------------
Insert(c) == /\ status[c] = "none"
             /\ status' = [status EXCEPT ![c] = "Created"]
             /\ UNCHANGED <<job, executing, done>>

\* A job is accepted when no other one is open for its container.
Submit(j, type, c) ==
  /\ job[j] = NoJob
  /\ \A i \in JobIds : ~(job[i].state \in Open /\ job[i].target = c)
  /\ status[c] \in Acceptable(type)
  /\ job' = [job EXCEPT ![j] = [state |-> "PENDING", type |-> type, target |-> c]]
  /\ UNCHANGED <<status, executing, done>>

\* A pending job is taken up, by one worker, when nothing is done to its container.
Begin(j) ==
  /\ job[j].state = "PENDING"
  /\ j \notin executing
  /\ \A i \in executing : job[i].target # job[j].target
  /\ executing' = executing \cup {j}
  /\ UNCHANGED <<status, job, done>>

Announce(j) == /\ j \in executing /\ job[j].state = "PENDING"
               /\ SetState(j, "RUNNING")
               /\ UNCHANGED <<status, executing, done>>

\* The job makes its change, perhaps without learning that it did.
Change(j) ==
  /\ j \in executing
  /\ status[job[j].target] \in From(job[j].type)
  /\ \E s \in To(job[j].type) : status' = [status EXCEPT ![job[j].target] = s]
  /\ done' \in {done, done \cup {j}}
  /\ UNCHANGED <<job, executing>>

\* The job ends.  Its result may be lost; success is only claimed for a change that was
\* made.
End(j) ==
  /\ j \in executing
  /\ \/ SetState(j, IF j \in done THEN "SUCCESS" ELSE "FAILED")
     \/ UNCHANGED job
  /\ executing' = executing \ {j}
  /\ done' = done \ {j}
  /\ UNCHANGED status

Interrupt == /\ executing' = {}
             /\ done' = {}
             /\ UNCHANGED <<status, job>>

\* What an interruption left running has failed.
Repair ==
  /\ executing = {}
  /\ job' = [j \in JobIds |-> IF job[j].state = "RUNNING"
                              THEN [job[j] EXCEPT !.state = "FAILED"] ELSE job[j]]
  /\ UNCHANGED <<status, executing, done>>

\* Old results are forgotten.
Forget(old) ==
  /\ \A j \in old : job[j].state \in Closed
  /\ job' = [j \in JobIds |-> IF j \in old THEN [job[j] EXCEPT !.state = "gone"] ELSE job[j]]
  /\ UNCHANGED <<status, executing, done>>

JNext == \/ \E c \in ContainerIds : Insert(c)
         \/ \E j \in JobIds, type \in JobKinds, c \in ContainerIds : Submit(j, type, c)
         \/ \E j \in JobIds : Begin(j) \/ Announce(j) \/ Change(j) \/ End(j)
         \/ Interrupt \/ Repair
         \/ \E old \in SUBSET JobIds : Forget(old)

JSpec == JInit /\ [][JNext]_jvars

-----------------------------------------------------------------------------
\* The promises, which follow from JSpec.

\* One job at a time is open for a container.
JOneOpen == \A i, j \in JobIds : /\ job[i].state \in Open /\ job[j].state \in Open
                                 /\ job[i].target = job[j].target
                                 => i = j

\* Whatever is carried out is open: it has been accepted and has no result yet.
JExecutingOpen == \A j \in executing : job[j].state \in Open

\* A result is final.
JFinal == [][\A j \in JobIds : job[j].state \in Closed =>
               job'[j] = job[j] \/ job'[j].state = "gone"]_jvars

\* A container changes only by an open job on it, one at a time.
JChangedByJobs ==
  [][\A c \in ContainerIds : status'[c] # status[c] =>
       \/ status[c] = "none"
       \/ \E j \in executing : job[j].target = c /\ job[j].state \in Open]_jvars
=============================================================================
