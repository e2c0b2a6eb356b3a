------------------------- MODULE ContainerJobsProofs -------------------------
(***************************************************************************)
(* The promises of ContainerJobs follow from its specification.            *)
(***************************************************************************)
EXTENDS ContainerJobs, TLAPS

JInv == JTypeOK /\ JOneOpen /\ JExecutingOpen

LEMMA JInitInv == JInit => JInv
BY DEF JInit, JInv, JTypeOK, JOneOpen, JExecutingOpen, NoJob, Open

\* What a step may do to a job: nothing, submit it when its container has no open job,
\* move it on while it is executed, or change it when nothing is.
JobStep(j) ==
  \/ job'[j] = job[j]
  \/ /\ job[j] = NoJob /\ job'[j] \in Row /\ job'[j].state = "PENDING"
     /\ \A i \in JobIds : ~(job[i].state \in Open /\ job[i].target = job'[j].target)
     /\ \A i \in JobIds : i # j => job'[i] = job[i]
  \/ /\ job[j] \in Row /\ job'[j] \in Row
     /\ job'[j].target = job[j].target
     /\ \/ j \in executing /\ job'[j].state = "RUNNING"
        \/ j \in executing /\ job'[j].state \in Closed /\ j \notin executing'
        \/ executing = {} /\ UNCHANGED executing /\ job[j].state = "RUNNING"
             /\ job'[j].state = "FAILED"
        \/ UNCHANGED executing /\ job[j].state \in Closed /\ job'[j].state = "gone"

LEMMA JobSteps ==
  ASSUME JInv, [JNext]_jvars
  PROVE  \A j \in JobIds : JobStep(j)
<1> USE DEF JInv, JTypeOK
<1>1. CASE UNCHANGED job
  BY <1>1 DEF JobStep
<1>2. ASSUME NEW k \in JobIds, NEW type \in JobKinds, NEW c \in ContainerIds, Submit(k, type, c)
      PROVE  \A j \in JobIds : JobStep(j)
  <2>1. [state |-> "PENDING", type |-> type, target |-> c] \in Row
    BY DEF Row, Open
  <2> QED BY <1>2, <2>1 DEF Submit, JobStep
<1>3. ASSUME NEW k \in JobIds, NEW s \in Open \cup Closed, SetState(k, s), k \in executing
      PROVE  /\ \A j \in JobIds : j # k => job'[j] = job[j]
             /\ job[k] \in Row /\ job'[k] \in Row
             /\ job'[k].target = job[k].target /\ job'[k].state = s
  <2>1. job[k] \in Row
    BY <1>3 DEF JExecutingOpen, NoJob, Open
  <2>2. [job[k] EXCEPT !.state = s] \in Row
    BY <2>1 DEF Row
  <2> QED BY <1>3, <2>1, <2>2 DEF SetState, Row
<1>4. ASSUME NEW k \in JobIds, Announce(k) PROVE \A j \in JobIds : JobStep(j)
  BY <1>3, <1>4 DEF Announce, JobStep, Open
<1>5. ASSUME NEW k \in JobIds, End(k) PROVE \A j \in JobIds : JobStep(j)
  <2>1. CASE UNCHANGED job
    BY <1>1, <2>1
  <2>2. ASSUME NEW s \in Closed, SetState(k, s) PROVE \A j \in JobIds : JobStep(j)
    <3>1. k \in executing /\ k \notin executing'
      BY <1>5 DEF End
    <3> QED BY <1>3, <2>2, <3>1 DEF JobStep
  <2>3. {"SUCCESS", "FAILED"} = Closed
    BY DEF Closed
  <2> QED BY <1>5, <2>1, <2>2, <2>3 DEF End
<1>6. CASE Repair
  <2>1. ASSUME NEW j \in JobIds, job[j].state = "RUNNING" PROVE JobStep(j)
    <3>1. job[j] \in Row
      BY <2>1 DEF NoJob
    <3>2. job'[j] = [job[j] EXCEPT !.state = "FAILED"]
      BY <1>6, <2>1 DEF Repair
    <3> QED BY <1>6, <2>1, <3>1, <3>2 DEF Repair, JobStep, Row, Closed
  <2> QED BY <1>6, <2>1 DEF Repair, JobStep
<1>7. ASSUME NEW old \in SUBSET JobIds, Forget(old) PROVE \A j \in JobIds : JobStep(j)
  <2>1. ASSUME NEW j \in old PROVE JobStep(j)
    <3>1. job[j] \in Row /\ job[j].state \in Closed
      BY <1>7 DEF Forget, NoJob, Closed
    <3>2. job'[j] = [job[j] EXCEPT !.state = "gone"]
      BY <1>7 DEF Forget
    <3> QED BY <1>7, <3>1, <3>2 DEF Forget, JobStep, Row
  <2> QED BY <1>7, <2>1 DEF Forget, JobStep
<1> QED BY <1>1, <1>2, <1>4, <1>5, <1>6, <1>7 DEF JNext, Insert, Begin, Change, Interrupt, jvars

LEMMA JNextInv == JInv /\ [JNext]_jvars => JInv'
<1> SUFFICES ASSUME JInv, [JNext]_jvars PROVE JInv'
  OBVIOUS
<1> USE DEF JInv, JTypeOK
<1>1. \A j \in JobIds : JobStep(j)
  BY JobSteps
<1>2. job' \in [JobIds -> Row \cup {NoJob}]
  <2>1. \A j \in JobIds : job'[j] \in Row \cup {NoJob}
    BY <1>1 DEF JobStep
  <2>2. \E f : job' = [j \in JobIds |-> f[j]]
    BY DEF JNext, jvars, Insert, Submit, Begin, Announce, Change, End, Interrupt, Repair, Forget,
       SetState
  <2> QED BY <2>1, <2>2
<1>3. status' \in [ContainerIds -> {"none", "Created", "Running", "Exited", "gone"}]
  <2>1. ASSUME NEW j \in JobIds, Change(j)
        PROVE  status' \in [ContainerIds -> {"none", "Created", "Running", "Exited", "gone"}]
    <3>1. job[j].type \in JobKinds
      BY <2>1 DEF Change, JExecutingOpen, Row, NoJob, Open
    <3>2. To(job[j].type) \subseteq {"Running", "Exited", "gone"}
      BY <3>1 DEF JobKinds, To
    <3> QED BY <2>1, <3>2 DEF Change
  <2> QED BY <2>1 DEF JNext, jvars, Insert, Submit, Begin, Announce, End, Interrupt, Repair, Forget
<1>4. executing' \subseteq JobIds /\ done' \subseteq executing'
  BY DEF JNext, jvars, Insert, Submit, Begin, Announce, Change, End, Interrupt, Repair, Forget
<1>5. JOneOpen'
  <2>1. ASSUME NEW i \in JobIds, NEW j \in JobIds, i # j,
               job'[i].state \in Open, job'[j].state \in Open, job'[i].target = job'[j].target
        PROVE  FALSE
    <3>1. \A k \in JobIds : job'[k].state \in Open =>
            \/ job[k].state \in Open /\ job'[k].target = job[k].target
            \/ /\ job[k] = NoJob
               /\ \A l \in JobIds : ~(job[l].state \in Open /\ job[l].target = job'[k].target)
               /\ \A l \in JobIds : l # k => job'[l] = job[l]
      BY <1>1 DEF JobStep, JExecutingOpen, Open, Closed
    <3> QED BY <2>1, <3>1 DEF JOneOpen, NoJob, Open
  <2> QED BY <2>1 DEF JOneOpen
<1>6. JExecutingOpen'
  <2>1. ASSUME NEW j \in executing', j \in executing PROVE job'[j].state \in Open
    BY <1>1, <1>4, <2>1 DEF JobStep, JExecutingOpen, NoJob, Open, Closed
  <2>2. ASSUME NEW j \in executing', j \notin executing PROVE job'[j].state \in Open
    BY <2>2 DEF JNext, jvars, Insert, Submit, Begin, Announce, Change, End, Interrupt, Repair,
       Forget, Open
  <2> QED BY <2>1, <2>2 DEF JExecutingOpen
<1> QED BY <1>2, <1>3, <1>4, <1>5, <1>6

LEMMA JInvariant == JSpec => []JInv
BY JInitInv, JNextInv, PTL DEF JSpec

\* At most one job is open for a container, and what is carried out is open.
THEOREM OneOpenJob == JSpec => [](JOneOpen /\ JExecutingOpen)
<1>1. JInv => JOneOpen /\ JExecutingOpen
  BY DEF JInv
<1> QED BY <1>1, JInvariant, PTL

\* A result is final.
THEOREM ResultsFinal == JSpec => JFinal
<1>1. JInv /\ [JNext]_jvars =>
        [\A j \in JobIds : job[j].state \in Closed =>
           job'[j] = job[j] \/ job'[j].state = "gone"]_jvars
  <2> SUFFICES ASSUME JInv, [JNext]_jvars, NEW j \in JobIds, job[j].state \in Closed
               PROVE  job'[j] = job[j] \/ job'[j].state = "gone"
    OBVIOUS
  <2> QED BY JobSteps DEF JobStep, JInv, JExecutingOpen, NoJob, Open, Closed
<1> QED BY <1>1, JInvariant, PTL DEF JSpec, JFinal

\* A container changes only by the open job that is carried out on it.
THEOREM ChangedByJobs == JSpec => JChangedByJobs
<1>1. JInv /\ [JNext]_jvars =>
        [\A c \in ContainerIds : status'[c] # status[c] =>
           \/ status[c] = "none"
           \/ \E j \in executing : job[j].target = c /\ job[j].state \in Open]_jvars
  <2> SUFFICES ASSUME JInv, [JNext]_jvars, NEW c \in ContainerIds, status'[c] # status[c],
                      status[c] # "none"
               PROVE  \E j \in executing : job[j].target = c /\ job[j].state \in Open
    OBVIOUS
  <2>1. PICK j \in JobIds : Change(j) /\ job[j].target = c
    BY DEF JInv, JTypeOK, JNext, jvars, Insert, Submit, Begin, Announce, Change, End, Interrupt,
       Repair, Forget
  <2> QED BY <2>1 DEF Change, JInv, JExecutingOpen
<1> QED BY <1>1, JInvariant, PTL DEF JSpec, JChangedByJobs
=============================================================================
