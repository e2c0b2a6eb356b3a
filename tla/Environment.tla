---------------------------- MODULE Environment ----------------------------
(***************************************************************************)
(* What the outside world may do to the system, each with a budget: calls  *)
(* to PostgreSQL or Docker that fail or whose reply is lost and requests   *)
(* that are cancelled (faults), processes that die (crashes), containers   *)
(* removed by hand on the Docker host (removals) and runs of the hourly    *)
(* clean-up of the jobs table (cleanups).                                  *)
(***************************************************************************)
EXTENDS Naturals

CONSTANTS MaxFaults, MaxCrashes, MaxRemovals, MaxCleanups

ASSUME BudgetAssumption ==
  {MaxFaults, MaxCrashes, MaxRemovals, MaxCleanups} \subseteq Nat

VARIABLE spent          \* how much of each budget has been used

Budgets == {"faults", "crashes", "removals", "cleanups"}
Limit == [faults |-> MaxFaults, crashes |-> MaxCrashes,
          removals |-> MaxRemovals, cleanups |-> MaxCleanups]

EnvInit == spent = [b \in Budgets |-> 0]

\* The step uses one unit of budget b.
Spend(b) == /\ spent[b] < Limit[b]
            /\ spent' = [spent EXCEPT ![b] = @ + 1]

Fault   == Spend("faults")       \* a call in this step fails or loses its reply
NoFault == UNCHANGED spent       \* every call in this step is answered
=============================================================================
