-------------------------- MODULE MCContainerManager --------------------------
(***************************************************************************)
(* Small instances of ContainerManager for TLC.  Connections and worker    *)
(* goroutines are interchangeable (no definition chooses among them), so   *)
(* the runs that check safety properties only take them up to permutation. *)
(***************************************************************************)
EXTENDS ManagerRefinement, TLC

Symmetry == Permutations(Handlers) \cup Permutations(Workers) \cup Permutations(Users)
=============================================================================
