---------------------------- MODULE MCFileStore ----------------------------
(* Bounded instances of FileStore for TLC: users, files, connections and    *)
(* replicas are interchangeable.                                            *)
EXTENDS FileRefinement, TLC

Symmetry == Permutations(Users) \cup Permutations(FileIds)
              \cup Permutations(Handlers) \cup Permutations(Procs)
=============================================================================
