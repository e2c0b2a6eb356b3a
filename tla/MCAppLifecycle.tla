---------------------------- MODULE MCAppLifecycle ----------------------------
(***************************************************************************)
(* Small instances of AppLifecycle for TLC.  The run that checks only a    *)
(* safety property takes connections and workers up to permutation.        *)
(***************************************************************************)
EXTENDS AppLifecycle, TLC

Symmetry == Permutations(Handlers) \cup Permutations(Workers)
=============================================================================
