------------------------------ MODULE MCListing ------------------------------
(***************************************************************************)
(* A small instance of Listing for TLC: rows are interchangeable, limits   *)
(* go past both corrections and pages past the width of an int.            *)
(***************************************************************************)
EXTENDS Listing, TLC

Symmetry == Permutations(Rows)
MCLimits == 0 .. MaxLimit + 1
=============================================================================
