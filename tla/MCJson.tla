------------------------------- MODULE MCJson -------------------------------
(***************************************************************************)
(* TLC instance of Json.  Values, handles and keys are interchangeable.    *)
(***************************************************************************)
EXTENDS Json

Symmetry == Permutations(Values) \cup Permutations(Handles) \cup Permutations(Keys)
=============================================================================
