----------------------------- MODULE MCJsonKeys -----------------------------
(***************************************************************************)
(* TLC instance of JsonKeys.  A liveness property is checked, so there is  *)
(* no symmetry.                                                            *)
(***************************************************************************)
EXTENDS JsonKeys
=============================================================================
