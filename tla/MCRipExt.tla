------------------------------ MODULE MCRipExt ------------------------------
(***************************************************************************)
(* TLC instances of RipExt.  Contexts of one kind are interchangeable, and *)
(* so are plugins: the safety runs use that symmetry.                      *)
(***************************************************************************)
EXTENDS RipExt, TLC

Symmetry == Permutations(RequestContexts) \cup Permutations(FileContexts)
                \cup Permutations(Plugins)
=============================================================================
