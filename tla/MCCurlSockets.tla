---------------------------- MODULE MCCurlSockets ----------------------------
(***************************************************************************)
(* TLC instance of CurlSockets.  Sockets are interchangeable, and so are   *)
(* transfers and contexts.                                                 *)
(***************************************************************************)
EXTENDS CurlSockets, TLC

Symmetry == Permutations(Transfers) \cup Permutations(Sockets) \cup Permutations(Contexts)
=============================================================================
