---------------------------- MODULE MCCurlTimer ----------------------------
(***************************************************************************)
(* Instance of CurlTimer: two transfers, of which one has a limit.         *)
(***************************************************************************)
EXTENDS CurlTimer

CONSTANTS t1, t2, Limit

MCTimeout == [t \in Transfers |-> IF t = t1 THEN Limit ELSE 0]
=============================================================================
