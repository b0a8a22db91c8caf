---------------------------- MODULE MCJsonNumbers ----------------------------
(***************************************************************************)
(* TLC instance of JsonNumbers: forms at the ends of the 64-bit integers   *)
(* and around them, and a buffer that is large enough for each.            *)
(***************************************************************************)
EXTENDS JsonNumbers

Nines == [i \in 1..18 |-> 9]
Quintillion == <<1>> \o [i \in 1..18 |-> 0]

MCTexts == {<<0>>, <<Minus, 1>>, Nines, <<Minus>> \o Nines, Quintillion, <<Minus>> \o Quintillion,
            Limit(FALSE), <<Minus>> \o Limit(TRUE), Limit(TRUE), <<9>> \o Limit(FALSE)}
=============================================================================
