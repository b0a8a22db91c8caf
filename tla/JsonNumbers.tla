----------------------------- MODULE JsonNumbers -----------------------------
(***************************************************************************)
(* 64-bit integers on their way between plugins and JSON values.           *)
(*                                                                         *)
(* Pawn has no 64-bit integers: plugins pass their decimal forms.  A form  *)
(* is a sequence of characters here, digits standing for themselves, and   *)
(* an integer is its sign and its digits, which keeps all 64 bits within   *)
(* the numbers TLC can handle.                                             *)
(***************************************************************************)
EXTENDS Integers, Sequences

CONSTANTS
    Texts,       \* the decimal forms plugins pass
    Sizes        \* the sizes of their buffers

VARIABLES
    value,       \* the json_t in the slot: an integer
    buffer,      \* what the last call of GetInt64 has written
    maxlength    \* and the room it had, 0 before the first call

nvars == <<value, buffer, maxlength>>

Minus == -1
Terminator == 1

Negative(text) == text # <<>> /\ text[1] = Minus
DigitsOf(text) == IF Negative(text) THEN Tail(text) ELSE text

\* The digits of LLONG_MAX and of LLONG_MIN.
Limit(negative) ==
    <<9, 2, 2, 3, 3, 7, 2, 0, 3, 6, 8, 5, 4, 7, 7, 5, 8, 0>> \o (IF negative THEN <<8>> ELSE <<7>>)

\* Digits without leading zeros, compared as numbers.
Exceeds(d, e) ==
    \/ Len(d) > Len(e)
    \/ /\ Len(d) = Len(e)
       /\ \E i \in DOMAIN d : d[i] > e[i] /\ \A j \in 1..(i - 1) : d[j] = e[j]

\* strtoll and json_strtoint, for decimal forms: the nearest 64-bit integer.
Strtoll(text) ==
    LET negative == Negative(text)
        digits == DigitsOf(text)
    IN [negative |-> negative,
        digits |-> IF Exceeds(digits, Limit(negative)) THEN Limit(negative) ELSE digits]

\* What "%lld" stands for.
DecimalForm(n) == (IF n.negative THEN <<Minus>> ELSE <<>>) \o n.digits

\* snprintf and StringToLocalUTF8 write what fits before the terminator.
Truncate(text, size) ==
    SubSeq(text, 1, IF Len(text) <= size - Terminator THEN Len(text) ELSE size - Terminator)

Init ==
    /\ value = [negative |-> FALSE, digits |-> <<0>>]
    /\ buffer = <<>> /\ maxlength = 0

\* SetObjectInt64Value, SetArrayInt64Value and PushArrayInt64Value.
SetInt64(text) ==
    /\ value' = Strtoll(text)
    /\ buffer' = <<>> /\ maxlength' = 0

\* GetObjectInt64Value and GetArrayInt64Value: by way of char result[20].
GetInt64(size) ==
    /\ buffer' = Truncate(Truncate(DecimalForm(value), 20), size)
    /\ maxlength' = size
    /\ UNCHANGED value

Next == (\E text \in Texts : SetInt64(text)) \/ (\E size \in Sizes : GetInt64(size))

Spec == Init /\ [][Next]_nvars

-----------------------------------------------------------------------------
(***************************************************************************)
(* Properties                                                              *)
(***************************************************************************)

\* "Retrieves a 64-bit integer value": a buffer with room for the integer gets
\* all of it, for every 64-bit integer (GetObjectInt64Value).
Int64Whole ==
    maxlength > Len(DecimalForm(value)) => buffer = DecimalForm(value)
=============================================================================
