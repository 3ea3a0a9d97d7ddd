------------------------------- MODULE Digits --------------------------------
(* Numbers from digits, for the length and id fields of a frame and for    *)
(* the groups of a varint.                                                 *)
EXTENDS Integers, Sequences

\* The value of the digits s, the highest first.
FromDigits(s, base) ==
    LET value[i \in 0 .. Len(s)] == IF i = 0 THEN 0 ELSE value[i - 1] * base + s[i]
    IN  value[Len(s)]
=============================================================================
