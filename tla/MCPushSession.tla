--------------------------- MODULE MCPushSession ----------------------------
(* Four pipelined frames against a network that holds one answer, and the  *)
(* two parsers a pushed frame goes through, over all short byte strings.   *)
EXTENDS PushSession, TLC

UpTo(S, n) == UNION {[1 .. k -> S] : k \in 0 .. n}

\* Frames of up to three digits after the header: all lengths, the wrapped ones too.
ShortRaws == {<<>>} \cup
    {<<t>> \o s : t \in Types \cup {Unknown}, s \in UpTo(Digit, LenBytes + 3)}
ShortBodies == UpTo(Digit, 5)

\* Tags of a recipient, a fixed-size and a long-form field, lengths 0 .. 2, overlong ends.
\* Two recipients take six bytes.
Bytes == {0, 1, 2, 13, 26, 58}
ShortEnvelopes == UpTo(Bytes, 5) \cup {<<26>> \o s : s \in [1 .. 5 -> Bytes]}
=============================================================================
