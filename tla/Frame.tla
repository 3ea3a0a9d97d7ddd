-------------------------------- MODULE Frame --------------------------------
(***************************************************************************)
(* internal/session/frame.go: the wire frame [type][length][body], and the *)
(* bodies that carry a blob id.                                            *)
(*                                                                         *)
(* A byte is a digit in 0 .. Base-1 (256 in the code), a type is a name.   *)
(* The length is LenBytes digits (4), so that a word holds Word values     *)
(* (2^32) and sums of words are taken % Word; an id is IdBytes digits (8). *)
(***************************************************************************)
EXTENDS Digits

CONSTANTS Base, LenBytes, IdBytes,
          Types,      \* the six known frame types
          Unknown,    \* any other type byte
          Raws,       \* what Parse is given
          Bodies      \* what is framed

Header == 1 + LenBytes
Word == Base ^ LenBytes
Digit == 0 .. (Base - 1)

\* Big-endian digits of v, the highest ones cut off; and back.
PutBE(v, n) == [i \in 1 .. n |-> (v \div Base ^ (n - i)) % Base]
GetBE(s) == FromDigits(s, Base)

\* The length of a transport message has two bytes (readNoiseMsg), a word has four.
Ids == 0 .. (Base ^ IdBytes - 1)
FrameSizes ==
    /\ Base \in Nat \ {0, 1} /\ LenBytes \in Nat \ {0} /\ IdBytes \in Nat \ {0}
    /\ Header < Word /\ Unknown \notin Types
    /\ \A raw \in Raws : /\ raw \in Seq(Types \cup {Unknown} \cup Digit) /\ Len(raw) < Word
                         /\ \A i \in 2 .. Len(raw) : raw[i] \in Digit
    /\ \A b \in Bodies : b \in Seq(Digit) /\ Header + 2 * Len(b) < Word

\* What ^ means, as far as words and ids go; the provers know nothing of it.
PowerLaw ==
    Base ^ 0 = 1 /\ \A k \in 0 .. (LenBytes + IdBytes) : Base ^ (k + 1) = Base ^ k * Base

ASSUME FrameAssumption == FrameSizes /\ PowerLaw

\* Frame.
Encode(t, body) == <<t>> \o PutBE(Len(body) % Word, LenBytes) \o body

Malformed == [outcome |-> "malformed"]
Panics == [outcome |-> "panic"]
Parsed(t, body) == [outcome |-> "ok", type |-> t, body |-> body]

\* raw[5 : 5+l] with 5+l below 5 is a run-time panic.
SliceFrom(raw, t, end) ==
    IF end < Header THEN Panics ELSE Parsed(t, SubSeq(raw, Header + 1, end))

\* Parse. Bytes after the body are ignored. Mutant: a frame that ends with its
\* body is refused.
Bug_Parse(raw) ==
    LET end == (Header + GetBE(SubSeq(raw, 2, Header))) % Word
    IN  IF Len(raw) < Header \/ raw[1] \notin Types THEN Malformed
        ELSE IF Len(raw) % Word <= end THEN Malformed
        ELSE SliceFrom(raw, raw[1], end)
Parse(raw) ==
    LET end == (Header + GetBE(SubSeq(raw, 2, Header))) % Word
    IN  IF Len(raw) < Header \/ raw[1] \notin Types THEN Malformed
        ELSE IF Len(raw) % Word < end THEN Malformed
        ELSE SliceFrom(raw, raw[1], end)

EncodeDeliverBody(id, envelope) == PutBE(id, IdBytes) \o envelope
DecodeDeliverBody(body) ==
    IF Len(body) < IdBytes THEN Malformed
    ELSE [outcome |-> "ok", id |-> GetBE(SubSeq(body, 1, IdBytes)),
          envelope |-> SubSeq(body, IdBytes + 1, Len(body))]
EncodeDeliverAckBody(id) == PutBE(id, IdBytes)
DecodeDeliverAckBody(body) ==
    IF Len(body) < IdBytes THEN Malformed
    ELSE [outcome |-> "ok", id |-> GetBE(SubSeq(body, 1, IdBytes))]

-----------------------------------------------------------------------------
(* Properties.                                                             *)

\* What a frame is, without words: a header whose length the bytes after it
\* cover.
Claimed(raw) == GetBE(SubSeq(raw, 2, Header))
WellFormed(raw) ==
    Len(raw) >= Header /\ raw[1] \in Types /\ Claimed(raw) <= Len(raw) - Header

\* The Header highest lengths: 5+l wraps to less than 5, and the slice panics.
Wraps(raw) == Len(raw) >= Header /\ raw[1] \in Types /\ Claimed(raw) >= Word - Header

\* Parse reads back what Frame and the body encoders wrote, whatever follows it,
\* and takes no other bytes for a frame. It says nothing of the lengths that wrap:
\* those are what RefusesMalformed is about.
ParsesExactly ==
    /\ \A raw \in Raws : ~Wraps(raw) => Parse(raw) =
          IF ~WellFormed(raw) THEN Malformed
          ELSE Parsed(raw[1], SubSeq(raw, Header + 1, Header + Claimed(raw)))
    /\ \A t \in Types, b, rest \in Bodies : Parse(Encode(t, b) \o rest) = Parsed(t, b)
    /\ \A i \in Ids, b \in Bodies :
          /\ DecodeDeliverBody(EncodeDeliverBody(i, b)) =
                 [outcome |-> "ok", id |-> i, envelope |-> b]
          /\ DecodeDeliverAckBody(EncodeDeliverAckBody(i) \o b) =
                 [outcome |-> "ok", id |-> i]

\* "ok is false if raw is malformed or the type is unknown" (frame.go:79): what is
\* no frame is refused, whatever length its header claims.
RefusesMalformed == \A raw \in Raws : ~WellFormed(raw) => Parse(raw) = Malformed
=============================================================================
