-------------------------- MODULE EnvelopeRecipient --------------------------
(***************************************************************************)
(* internal/relay/envelope_recipient.go: the walk over a serialized        *)
(* Envelope that finds recipient_pub and reads nothing else.               *)
(*                                                                         *)
(* The sizes of the wire format are parameters, so that short byte strings *)
(* reach every case: a byte is in 0 .. 2*Group-1, its high bit says that   *)
(* the varint goes on. In the code Group is 128, MaxVarint 10, LastByte 1, *)
(* KeyLen 32, Fixed64 8, Fixed32 4, RecipientField 3.                      *)
(***************************************************************************)
EXTENDS Digits, FiniteSetsExt

CONSTANTS Group, MaxVarint, LastByte, KeyLen, Fixed64, Fixed32, RecipientField,
          Envelopes   \* the byte strings that are pushed

Byte == 0 .. (2 * Group - 1)

WireSizes ==
    /\ {Group, MaxVarint, KeyLen, Fixed64, Fixed32, RecipientField} \subseteq Nat \ {0}
    /\ LastByte \in 0 .. (Group - 1)
    /\ \A b \in Envelopes : b \in Seq(Byte)
ASSUME EnvelopeAssumption == WireSizes

NoKey == <<>>

\* The lowest group comes first; the high bit of each byte is masked.
Groups(s) == FromDigits([i \in 1 .. Len(s) |-> s[Len(s) + 1 - i] % Group], Group)

\* readVarint: the value at pos and the position after it, which is 0 when the
\* bytes end first or the varint is overlong. Mutant: the last byte is not tested.
NoVarint == [value |-> 0, next |-> 0]
VarintTo(b, pos, last) == [value |-> Groups(SubSeq(b, pos, last)), next |-> last + 1]
LastBytes(b, pos) == {i \in pos .. Len(b) : i - pos < MaxVarint /\ b[i] < Group}
Bug_readVarint(b, pos) ==
    IF LastBytes(b, pos) = {} THEN NoVarint ELSE VarintTo(b, pos, Min(LastBytes(b, pos)))
readVarint(b, pos) ==
    LET last == Min(LastBytes(b, pos))
        overlong == last - pos = MaxVarint - 1 /\ b[last] > LastByte
    IN  IF LastBytes(b, pos) = {} \/ overlong THEN NoVarint ELSE VarintTo(b, pos, last)

\* The position after a payload of the wire type that starts at p; 0 when the
\* varint there is bad or the wire type is not supported.
PayloadEnd(b, wire, p) ==
    LET v == readVarint(b, p)
    IN  CASE wire = 0 -> v.next
          [] wire = 1 -> p + Fixed64
          [] wire = 2 -> IF v.next = 0 THEN 0 ELSE v.next + v.value
          [] wire = 5 -> p + Fixed32
          [] OTHER -> 0

\* The position after the field at pos; 0 when the walk refuses it.
FieldEnd(b, pos) ==
    LET tag == readVarint(b, pos)
        end == PayloadEnd(b, tag.value % 8, tag.next)
    IN  IF tag.next = 0 \/ tag.value < 8 \/ end \notin 1 .. (Len(b) + 1) THEN 0 ELSE end

\* The field at pos is recipient_pub; where its key starts.
IsKey(b, pos) == readVarint(b, pos).value = 8 * RecipientField + 2
KeyFrom(b, pos) == readVarint(b, readVarint(b, pos).next).next
WrongSize(b, pos) == IsKey(b, pos) /\ FieldEnd(b, pos) - KeyFrom(b, pos) # KeyLen

\* The loop: the positions after the recipient keys found from pos on, with 0
\* among them when the walk ends in a refusal.
Walk(b) ==
    LET keys[pos \in 1 .. (Len(b) + 1)] ==
            LET end == FieldEnd(b, pos)
            IN  IF pos = Len(b) + 1 THEN {}
                ELSE IF end = 0 \/ WrongSize(b, pos) THEN {0}
                ELSE IF IsKey(b, pos) THEN {end} \cup keys[end] ELSE keys[end]
    IN  keys

\* extractEnvelopeRecipient: the walk finds exactly one recipient_pub.
extractEnvelopeRecipient(b) ==
    LET found == Walk(b)[1]
        end == CHOOSE e \in found : TRUE
    IN  IF \E e \in 1 .. (Len(b) + 1) : found = {e}
        THEN SubSeq(b, end - KeyLen, end - 1)
        ELSE NoKey

-----------------------------------------------------------------------------
(* The wire format as a grammar, read without a cursor.                    *)

IsVarint(s) == /\ Len(s) \in 1 .. MaxVarint /\ s[Len(s)] < Group
               /\ \A i \in 1 .. (Len(s) - 1) : s[i] >= Group
               /\ Len(s) = MaxVarint => s[Len(s)] <= LastByte
\* s is a varint followed by something: the lengths that varint can have.
Heads(s) == {k \in 1 .. Len(s) : IsVarint(SubSeq(s, 1, k))}
HeadValue(s, k) == Groups(SubSeq(s, 1, k))
Rest(s, k) == SubSeq(s, k + 1, Len(s))

IsPayload(wire, s) ==
    \/ wire = 0 /\ IsVarint(s)
    \/ wire = 1 /\ Len(s) = Fixed64
    \/ wire = 5 /\ Len(s) = Fixed32
    \/ wire = 2 /\ \E j \in Heads(s) : HeadValue(s, j) = Len(s) - j
IsField(s) == \E k \in Heads(s) :
    HeadValue(s, k) >= 8 /\ IsPayload(HeadValue(s, k) % 8, Rest(s, k))
IsRecipient(s) == \E k \in Heads(s) : HeadValue(s, k) = 8 * RecipientField + 2
\* After its tag and its length, the field s has KeyLen bytes.
HoldsKey(s) == \E k \in Heads(s) : \E j \in Heads(Rest(s, k)) : Len(s) = k + j + KeyLen

\* The ways to cut b into fields, from offset p on: neighbouring cuts enclose one.
Pieces(cuts) == {f \in cuts \X cuts : f[1] < f[2] /\ \A c \in cuts : c <= f[1] \/ f[2] <= c}
Piece(b, f) == SubSeq(b, f[1] + 1, f[2])
Cuts(b, p) == {cuts \in {c \cup {p, Len(b)} : c \in SUBSET ((p + 1) .. (Len(b) - 1))} :
                   \A f \in Pieces(cuts) : IsField(Piece(b, f))}
Recipients(b, cuts) == {f \in Pieces(cuts) : IsRecipient(Piece(b, f))}

\* The keys b can be addressed to: b is a run of fields, exactly one of them is a
\* recipient, and the key is what follows its tag and its length.
Addressees(b) ==
    LET runs == Cuts(b, 0)
        addressed == {f \in (0 .. Len(b)) \X (0 .. Len(b)) :
                         /\ HoldsKey(Piece(b, f))
                         /\ \E cuts \in runs : Recipients(b, cuts) = {f}}
    IN  {SubSeq(b, f[2] - KeyLen + 1, f[2]) : f \in addressed}

\* extractEnvelopeRecipient names an addressee exactly when the bytes are a valid
\* Envelope with one recipient of KeyLen bytes, and it is that one: no bytes are
\* stored for a recipient a protobuf decoder would not read from them.
WalkExact ==
    \A b \in Envelopes : Addressees(b) = {extractEnvelopeRecipient(b)} \ {NoKey}
=============================================================================
