-------------------------- MODULE HostilePipeProofs --------------------------
(***************************************************************************)
(* Proofs about HostilePipe, for every set of sessions and of rules, every *)
(* window, every capacity and every number of Blobs and commands.          *)
(***************************************************************************)
EXTENDS HostilePipe, TLAPS

-----------------------------------------------------------------------------
(* The ids of a sequence of Blobs.                                         *)

\* A sequence is the function of its elements.
LEMMA SeqEta == ASSUME NEW S, NEW s \in Seq(S) PROVE s = [i \in 1 .. Len(s) |-> s[i]]
  OBVIOUS

\* The ids of a sequence are those of its positions.
LEMMA IdsOf ==
    ASSUME NEW s \in Seq(Blob)
    PROVE  /\ \A i \in 1 .. Len(s) : s[i] \in Blob /\ s[i].id \in Nat /\ s[i].id \in Ids(s)
           /\ \A n \in Ids(s) : \E i \in 1 .. Len(s) : n = s[i].id
           /\ Ids(s) \subseteq Nat
<1>1. DOMAIN s = 1 .. Len(s) /\ \A i \in 1 .. Len(s) : s[i] \in Blob
  OBVIOUS
<1>2. \A b \in Blob : b.id \in Nat
  BY DEF Blob
<1> QED
  BY <1>1, <1>2 DEF Ids

\* An empty sequence has no ids.
LEMMA IdsEmpty == Ids(<<>>) = {}
  BY DEF Ids

\* A Blob added at the end adds its id.
LEMMA IdsAppend ==
    ASSUME NEW s \in Seq(Blob), NEW b \in Blob
    PROVE  /\ Append(s, b) \in Seq(Blob) /\ Len(Append(s, b)) = Len(s) + 1
           /\ Ids(Append(s, b)) = Ids(s) \cup {b.id}
<1> DEFINE t == Append(s, b)
<1>1. /\ t \in Seq(Blob) /\ Len(s) \in Nat /\ Len(t) = Len(s) + 1 /\ t[Len(s) + 1] = b
      /\ \A i \in 1 .. Len(s) : t[i] = s[i]
  OBVIOUS
<1> HIDE DEF t
<1>2. Len(s) + 1 \in 1 .. Len(t) /\ 1 .. Len(s) \subseteq 1 .. Len(t)
  BY <1>1
<1>3. ASSUME NEW n \in Ids(t) PROVE n \in Ids(s) \cup {b.id}
  <2>1. PICK i \in 1 .. Len(t) : n = t[i].id
    BY <1>1, IdsOf
  <2>2. i = Len(s) + 1 \/ i \in 1 .. Len(s)
    BY <1>1
  <2> QED
    BY <1>1, <2>1, <2>2, IdsOf
<1>4. ASSUME NEW n \in Ids(s) PROVE n \in Ids(t)
  <2>1. PICK i \in 1 .. Len(s) : n = s[i].id
    BY IdsOf
  <2> QED
    BY <1>1, <1>2, <2>1, IdsOf
<1>5. b.id \in Ids(t)
  BY <1>1, <1>2, IdsOf
<1> QED
  BY <1>1, <1>3, <1>4, <1>5 DEF t

\* Concatenation joins the ids.
LEMMA IdsConcat ==
    ASSUME NEW s \in Seq(Blob), NEW u \in Seq(Blob)
    PROVE  s \o u \in Seq(Blob) /\ Ids(s \o u) = Ids(s) \cup Ids(u)
<1> DEFINE t == s \o u
<1>1. /\ t \in Seq(Blob) /\ Len(s) \in Nat /\ Len(u) \in Nat /\ Len(t) = Len(s) + Len(u)
      /\ \A i \in 1 .. Len(s) : t[i] = s[i]
  OBVIOUS
<1>2. \A i \in 1 .. Len(u) : t[Len(s) + i] = u[i]
  OBVIOUS
<1> HIDE DEF t
<1>3. ASSUME NEW n \in Ids(t) PROVE n \in Ids(s) \cup Ids(u)
  <2>1. PICK i \in 1 .. Len(t) : n = t[i].id
    BY <1>1, IdsOf
  <2>2. CASE i \in 1 .. Len(s)
    BY <1>1, <2>1, <2>2, IdsOf
  <2>3. CASE i \notin 1 .. Len(s)
    <3>1. i - Len(s) \in 1 .. Len(u) /\ Len(s) + (i - Len(s)) = i
      BY <1>1, <2>3
    <3>2. t[i] = u[i - Len(s)]
      BY <1>2, <3>1
    <3> QED
      BY <2>1, <3>1, <3>2, IdsOf
  <2> QED
    BY <2>2, <2>3
<1>4. ASSUME NEW n \in Ids(s) PROVE n \in Ids(t)
  <2>1. PICK i \in 1 .. Len(s) : n = s[i].id
    BY IdsOf
  <2>2. i \in 1 .. Len(t)
    BY <1>1
  <2> QED
    BY <1>1, <2>1, <2>2, IdsOf
<1>5. ASSUME NEW n \in Ids(u) PROVE n \in Ids(t)
  <2>1. PICK i \in 1 .. Len(u) : n = u[i].id
    BY IdsOf
  <2>2. Len(s) + i \in 1 .. Len(t)
    BY <1>1
  <2> QED
    BY <1>1, <1>2, <2>1, <2>2, IdsOf
<1> QED
  BY <1>1, <1>3, <1>4, <1>5 DEF t

\* A reversed window has the same ids.
LEMMA IdsReverse ==
    ASSUME NEW s \in Seq(Blob)
    PROVE  Reverse(s) \in Seq(Blob) /\ Ids(Reverse(s)) = Ids(s)
<1> DEFINE t == Reverse(s)
<1>1. /\ Len(s) \in Nat /\ \A i \in 1 .. Len(s) : Len(s) - i + 1 \in 1 .. Len(s)
      /\ \A i \in 1 .. Len(s) : s[i] \in Blob
  OBVIOUS
<1>2. t \in Seq(Blob) /\ Len(t) = Len(s)
  BY <1>1 DEF Reverse
<1>3. \A i \in 1 .. Len(s) : t[i] = s[Len(s) - i + 1]
  BY <1>1 DEF Reverse
<1> HIDE DEF t
<1>4. \A n \in Ids(t) : n \in Ids(s)
  <2> TAKE n \in Ids(t)
  <2>1. PICK i \in 1 .. Len(t) : n = t[i].id
    BY <1>2, IdsOf
  <2> QED
    BY <1>1, <1>2, <1>3, <2>1, IdsOf
<1>5. \A n \in Ids(s) : n \in Ids(t)
  <2> TAKE n \in Ids(s)
  <2>1. PICK i \in 1 .. Len(s) : n = s[i].id
    BY IdsOf
  <2>2. Len(s) - i + 1 \in 1 .. Len(s) /\ Len(s) - (Len(s) - i + 1) + 1 = i
    BY <1>1
  <2>3. t[Len(s) - i + 1] = s[i]
    BY <1>3, <2>2
  <2> QED
    BY <1>2, <2>1, <2>2, <2>3, IdsOf
<1> QED
  BY <1>2, <1>4, <1>5 DEF t

\* A part of a sequence has no other ids.
LEMMA IdsPart ==
    ASSUME NEW s \in Seq(Blob), NEW m \in Nat, m >= 1
    PROVE  /\ SubSeq(s, m, Len(s)) \in Seq(Blob)
           /\ Ids(SubSeq(s, m, Len(s))) \subseteq Ids(s)
           /\ m <= Len(s) => Len(SubSeq(s, m, Len(s))) = Len(s) - m + 1
<1> DEFINE t == SubSeq(s, m, Len(s))
<1>0. Len(s) \in Nat
  OBVIOUS
<1>1. t \in Seq(Blob)
  OBVIOUS
<1>2. Len(t) = IF m <= Len(s) THEN Len(s) - m + 1 ELSE 0
  BY <1>0
<1>3. \A i \in 1 .. Len(t) : t[i] = s[m + i - 1]
  BY <1>0, <1>2
<1> HIDE DEF t
<1>4. \A n \in Ids(t) : n \in Ids(s)
  <2> TAKE n \in Ids(t)
  <2>1. PICK i \in 1 .. Len(t) : n = t[i].id
    BY <1>1, IdsOf
  <2>2. m + i - 1 \in 1 .. Len(s)
    BY <1>0, <1>2
  <2> QED
    BY <1>3, <2>1, <2>2, IdsOf
<1>5. m <= Len(s) => Len(t) = Len(s) - m + 1
  BY <1>0, <1>2
<1> QED
  BY <1>1, <1>4, <1>5 DEF t

\* The head's id and the tail's are the sequence's.
LEMMA IdsTail ==
    ASSUME NEW s \in Seq(Blob), s # <<>>
    PROVE  /\ Head(s) \in Blob /\ Tail(s) \in Seq(Blob) /\ Len(Tail(s)) = Len(s) - 1
           /\ Ids(s) = {Head(s).id} \cup Ids(Tail(s))
<1> DEFINE t == Tail(s)
<1>1. /\ t \in Seq(Blob) /\ Len(s) \in Nat /\ Len(s) >= 1 /\ Len(t) = Len(s) - 1
      /\ Head(s) = s[1] /\ s[1] \in Blob
      /\ \A i \in 1 .. Len(t) : t[i] = s[i + 1]
  OBVIOUS
<1> HIDE DEF t
<1>2. ASSUME NEW n \in Ids(s) PROVE n \in {Head(s).id} \cup Ids(t)
  <2>1. PICK i \in 1 .. Len(s) : n = s[i].id
    BY IdsOf
  <2>2. CASE i = 1
    BY <1>1, <2>1, <2>2
  <2>3. CASE i # 1
    <3>1. i - 1 \in 1 .. Len(t) /\ (i - 1) + 1 = i
      BY <1>1, <2>3
    <3> QED
      BY <1>1, <2>1, <3>1, IdsOf
  <2> QED
    BY <2>2, <2>3
<1>3. Head(s).id \in Ids(s)
  <2>1. 1 \in 1 .. Len(s)
    BY <1>1
  <2> QED
    BY <1>1, <2>1, IdsOf
<1>4. ASSUME NEW n \in Ids(t) PROVE n \in Ids(s)
  <2>1. PICK i \in 1 .. Len(t) : n = t[i].id
    BY <1>1, IdsOf
  <2>2. i + 1 \in 1 .. Len(s)
    BY <1>1
  <2> QED
    BY <1>1, <2>1, <2>2, IdsOf
<1> QED
  BY <1>1, <1>2, <1>3, <1>4 DEF t

\* A function on 1 .. n is a sequence.
LEMMA SeqFromFunction ==
    ASSUME NEW S, NEW n \in Nat, NEW f \in [1 .. n -> S]
    PROVE  f \in Seq(S) /\ Len(f) = n
  OBVIOUS

\* What is still to send, with and without the record flag.
LEMMA BlobsOf ==
    ASSUME NEW s \in Seq(Blob)
    PROVE  /\ Recorded(s) \in Seq(Sendable) /\ Blobs(Recorded(s)) = s
           /\ Repeated(s) \in Seq(Sendable) /\ Blobs(Repeated(s)) = s
<1>1. /\ DOMAIN s = 1 .. Len(s) /\ Len(s) \in Nat /\ s = [i \in 1 .. Len(s) |-> s[i]]
      /\ \A i \in 1 .. Len(s) : s[i] \in Blob
  OBVIOUS
<1>2. \A b \in Blob, f \in BOOLEAN : [blob |-> b, record |-> f] \in Sendable
  BY DEF Sendable
<1>3. Recorded(s) \in Seq(Sendable) /\ DOMAIN Recorded(s) = 1 .. Len(s)
  <2>1. Recorded(s) \in [1 .. Len(s) -> Sendable]
    BY <1>1, <1>2 DEF Recorded
  <2> QED
    BY <1>1, <2>1, SeqFromFunction
<1>4. \A i \in 1 .. Len(s) : Recorded(s)[i].blob = s[i]
  BY <1>1 DEF Recorded
<1>5. Repeated(s) \in Seq(Sendable) /\ DOMAIN Repeated(s) = 1 .. Len(s)
  <2>1. Repeated(s) \in [1 .. Len(s) -> Sendable]
    BY <1>1, <1>2 DEF Repeated
  <2> QED
    BY <1>1, <2>1, SeqFromFunction
<1>6. \A i \in 1 .. Len(s) : Repeated(s)[i].blob = s[i]
  BY <1>1 DEF Repeated
<1>7. Blobs(Recorded(s)) = s
  BY <1>1, <1>3, <1>4 DEF Blobs
<1>8. Blobs(Repeated(s)) = s
  BY <1>1, <1>5, <1>6 DEF Blobs
<1> QED
  BY <1>3, <1>5, <1>7, <1>8

\* Sending the first of them leaves the others.
LEMMA BlobsTail ==
    ASSUME NEW t \in Seq(Sendable), t # <<>>
    PROVE  /\ Blobs(t) \in Seq(Blob) /\ Blobs(t) # <<>> /\ Tail(t) \in Seq(Sendable)
           /\ Head(t) \in Sendable /\ Head(t).blob \in Blob /\ Head(t).record \in BOOLEAN
           /\ Head(Blobs(t)) = Head(t).blob /\ Blobs(Tail(t)) = Tail(Blobs(t))
<1>1. /\ DOMAIN t = 1 .. Len(t) /\ Len(t) \in Nat /\ Len(t) >= 1
      /\ \A i \in 1 .. Len(t) : t[i] \in Sendable
      /\ Head(t) = t[1] /\ Head(t) \in Sendable
  OBVIOUS
<1>2. /\ Tail(t) \in Seq(Sendable) /\ Len(Tail(t)) = Len(t) - 1
      /\ DOMAIN Tail(t) = 1 .. (Len(t) - 1)
      /\ \A i \in 1 .. (Len(t) - 1) : Tail(t)[i] = t[i + 1]
  OBVIOUS
<1>3. \A x \in Sendable : x.blob \in Blob /\ x.record \in BOOLEAN
  BY DEF Sendable
<1> DEFINE b == Blobs(t)
<1>4. b \in Seq(Blob) /\ Len(b) = Len(t) /\ \A i \in 1 .. Len(t) : b[i] = t[i].blob
  BY <1>1, <1>3 DEF Blobs
<1>5. b # <<>> /\ Head(b) = b[1] /\ b[1] = Head(t).blob
  <2>1. 1 \in 1 .. Len(t)
    BY <1>1
  <2>2. b # <<>>
    BY <1>1, <1>4
  <2> HIDE DEF b
  <2> QED
    BY <1>1, <1>4, <2>1, <2>2
<1>6. /\ Tail(b) \in Seq(Blob) /\ Len(Tail(b)) = Len(t) - 1
      /\ \A i \in 1 .. (Len(t) - 1) : Tail(b)[i] = t[i + 1].blob
  <2> HIDE DEF b
  <2>1. /\ Tail(b) \in Seq(Blob) /\ Len(Tail(b)) = Len(b) - 1
        /\ \A i \in 1 .. (Len(b) - 1) : Tail(b)[i] = b[i + 1]
    BY <1>4, <1>5
  <2>2. \A i \in 1 .. (Len(t) - 1) : i + 1 \in 1 .. Len(t)
    BY <1>1
  <2> QED
    BY <1>4, <2>1, <2>2
<1>7. Blobs(Tail(t)) = [i \in 1 .. (Len(t) - 1) |-> t[i + 1].blob]
  BY <1>2 DEF Blobs
<1>8. Tail(b) = [i \in 1 .. (Len(t) - 1) |-> Tail(b)[i]]
  BY <1>6, SeqEta
<1> QED
  BY <1>1, <1>2, <1>3, <1>4, <1>5, <1>6, <1>7, <1>8

-----------------------------------------------------------------------------
(* The pipe's operators.                                                   *)

\* What emit works on.
Buffers == [held : Seq(Blob), send : Seq(Blob)]

\* A placed Blob is held or sent, and a full window is sent whole: no id is lost
\* and none comes from nowhere.
LEMMA PlaceIds ==
    ASSUME NEW r \in Rules, NEW s \in Buffers, NEW b \in Blob
    PROVE  /\ Place(r, s, b) \in Buffers
           /\ Ids(Place(r, s, b).held) \cup Ids(Place(r, s, b).send)
                = Ids(s.held) \cup Ids(s.send) \cup {b.id}
<1> DEFINE w == Append(s.held, b)
           q == Append(s.send, b)
           v == s.send \o Reverse(w)
<1>1. s.held \in Seq(Blob) /\ s.send \in Seq(Blob)
  BY DEF Buffers
<1>2. /\ w \in Seq(Blob) /\ Ids(w) = Ids(s.held) \cup {b.id}
      /\ q \in Seq(Blob) /\ Ids(q) = Ids(s.send) \cup {b.id}
  BY <1>1, IdsAppend
<1>3. v \in Seq(Blob) /\ Ids(v) = Ids(s.send) \cup Ids(s.held) \cup {b.id}
  <2> HIDE DEF w
  <2>1. Reverse(w) \in Seq(Blob) /\ Ids(Reverse(w)) = Ids(w)
    BY <1>2, IdsReverse
  <2> QED
    BY <1>1, <1>2, <2>1, IdsConcat
<1>4. s = [held |-> s.held, send |-> s.send]
  BY DEF Buffers
<1>5. \/ Place(r, s, b) = [held |-> s.held, send |-> q]
      \/ Place(r, s, b) = [held |-> w, send |-> s.send]
      \/ Place(r, s, b) = [held |-> <<>>, send |-> v]
  <2>1. [s EXCEPT !.send = Append(@, b)] = [held |-> s.held, send |-> q]
    BY <1>4
  <2>2. [s EXCEPT !.held = w] = [held |-> w, send |-> s.send]
    BY <1>4
  <2> QED
    BY <2>1, <2>2 DEF Place
<1> HIDE DEF w, q, v
<1>6. CASE Place(r, s, b) = [held |-> s.held, send |-> q]
  BY <1>1, <1>2, <1>6 DEF Buffers
<1>7. CASE Place(r, s, b) = [held |-> w, send |-> s.send]
  BY <1>1, <1>2, <1>7 DEF Buffers
<1>8. CASE Place(r, s, b) = [held |-> <<>>, send |-> v]
  BY <1>3, <1>8, IdsEmpty DEF Buffers
<1> QED
  BY <1>5, <1>6, <1>7, <1>8

\* emit drops a Blob or passes its id on, and keeps every id held before.
LEMMA EmitIds ==
    ASSUME NEW r \in Rules, NEW h \in Seq(Blob), NEW b \in Blob
    PROVE  /\ Emit(r, h, b) \in Buffers
           /\ Ids(Emit(r, h, b).held) \cup Ids(Emit(r, h, b).send)
                = Ids(h) \cup (IF r.drop THEN {} ELSE {b.id})
<1> DEFINE c == IF r.corrupt THEN Corrupted(b) ELSE b
           s == [held |-> h, send |-> <<>>]
           once == Place(r, s, c)
           twice == Place(r, once, c)
<1>1. c \in Blob /\ c.id = b.id
  BY DEF Corrupted, Blob
<1>2. s \in Buffers /\ Ids(s.held) \cup Ids(s.send) = Ids(h)
  BY IdsEmpty DEF Buffers
<1> HIDE DEF c, s
<1>3. once \in Buffers /\ Ids(once.held) \cup Ids(once.send) = Ids(h) \cup {b.id}
  <2>1. once \in Buffers
    BY <1>1, <1>2, PlaceIds
  <2>2. Ids(once.held) \cup Ids(once.send) = Ids(s.held) \cup Ids(s.send) \cup {c.id}
    BY <1>1, <1>2, PlaceIds
  <2>3. Ids(s.held) \cup Ids(s.send) \cup {c.id} = Ids(h) \cup {b.id}
    BY <1>1, <1>2
  <2> QED
    BY <2>1, <2>2, <2>3
<1> HIDE DEF once
<1>4. twice \in Buffers /\ Ids(twice.held) \cup Ids(twice.send) = Ids(h) \cup {b.id}
  <2>1. twice \in Buffers
    BY <1>1, <1>3, PlaceIds
  <2>2. Ids(twice.held) \cup Ids(twice.send)
          = Ids(once.held) \cup Ids(once.send) \cup {c.id}
    <3>1. once \in Buffers
      BY <1>3
    <3> QED
      BY <1>1, <3>1, PlaceIds DEF twice
  <2> QED
    BY <1>1, <1>3, <2>1, <2>2
<1> HIDE DEF twice
<1>5. Emit(r, h, b) = IF r.drop THEN s ELSE IF r.duplicate THEN twice ELSE once
  BY DEF Emit, c, s, once, twice
<1> QED
  BY <1>2, <1>3, <1>4, <1>5

\* The history keeps the last HistoryCap Blobs.
LEMMA RememberIds ==
    ASSUME NEW h \in Seq(Blob), NEW b \in Blob
    PROVE  /\ Remember(h, b) \in Seq(Blob) /\ Len(Remember(h, b)) <= HistoryCap
           /\ Ids(Remember(h, b)) \subseteq Ids(h) \cup {b.id}
<1> DEFINE a == Append(h, b)
           m == IF Len(a) > HistoryCap THEN Len(a) - HistoryCap + 1 ELSE 1
<1>1. a \in Seq(Blob) /\ Ids(a) = Ids(h) \cup {b.id} /\ Len(a) = Len(h) + 1
  BY IdsAppend
<1>2. Len(a) \in Nat /\ Len(a) >= 1 /\ HistoryCap \in Nat /\ HistoryCap >= 1
  BY <1>1, HostileAssumption
<1> HIDE DEF a
<1>3. m \in Nat /\ m >= 1 /\ m <= Len(a) /\ Len(a) - m + 1 <= HistoryCap
  BY <1>2
<1>4. Remember(h, b) = SubSeq(a, m, Len(a))
  BY DEF Remember, a
<1> HIDE DEF m
<1> QED
  BY <1>1, <1>3, <1>4, IdsPart

\* The honest stream is a sequence that grows by the next stored Blob.
LEMMA StreamGrows ==
    ASSUME NEW n \in Nat
    PROVE  /\ Stream(n) \in Seq(Blob) /\ Len(Stream(n)) = n
           /\ Append(Stream(n), Stored(n + 1)) = Stream(n + 1)
<1>1. \A i \in 1 .. n + 1 : Stored(i) \in Blob
  BY DEF Stored, Blob
<1>2. Stream(n) \in [1 .. n -> Blob]
  BY <1>1 DEF Stream
<1>3. Stream(n) \in Seq(Blob) /\ Len(Stream(n)) = n
  BY <1>2, SeqFromFunction
<1>4. n + 1 \in Nat /\ n + 1 \in 1 .. n + 1
  OBVIOUS
<1> DEFINE t == Append(Stream(n), Stored(n + 1))
<1>5. /\ t \in Seq(Blob) /\ Len(t) = n + 1 /\ t[n + 1] = Stored(n + 1)
      /\ \A i \in 1 .. n : t[i] = Stream(n)[i]
  <2>1. Stored(n + 1) \in Blob
    BY <1>1, <1>4
  <2> QED
    BY <1>3, <2>1
<1> HIDE DEF t
<1>6. \A i \in 1 .. n + 1 : t[i] = Stored(i)
  <2> TAKE i \in 1 .. n + 1
  <2>1. i = n + 1 \/ i \in 1 .. n
    OBVIOUS
  <2> QED
    BY <1>5, <2>1 DEF Stream
<1>7. t = [i \in 1 .. n + 1 |-> t[i]]
  BY <1>5, SeqEta
<1> QED
  BY <1>3, <1>6, <1>7 DEF Stream, t

\* A shorter honest stream is a prefix of a longer one.
LEMMA StreamPrefix ==
    ASSUME NEW m \in Nat, NEW n \in Nat, m <= n
    PROVE  IsPrefix(Stream(m), Stream(n))
<1>1. /\ Stream(m) \in Seq(Blob) /\ Len(Stream(m)) = m
      /\ Stream(n) \in Seq(Blob) /\ Len(Stream(n)) = n
  BY StreamGrows
<1> DEFINE s == SubSeq(Stream(m), 1, m)
           t == SubSeq(Stream(n), 1, m)
<1>2. \A i \in 1 .. m : Stream(m)[i] = Stored(i) /\ Stream(n)[i] = Stored(i)
  BY DEF Stream
<1>3. s \in Seq(Blob) /\ Len(s) = m /\ \A i \in 1 .. m : s[i] = Stream(m)[i]
  BY <1>1
<1>4. t \in Seq(Blob) /\ Len(t) = m /\ \A i \in 1 .. m : t[i] = Stream(n)[i]
  BY <1>1
<1> HIDE DEF s, t
<1>5. s = [i \in 1 .. m |-> s[i]] /\ t = [i \in 1 .. m |-> t[i]]
  BY <1>3, <1>4, SeqEta
<1>6. s = t
  BY <1>2, <1>3, <1>4, <1>5
<1> QED
  BY <1>1, <1>6 DEF IsPrefix, s, t

\* Without rules a Blob goes straight out.
LEMMA EmitHonest ==
    ASSUME NEW b \in Blob
    PROVE  /\ Emit(Honest, <<>>, b) = [held |-> <<>>, send |-> <<b>>]
           /\ Recorded(<<b>>) = <<[blob |-> b, record |-> TRUE]>>
           /\ Blobs(<<[blob |-> b, record |-> TRUE]>>) = <<b>>
<1>1. Emit(Honest, <<>>, b) = [held |-> <<>>, send |-> <<b>>]
  BY DEF Emit, Place, Honest
<1>2. Recorded(<<b>>) = <<[blob |-> b, record |-> TRUE]>>
  <2> DEFINE t == Recorded(<<b>>)
  <2>1. <<b>> \in Seq(Blob) /\ DOMAIN <<b>> = 1 .. 1 /\ <<b>>[1] = b
    OBVIOUS
  <2>2. t = [i \in 1 .. 1 |-> [blob |-> <<b>>[i], record |-> TRUE]]
    BY <2>1 DEF Recorded
  <2>6. t \in Seq(Sendable)
    BY <2>1, BlobsOf
  <2> HIDE DEF t
  <2>3. DOMAIN t = 1 .. 1 /\ t[1] = [blob |-> b, record |-> TRUE]
    <3>1. DOMAIN t = 1 .. 1
      BY <2>2
    <3>4. \A i \in 1 .. 1 : t[i] = [blob |-> <<b>>[i], record |-> TRUE]
      BY <2>2, Zenon
    <3>5. 1 \in 1 .. 1
      OBVIOUS
    <3>2. t[1] = [blob |-> <<b>>[1], record |-> TRUE]
      BY <3>4, <3>5, Zenon
    <3>3. <<b>>[1] = b
      OBVIOUS
    <3> QED
      BY <3>1, <3>2, <3>3
  <2>4. Len(t) = 1
    BY <2>3, <2>6
  <2>5. t = <<t[1]>>
    BY <2>4, <2>6
  <2> QED
    BY <2>3, <2>5 DEF t
<1>3. Blobs(<<[blob |-> b, record |-> TRUE]>>) = <<b>>
  BY DEF Blobs
<1> QED
  BY <1>1, <1>2, <1>3

-----------------------------------------------------------------------------
(* The accounts.                                                           *)

\* A step that leaves a pipe alone leaves its accounts alone.
LEMMA PipeFrame ==
    ASSUME NEW p \in Pipes, PipeAccounts(p),
           loop'[p] = loop[p], todo'[p] = todo[p], held'[p] = held[p],
           history'[p] = history[p], injectCh'[p] = injectCh[p], read'[p] = read[p],
           out'[p] = out[p], ctxDone'[p] = ctxDone[p], withheld'[p] = withheld[p]
    PROVE  PipeAccounts(p)'
  BY DEF PipeAccounts, Passed, InHand

\* A step of pipe p disturbs no other pipe.
Alone(p) ==
    \A q \in Pipes \ {p} :
       /\ loop'[q] = loop[q] /\ todo'[q] = todo[q] /\ held'[q] = held[q]
       /\ history'[q] = history[q] /\ injectCh'[q] = injectCh[q]
       /\ read'[q] = read[q] /\ out'[q] = out[q] /\ ctxDone'[q] = ctxDone[q]
       /\ withheld'[q] = withheld[q]

\* So the accounts hold when that pipe's do.
LEMMA OnePipe ==
    ASSUME AccountInv, NEW p \in Pipes, TypeOK', PipeAccounts(p)', control' = control,
           Alone(p)
    PROVE  AccountInv'
<1>1. \A q \in Pipes \ {p} : PipeAccounts(q)'
  BY PipeFrame DEF AccountInv, Alone
<1> QED
  BY <1>1 DEF AccountInv

\* What a pipe has, as types.
LEMMA PipeTypes ==
    ASSUME AccountInv, NEW p \in Pipes
    PROVE  /\ todo[p] \in Seq(Sendable) /\ held[p] \in Seq(Blob)
           /\ history[p] \in Seq(Blob) /\ injectCh[p] \in Seq(Blob) /\ out[p] \in Seq(Blob)
           /\ read[p] \in Nat /\ fed[p] \in Nat /\ taken[p] \in Nat
           /\ read[p] <= fed[p] /\ fed[p] <= MaxBlobs /\ MaxBlobs \in Nat
           /\ rulesFor \in Rules
<1>1. Honest \in Rules
  BY DEF Honest, Rules
<1>2. rulesFor \in Rules
  BY <1>1 DEF AccountInv, TypeOK, rulesFor
<1> QED
  BY <1>2, HostileAssumption DEF AccountInv, TypeOK

\* A Blob from the Router is withheld, held or about to be sent.
LEMMA ReadInAccounts ==
    ASSUME AccountInv, NEW p \in Pipes, ReadIn(p) PROVE AccountInv'
<1> DEFINE n == read[p] + 1
           b == Stored(n)
           e == Emit(rulesFor, held[p], b)
           w == IF rulesFor.drop THEN {n} ELSE {}
<1>t. /\ held[p] \in Seq(Blob) /\ read[p] \in Nat /\ fed[p] \in Nat /\ rulesFor \in Rules
      /\ fed[p] <= MaxBlobs /\ MaxBlobs \in Nat
  BY PipeTypes
<1>1. /\ loop[p] = "select" /\ read[p] < fed[p]
      /\ read' = [read EXCEPT ![p] = n] /\ held' = [held EXCEPT ![p] = e.held]
      /\ todo' = [todo EXCEPT ![p] = Recorded(e.send)]
      /\ loop' = [loop EXCEPT ![p] = IF todo'[p] = <<>> THEN "select" ELSE "send"]
      /\ UNCHANGED <<rules, control, commands, told, sessions, history, injectCh,
                     replayCh, fed, inClosed, out, taken, ctxDone>>
  BY DEF ReadIn, Sending, Goto, pipeFrame, queues, sink
<1>2. withheld' = [withheld EXCEPT ![p] = @ \cup w]
  BY DEF ReadIn, Stored
<1>3. b \in Blob /\ b.id = n /\ n \in Nat
  BY <1>t DEF Stored, Blob
<1>4. /\ e \in Buffers
      /\ Ids(e.held) \cup Ids(e.send) = Ids(held[p]) \cup (IF rulesFor.drop THEN {} ELSE {n})
  <2> HIDE DEF b
  <2>1. Ids(e.held) \cup Ids(e.send)
          = Ids(held[p]) \cup (IF rulesFor.drop THEN {} ELSE {b.id})
    BY <1>3, <1>t, EmitIds
  <2>2. e \in Buffers
    BY <1>3, <1>t, EmitIds
  <2> QED
    BY <1>3, <2>1, <2>2
<1> HIDE DEF e, b
<1>5. /\ e.held \in Seq(Blob) /\ e.send \in Seq(Blob)
      /\ Recorded(e.send) \in Seq(Sendable) /\ Blobs(Recorded(e.send)) = e.send
  BY <1>4, BlobsOf DEF Buffers
<1>6. TypeOK'
  <2>1. /\ todo' \in [Pipes -> Seq(Sendable)] /\ held' \in [Pipes -> Seq(Blob)]
        /\ read' \in [Pipes -> Nat] /\ withheld' \in [Pipes -> SUBSET Nat]
    BY <1>1, <1>2, <1>3, <1>5 DEF AccountInv, TypeOK
  <2>2. loop' \in [Pipes -> {"new", "select", "send", "flush", "leave", "closed"}]
    BY <1>1, <1>2 DEF AccountInv, TypeOK
  <2>3. \A q \in Pipes : read'[q] <= fed'[q]
    BY <1>1, <1>2, <1>3 DEF AccountInv, TypeOK
  <2> QED
    BY <1>1, <1>2, <2>1, <2>2, <2>3 DEF AccountInv, TypeOK
<1>7. /\ read'[p] = n /\ held'[p] = e.held /\ Blobs(todo'[p]) = e.send
      /\ withheld'[p] = withheld[p] \cup w
      /\ loop'[p] = IF todo'[p] = <<>> THEN "select" ELSE "send"
  BY <1>1, <1>2, <1>5 DEF AccountInv, TypeOK
<1>8. PipeAccounts(p)'
  <2>1. PipeAccounts(p)
    BY DEF AccountInv
  <2>2. n \notin 1 .. read[p] /\ n \notin Synthetic /\ 1 .. n = (1 .. read[p]) \cup {n}
    BY <1>1, <1>t DEF Synthetic, SyntheticBase
  <2>3. Passed(p)' = Passed(p) \cup (IF rulesFor.drop THEN {} ELSE {n})
    BY <1>7, <2>1, <2>2 DEF Passed, PipeAccounts
  <2>4. withheld'[p] \subseteq 1 .. read'[p]
    BY <1>7, <2>1, <2>2 DEF PipeAccounts
  <2>5. Ids(held'[p]) \subseteq Passed(p)' /\ Ids(Blobs(todo'[p])) \subseteq Passed(p)'
    BY <1>4, <1>7, <2>1, <2>3 DEF PipeAccounts
  <2>6. /\ Ids(out'[p]) \subseteq Passed(p)' /\ Ids(history'[p]) \subseteq Passed(p)'
        /\ Ids(injectCh'[p]) \subseteq Synthetic
    BY <1>1, <2>1, <2>3 DEF PipeAccounts
  <2>7. /\ loop'[p] \notin {"send", "flush"} => todo'[p] = <<>>
        /\ loop'[p] = "flush" => held'[p] = <<>>
    BY <1>7
  <2>8. ~ctxDone'[p] => 1 .. read'[p] \subseteq withheld'[p] \cup Ids(out'[p]) \cup InHand(p)'
    <3> SUFFICES ASSUME ~ctxDone[p]
                 PROVE  1 .. n \subseteq withheld'[p] \cup Ids(out[p]) \cup InHand(p)'
      BY <1>1, <1>7
    <3>1. InHand(p)' = Ids(held[p]) \cup (IF rulesFor.drop THEN {} ELSE {n})
      BY <1>4, <1>7 DEF InHand
    <3>2. Ids(Blobs(todo[p])) = {}
      BY <1>1, <2>1, IdsEmpty DEF PipeAccounts, Blobs
    <3>3. 1 .. read[p] \subseteq withheld[p] \cup Ids(out[p]) \cup Ids(held[p])
      BY <1>1, <2>1, <3>2 DEF PipeAccounts, InHand
    <3> QED
      BY <1>7, <2>2, <3>1, <3>3
  <2> QED
    BY <2>4, <2>5, <2>6, <2>7, <2>8 DEF PipeAccounts
<1>9. Alone(p)
  BY <1>1, <1>2 DEF AccountInv, TypeOK, Alone
<1> QED
  BY <1>1, <1>6, <1>8, <1>9, OnePipe

\* The flush sends the window.
LEMMA FlushAccounts ==
    ASSUME AccountInv, NEW p \in Pipes, Flush(p) PROVE AccountInv'
<1> DEFINE w == Reverse(held[p])
<1>1. /\ loop[p] = "select" /\ loop' = [loop EXCEPT ![p] = "flush"]
      /\ todo' = [todo EXCEPT ![p] = Recorded(w)] /\ held' = [held EXCEPT ![p] = <<>>]
      /\ UNCHANGED <<rules, control, commands, told, sessions, history, injectCh,
                     replayCh, fed, read, inClosed, out, taken, ctxDone, withheld>>
  BY DEF Flush, Goto, pipeFrame, queues, source, sink
<1>2. w \in Seq(Blob) /\ Ids(w) = Ids(held[p])
  BY PipeTypes, IdsReverse
<1> HIDE DEF w
<1>3. Recorded(w) \in Seq(Sendable) /\ Blobs(Recorded(w)) = w
  BY <1>2, BlobsOf
<1>4. TypeOK'
  <2>1. /\ todo' \in [Pipes -> Seq(Sendable)] /\ held' \in [Pipes -> Seq(Blob)]
        /\ loop' \in [Pipes -> {"new", "select", "send", "flush", "leave", "closed"}]
    BY <1>1, <1>3 DEF AccountInv, TypeOK
  <2> QED
    BY <1>1, <2>1 DEF AccountInv, TypeOK
<1>5. held'[p] = <<>> /\ Ids(Blobs(todo'[p])) = Ids(held[p]) /\ loop'[p] = "flush"
  BY <1>1, <1>2, <1>3 DEF AccountInv, TypeOK
<1>6. PipeAccounts(p)'
  <2>1. PipeAccounts(p)
    BY DEF AccountInv
  <2>2. Ids(Blobs(todo[p])) = {}
    BY <1>1, <2>1, IdsEmpty DEF PipeAccounts, Blobs
  <2>3. InHand(p)' = Ids(held[p]) /\ InHand(p) = Ids(held[p])
    BY <1>1, <1>5, <2>2, IdsEmpty DEF InHand
  <2>4. Passed(p)' = Passed(p)
    BY <1>1 DEF Passed
  <2> QED
    BY <1>1, <1>5, <2>1, <2>3, <2>4, IdsEmpty DEF PipeAccounts
<1>7. Alone(p)
  BY <1>1 DEF AccountInv, TypeOK, Alone
<1> QED
  BY <1>1, <1>4, <1>6, <1>7, OnePipe

\* An injected Blob has a synthetic id and goes out as it is.
LEMMA ReadInjectAccounts ==
    ASSUME AccountInv, NEW p \in Pipes, ReadInject(p) PROVE AccountInv'
<1> DEFINE b == Head(injectCh[p])
           r == Recorded(<<b>>)
<1>1. /\ loop[p] = "select" /\ injectCh[p] # <<>>
      /\ injectCh' = [injectCh EXCEPT ![p] = Tail(injectCh[p])]
      /\ todo' = [todo EXCEPT ![p] = r]
      /\ loop' = [loop EXCEPT ![p] = IF todo'[p] = <<>> THEN "select" ELSE "send"]
      /\ UNCHANGED <<rules, control, commands, told, sessions, held, history,
                     replayCh, fed, read, inClosed, out, taken, ctxDone, withheld>>
  BY DEF ReadInject, Sending, Goto, pipeFrame, source, sink
<1>2. /\ b \in Blob /\ Tail(injectCh[p]) \in Seq(Blob)
      /\ Len(Tail(injectCh[p])) = Len(injectCh[p]) - 1
      /\ Ids(injectCh[p]) = {b.id} \cup Ids(Tail(injectCh[p]))
  BY <1>1, PipeTypes, IdsTail
<1> HIDE DEF b
<1>3. <<b>> \in Seq(Blob) /\ Ids(<<b>>) = {b.id}
  <2>1. <<b>> = Append(<<>>, b) /\ <<>> \in Seq(Blob)
    BY <1>2
  <2>2. Ids(Append(<<>>, b)) = Ids(<<>>) \cup {b.id}
    BY <1>2, <2>1, IdsAppend
  <2> QED
    BY <1>2, <2>1, <2>2, IdsEmpty
<1>4. r \in Seq(Sendable) /\ Blobs(r) = <<b>>
  BY <1>3, BlobsOf
<1> HIDE DEF r
<1>5. TypeOK'
  <2>1. Len(injectCh[p]) \in Nat /\ Len(injectCh[p]) <= InjectCap /\ InjectCap \in Nat
    BY PipeTypes, HostileAssumption DEF AccountInv, TypeOK
  <2>2. Len(Tail(injectCh[p])) <= InjectCap
    BY <1>2, <2>1
  <2> QED
    BY <1>1, <1>2, <1>4, <2>2 DEF AccountInv, TypeOK
<1>6. /\ injectCh'[p] = Tail(injectCh[p]) /\ Ids(Blobs(todo'[p])) = {b.id}
      /\ loop'[p] = IF todo'[p] = <<>> THEN "select" ELSE "send"
  BY <1>1, <1>3, <1>4 DEF AccountInv, TypeOK
<1>7. PipeAccounts(p)'
  <2>1. PipeAccounts(p)
    BY DEF AccountInv
  <2>2. b.id \in Synthetic /\ Ids(injectCh'[p]) \subseteq Synthetic
    BY <1>2, <1>6, <2>1 DEF PipeAccounts
  <2>3. Ids(Blobs(todo[p])) = {}
    BY <1>1, <2>1, IdsEmpty DEF PipeAccounts, Blobs
  <2>4. InHand(p) \subseteq InHand(p)'
    BY <1>1, <1>6, <2>3 DEF InHand
  <2>5. Passed(p)' = Passed(p) /\ Synthetic \subseteq Passed(p)
    BY <1>1 DEF Passed
  <2> QED
    BY <1>1, <1>6, <2>1, <2>2, <2>4, <2>5 DEF PipeAccounts
<1>8. Alone(p)
  BY <1>1 DEF AccountInv, TypeOK, Alone
<1> QED
  BY <1>1, <1>5, <1>7, <1>8, OnePipe

\* A replay draws on the history, which no withheld Blob ever reached.
LEMMA ReadReplayAccounts ==
    ASSUME AccountInv, NEW p \in Pipes, ReadReplay(p) PROVE AccountInv'
<1>1. PICK k \in DOMAIN replayCh[p] :
        /\ replayCh' = [replayCh EXCEPT ![p] = RemoveAt(replayCh[p], k)]
        /\ todo' = [todo EXCEPT ![p] =
              Repeated(SubSeq(history[p],
                              IF replayCh[p][k] > 0 /\ Len(history[p]) > replayCh[p][k]
                              THEN Len(history[p]) - replayCh[p][k] + 1 ELSE 1,
                              Len(history[p])))]
  BY DEF ReadReplay, AccountInv, TypeOK
<1> DEFINE m == IF replayCh[p][k] > 0 /\ Len(history[p]) > replayCh[p][k]
                THEN Len(history[p]) - replayCh[p][k] + 1 ELSE 1
           h == SubSeq(history[p], m, Len(history[p]))
<1>2. /\ loop[p] = "select"
      /\ loop' = [loop EXCEPT ![p] = IF todo'[p] = <<>> THEN "select" ELSE "send"]
      /\ UNCHANGED <<rules, control, commands, told, sessions, held, history, injectCh,
                     fed, read, inClosed, out, taken, ctxDone, withheld>>
  BY DEF ReadReplay, Sending, Goto, pipeFrame, source, sink
<1>3. /\ replayCh[p] \in Seq(0 .. 1) /\ k \in 1 .. Len(replayCh[p])
      /\ replayCh[p][k] \in 0 .. 1
  BY DEF AccountInv, TypeOK
<1>4. m \in Nat /\ m >= 1
  <2>1. Len(history[p]) \in Nat
    BY PipeTypes
  <2> QED
    BY <1>3, <2>1
<1>5. h \in Seq(Blob) /\ Ids(h) \subseteq Ids(history[p])
  <2> HIDE DEF m
  <2> QED
    BY <1>4, PipeTypes, IdsPart
<1>6. todo' = [todo EXCEPT ![p] = Repeated(h)]
  BY <1>1
<1> HIDE DEF h, m
<1>7. Repeated(h) \in Seq(Sendable) /\ Blobs(Repeated(h)) = h
  BY <1>5, BlobsOf
<1>8. RemoveAt(replayCh[p], k) \in Seq(0 .. 1)
  BY <1>3 DEF RemoveAt
<1>9. TypeOK'
  <2>1. /\ todo' \in [Pipes -> Seq(Sendable)] /\ replayCh' \in [Pipes -> Seq(0 .. 1)]
        /\ loop' \in [Pipes -> {"new", "select", "send", "flush", "leave", "closed"}]
    BY <1>1, <1>2, <1>6, <1>7, <1>8 DEF AccountInv, TypeOK
  <2> QED
    BY <1>1, <1>2, <2>1 DEF AccountInv, TypeOK
<1>10. /\ Ids(Blobs(todo'[p])) \subseteq Ids(history[p])
       /\ loop'[p] = IF todo'[p] = <<>> THEN "select" ELSE "send"
  BY <1>2, <1>5, <1>6, <1>7 DEF AccountInv, TypeOK
<1>11. PipeAccounts(p)'
  <2>1. PipeAccounts(p)
    BY DEF AccountInv
  <2>2. Ids(Blobs(todo[p])) = {}
    BY <1>2, <2>1, IdsEmpty DEF PipeAccounts, Blobs
  <2>3. InHand(p) \subseteq InHand(p)'
    BY <1>2, <1>10, <2>2 DEF InHand
  <2>4. Passed(p)' = Passed(p)
    BY <1>2 DEF Passed
  <2> QED
    BY <1>2, <1>10, <2>1, <2>3, <2>4 DEF PipeAccounts
<1>12. Alone(p)
  BY <1>2, <1>6 DEF AccountInv, TypeOK, Alone
<1> QED
  BY <1>2, <1>9, <1>11, <1>12, OnePipe

\* A sent Blob moves from the hand to p.out, and into the history if it is no replay.
LEMMA SendAccounts ==
    ASSUME AccountInv, NEW p \in Pipes, Send(p) PROVE AccountInv'
<1> DEFINE x == Head(todo[p])
           h == IF x.record THEN Remember(history[p], x.blob) ELSE history[p]
           o == Append(out[p], x.blob)
           t == Tail(todo[p])
<1>1. /\ loop[p] \in {"send", "flush"} /\ todo[p] # <<>> /\ Room(p)
      /\ out' = [out EXCEPT ![p] = o] /\ history' = [history EXCEPT ![p] = h]
      /\ todo' = [todo EXCEPT ![p] = t]
      /\ UNCHANGED <<rules, control, commands, told, sessions, held, injectCh, replayCh,
                     fed, read, inClosed, taken, ctxDone, withheld>>
  BY DEF Send, pipeFrame, queues, source
<1>2. IF loop[p] = "send"
      THEN loop' = [loop EXCEPT ![p] = IF todo'[p] = <<>> THEN "select" ELSE "send"]
      ELSE loop' = loop
  BY DEF Send, Sending, Goto
<1>3. /\ x.blob \in Blob /\ t \in Seq(Sendable) /\ Blobs(todo[p]) \in Seq(Blob)
      /\ Blobs(todo[p]) # <<>> /\ Head(Blobs(todo[p])) = x.blob
      /\ Blobs(t) = Tail(Blobs(todo[p]))
  BY <1>1, PipeTypes, BlobsTail
<1>4. Ids(Blobs(todo[p])) = {x.blob.id} \cup Ids(Blobs(t))
  BY <1>3, IdsTail
<1>5. o \in Seq(Blob) /\ Len(o) = Len(out[p]) + 1 /\ Ids(o) = Ids(out[p]) \cup {x.blob.id}
  BY <1>3, PipeTypes, IdsAppend
<1>6. /\ h \in Seq(Blob) /\ Len(h) <= HistoryCap
      /\ Ids(h) \subseteq Ids(history[p]) \cup {x.blob.id}
  <2>1. history[p] \in Seq(Blob) /\ Len(history[p]) <= HistoryCap
    BY DEF AccountInv, TypeOK
  <2>2. CASE x.record
    BY <1>3, <2>1, <2>2, RememberIds
  <2>3. CASE ~x.record
    BY <2>1, <2>3
  <2> QED
    BY <2>2, <2>3
<1> HIDE DEF x, h, o, t
<1>7. taken[p] <= Len(o) /\ Len(o) <= taken[p] + OutCap
  <2>1. /\ Len(out[p]) \in Nat /\ taken[p] \in Nat /\ OutCap \in Nat
        /\ taken[p] <= Len(out[p])
    BY PipeTypes, HostileAssumption DEF AccountInv, TypeOK
  <2>2. Len(out[p]) - taken[p] < OutCap
    BY <1>1 DEF Room
  <2> QED
    BY <1>5, <2>1, <2>2
<1>8. loop' \in [Pipes -> {"new", "select", "send", "flush", "leave", "closed"}]
  BY <1>2 DEF AccountInv, TypeOK
<1>9. TypeOK'
  BY <1>1, <1>3, <1>5, <1>6, <1>7, <1>8 DEF AccountInv, TypeOK
<1>10. /\ out'[p] = o /\ history'[p] = h /\ todo'[p] = t
       /\ loop[p] = "send" => loop'[p] = IF todo'[p] = <<>> THEN "select" ELSE "send"
       /\ loop[p] = "flush" => loop'[p] = "flush"
  BY <1>1, <1>2 DEF AccountInv, TypeOK
<1>11. PipeAccounts(p)'
  <2>1. PipeAccounts(p)
    BY DEF AccountInv
  <2>2. Passed(p)' = Passed(p)
    BY <1>1 DEF Passed
  <2>3. /\ x.blob.id \in Passed(p) /\ Ids(Blobs(t)) \subseteq Passed(p)
        /\ Ids(o) \subseteq Passed(p) /\ Ids(h) \subseteq Passed(p)
    BY <1>4, <1>5, <1>6, <2>1 DEF PipeAccounts
  <2>4. /\ InHand(p)' = Ids(held[p]) \cup Ids(Blobs(t))
        /\ InHand(p) = Ids(held[p]) \cup {x.blob.id} \cup Ids(Blobs(t))
    BY <1>1, <1>4, <1>10 DEF InHand
  <2>5. Ids(out[p]) \cup InHand(p) \subseteq Ids(out'[p]) \cup InHand(p)'
    BY <1>5, <1>10, <2>4
  <2>6. /\ loop'[p] \notin {"send", "flush"} => todo'[p] = <<>>
        /\ loop'[p] = "flush" => held'[p] = <<>>
    BY <1>1, <1>10, <2>1 DEF PipeAccounts
  <2>7. ~ctxDone'[p] => 1 .. read'[p] \subseteq withheld'[p] \cup Ids(out'[p]) \cup InHand(p)'
    BY <1>1, <2>1, <2>5 DEF PipeAccounts
  <2> QED
    BY <1>1, <1>10, <2>1, <2>2, <2>3, <2>6, <2>7 DEF PipeAccounts
<1>12. Alone(p)
  BY <1>1, <1>2 DEF AccountInv, TypeOK, Alone
<1> QED
  BY <1>1, <1>9, <1>11, <1>12, OnePipe

\* What is given up is only given up once the context has ended.
LEMMA SendGivesUpAccounts ==
    ASSUME AccountInv, NEW p \in Pipes, SendGivesUp(p) PROVE AccountInv'
<1>1. /\ loop[p] \in {"send", "flush"} /\ todo[p] # <<>> /\ ctxDone[p]
      /\ UNCHANGED <<rules, control, commands, told, sessions, held, history, injectCh,
                     replayCh, fed, read, inClosed, out, taken, ctxDone, withheld>>
  BY DEF SendGivesUp, pipeFrame, queues, source, sink
<1>2. \/ loop' = [loop EXCEPT ![p] = "leave"] /\ todo' = [todo EXCEPT ![p] = <<>>]
      \/ loop' = loop /\ loop[p] = "flush" /\ todo' = [todo EXCEPT ![p] = Tail(todo[p])]
  BY <1>1 DEF SendGivesUp, Goto
<1>3. /\ Tail(todo[p]) \in Seq(Sendable) /\ Blobs(todo[p]) \in Seq(Blob)
      /\ Blobs(todo[p]) # <<>> /\ Blobs(Tail(todo[p])) = Tail(Blobs(todo[p]))
  BY <1>1, PipeTypes, BlobsTail
<1>4. Ids(Blobs(Tail(todo[p]))) \subseteq Ids(Blobs(todo[p]))
  BY <1>3, IdsTail
<1>5. /\ todo' \in [Pipes -> Seq(Sendable)]
      /\ loop' \in [Pipes -> {"new", "select", "send", "flush", "leave", "closed"}]
  <2>1. /\ todo \in [Pipes -> Seq(Sendable)]
        /\ loop \in [Pipes -> {"new", "select", "send", "flush", "leave", "closed"}]
    BY DEF AccountInv, TypeOK
  <2>2. <<>> \in Seq(Sendable)
    OBVIOUS
  <2>3. todo' \in [Pipes -> Seq(Sendable)]
    BY <1>2, <1>3, <2>1, <2>2
  <2>4. loop' \in [Pipes -> {"new", "select", "send", "flush", "leave", "closed"}]
    BY <1>2, <2>1
  <2> QED
    BY <2>3, <2>4
<1>6. TypeOK'
  BY <1>1, <1>5 DEF AccountInv, TypeOK
<1>7. Ids(Blobs(<<>>)) = {}
  BY IdsEmpty DEF Blobs
<1>8. \/ loop'[p] = "leave" /\ todo'[p] = <<>>
      \/ loop'[p] = "flush" /\ loop[p] = "flush" /\ todo'[p] = Tail(todo[p])
  BY <1>2 DEF AccountInv, TypeOK
<1>9. Ids(Blobs(todo'[p])) \subseteq Ids(Blobs(todo[p]))
  BY <1>4, <1>7, <1>8
<1>10. PipeAccounts(p)'
  <2>1. PipeAccounts(p)
    BY DEF AccountInv
  <2>2. Passed(p)' = Passed(p)
    BY <1>1 DEF Passed
  <2> QED
    BY <1>1, <1>8, <1>9, <2>1, <2>2 DEF PipeAccounts
<1>11. Alone(p)
  BY <1>1, <1>2 DEF AccountInv, TypeOK, Alone
<1> QED
  BY <1>1, <1>6, <1>10, <1>11, OnePipe

\* A pipe returns with nothing in hand, or after the end of its context.
LEMMA LeaveAccounts ==
    ASSUME AccountInv, NEW p \in Pipes, WrapSession(p) \/ Return(p) \/ Leave(p)
    PROVE  AccountInv'
<1>1. UNCHANGED <<rules, control, commands, told, todo, held, history, injectCh, replayCh,
                  fed, read, inClosed, out, taken, ctxDone, withheld>>
  BY DEF WrapSession, Return, Leave, pipeFrame, queues, source, sink
<1>2. /\ sessions' \subseteq Pipes
      /\ \/ loop[p] = "new" /\ loop' = [loop EXCEPT ![p] = "select"]
         \/ loop[p] = "leave" /\ loop' = [loop EXCEPT ![p] = "closed"]
         \/ /\ \/ loop[p] = "select" /\ ctxDone[p]
               \/ loop[p] = "flush" /\ todo[p] = <<>>
            /\ loop' = [loop EXCEPT ![p] = "leave"]
  <2>1. sessions \subseteq Pipes
    BY DEF AccountInv, TypeOK
  <2>2. CASE WrapSession(p)
    BY <2>1, <2>2 DEF WrapSession, Goto
  <2>3. CASE Return(p)
    BY <2>1, <2>3 DEF Return, Goto
  <2>4. CASE Leave(p)
    BY <2>1, <2>4 DEF Leave, Goto
  <2> QED
    BY <2>2, <2>3, <2>4
<1>3. loop' \in [Pipes -> {"new", "select", "send", "flush", "leave", "closed"}]
  <2>1. loop \in [Pipes -> {"new", "select", "send", "flush", "leave", "closed"}]
    BY DEF AccountInv, TypeOK
  <2> QED
    BY <1>2, <2>1
<1>4. TypeOK'
  <2>1. sessions' \subseteq Pipes
    BY <1>2 DEF AccountInv, TypeOK
  <2> QED
    BY <1>1, <1>3, <2>1 DEF AccountInv, TypeOK
<1>5. \/ loop[p] = "new" /\ loop'[p] = "select"
      \/ loop[p] = "leave" /\ loop'[p] = "closed"
      \/ loop[p] = "select" /\ ctxDone[p] /\ loop'[p] = "leave"
      \/ loop[p] = "flush" /\ todo[p] = <<>> /\ loop'[p] = "leave"
  BY <1>2 DEF AccountInv, TypeOK
<1>6. PipeAccounts(p)'
  <2>1. PipeAccounts(p)
    BY DEF AccountInv
  <2>2. Passed(p)' = Passed(p)
    BY <1>1 DEF Passed
  <2>3. ~ctxDone[p] => InHand(p) \subseteq InHand(p)'
    <3>1. loop[p] = "flush" /\ todo[p] = <<>> => InHand(p) = {}
      BY <2>1, IdsEmpty DEF PipeAccounts, InHand, Blobs
    <3> QED
      BY <1>1, <1>5, <3>1 DEF InHand
  <2>4. /\ loop'[p] \notin {"send", "flush"} /\ todo'[p] = <<>>
    BY <1>1, <1>5, <2>1 DEF PipeAccounts
  <2> QED
    BY <1>1, <2>1, <2>2, <2>3, <2>4 DEF PipeAccounts
<1>7. Alone(p)
  BY <1>1, <1>2 DEF AccountInv, TypeOK, Alone
<1> QED
  BY <1>1, <1>4, <1>6, <1>7, OnePipe

\* The Router and the session move no Blob inside the pipe.
LEMMA NeighbourAccounts ==
    ASSUME AccountInv, NEW p \in Pipes, Feed(p) \/ CloseIn(p) \/ Take(p) \/ Cancel(p)
    PROVE  AccountInv'
<1>1. UNCHANGED <<rules, sessions, control, commands, told, loop, todo, held, history,
                  injectCh, replayCh, read, out, withheld>>
  BY DEF Feed, CloseIn, Take, Cancel, engine, queues, source, sink
<1>2. \/ /\ fed[p] < MaxBlobs /\ fed' = [fed EXCEPT ![p] = fed[p] + 1]
         /\ UNCHANGED <<inClosed, taken, ctxDone>>
      \/ inClosed' = [inClosed EXCEPT ![p] = TRUE] /\ UNCHANGED <<fed, taken, ctxDone>>
      \/ /\ taken[p] < Len(out[p]) /\ taken' = [taken EXCEPT ![p] = taken[p] + 1]
         /\ UNCHANGED <<fed, inClosed, ctxDone>>
      \/ ctxDone' = [ctxDone EXCEPT ![p] = TRUE] /\ UNCHANGED <<fed, inClosed, taken>>
  BY DEF Feed, CloseIn, Take, Cancel, source, sink
<1>3. TypeOK'
  <2>1. /\ Len(out[p]) \in Nat /\ taken[p] \in Nat /\ fed[p] \in Nat /\ read[p] \in Nat
        /\ MaxBlobs \in Nat /\ OutCap \in Nat
    BY PipeTypes, HostileAssumption
  <2>2. inClosed' \in [Pipes -> BOOLEAN] /\ ctxDone' \in [Pipes -> BOOLEAN]
    BY <1>2 DEF AccountInv, TypeOK
  <2>3. /\ fed' \in [Pipes -> Nat] /\ taken' \in [Pipes -> Nat]
        /\ \A q \in Pipes : /\ read[q] <= fed'[q] /\ fed'[q] <= MaxBlobs
                            /\ taken'[q] <= Len(out[q]) /\ Len(out[q]) <= taken'[q] + OutCap
    <3>1. /\ fed \in [Pipes -> Nat] /\ taken \in [Pipes -> Nat]
          /\ \A q \in Pipes : /\ read[q] <= fed[q] /\ fed[q] <= MaxBlobs
                              /\ taken[q] <= Len(out[q]) /\ Len(out[q]) <= taken[q] + OutCap
      BY DEF AccountInv, TypeOK
    <3>2. CASE fed' = fed /\ taken' = taken
      BY <3>1, <3>2
    <3>3. CASE /\ fed[p] < MaxBlobs /\ fed' = [fed EXCEPT ![p] = fed[p] + 1]
               /\ taken' = taken
      BY <2>1, <3>1, <3>3
    <3>4. CASE /\ taken[p] < Len(out[p]) /\ taken' = [taken EXCEPT ![p] = taken[p] + 1]
               /\ fed' = fed
      BY <2>1, <3>1, <3>4
    <3> QED
      BY <1>2, <3>2, <3>3, <3>4
  <2> QED
    BY <1>1, <2>2, <2>3 DEF AccountInv, TypeOK
<1>4. \A q \in Pipes : ctxDone'[q] = ctxDone[q] \/ ctxDone'[q] = TRUE
  BY <1>2 DEF AccountInv, TypeOK
<1>5. \A q \in Pipes : PipeAccounts(q)'
  BY <1>1, <1>4 DEF AccountInv, PipeAccounts, Passed, InHand
<1> QED
  BY <1>1, <1>3, <1>5 DEF AccountInv

\* A number beyond another.
LEMMA Beyond == \A m, c \in Nat : c > 0 => m + c \in Nat /\ m + c > m
  OBVIOUS

\* A command changes rules or its own state, and queues Blobs with synthetic ids.
LEMMA ControlAccounts ==
    ASSUME AccountInv, ControlNext PROVE AccountInv'
<1>0. UNCHANGED <<sessions, loop, todo, held, history, fed, read, inClosed, out, taken,
                  ctxDone, withheld>>
  BY DEF ControlNext, ClearRules, SetRules, Inject, Replay, InjectInto, ReplayInto,
     QueueFull, pipesFrame, source, sink
<1>1. ASSUME injectCh' = injectCh PROVE \A q \in Pipes : PipeAccounts(q)'
  BY <1>0, <1>1 DEF AccountInv, PipeAccounts, Passed, InHand
<1>2. ASSUME NEW s \in {"exact", "*"},
             ClearRules(s) \/ \E r \in RuleSet : SetRules(s, r)
      PROVE  AccountInv'
  <2>1. /\ UNCHANGED <<control, injectCh, replayCh>>
        /\ commands < MaxCommands /\ commands' = commands + 1
    BY <1>2 DEF ClearRules, SetRules, Command, queues
  <2>2. /\ DOMAIN rules' \subseteq {"exact", "*"}
        /\ \A t \in DOMAIN rules' : rules'[t] \in Rules
    <3>1. /\ DOMAIN rules \subseteq {"exact", "*"}
          /\ \A t \in DOMAIN rules : rules[t] \in Rules
      BY DEF AccountInv, TypeOK
    <3>2. CASE ClearRules(s)
      BY <3>1, <3>2 DEF ClearRules
    <3>3. ASSUME NEW r \in RuleSet, SetRules(s, r)
          PROVE  /\ DOMAIN rules' \subseteq {"exact", "*"}
                 /\ \A t \in DOMAIN rules' : rules'[t] \in Rules
      BY <3>1, <3>3, HostileAssumption DEF SetRules
    <3> QED
      BY <1>2, <3>2, <3>3
  <2>3. told' \in BOOLEAN
    BY <1>2 DEF ClearRules, SetRules
  <2>4. commands' \in 0 .. MaxCommands
    BY <2>1, HostileAssumption DEF AccountInv, TypeOK
  <2>5. TypeOK'
    BY <1>0, <2>1, <2>2, <2>3, <2>4 DEF AccountInv, TypeOK
  <2> QED
    BY <1>1, <2>1, <2>5 DEF AccountInv
<1>3. CASE Inject \/ \E n \in 0 .. 1 : Replay(n)
  <2>1. /\ UNCHANGED <<rules, injectCh, replayCh>> /\ told' = TRUE
        /\ commands < MaxCommands /\ commands' = commands + 1
    BY <1>3 DEF Inject, Replay, Command, queues
  <2>2. commands' \in 0 .. MaxCommands /\ commands' > 0
    BY <2>1, HostileAssumption DEF AccountInv, TypeOK
  <2>3. Injected(commands') \in Blob /\ Injected(commands').id \in Synthetic
    <3>1. MaxBlobs + commands' \in Nat /\ MaxBlobs + commands' > MaxBlobs
      <4>1. MaxBlobs \in Nat /\ MaxCommands \in Nat
        BY HostileAssumption
      <4>2. commands' \in Nat /\ commands' > 0
        BY <2>2, <4>1
      <4> QED
        BY <4>1, <4>2, Beyond
    <3> QED
      BY <3>1 DEF Injected, Blob, Synthetic, SyntheticBase
  <2>4. control' \in {Idle} \cup Commands
    <3>1. sessions \in SUBSET Pipes
      BY DEF AccountInv, TypeOK
    <3>2. CASE Inject
      BY <2>3, <3>1, <3>2 DEF Inject, Copied, Commands
    <3>3. CASE \E n \in 0 .. 1 : Replay(n)
      BY <3>1, <3>3 DEF Replay, Copied, Commands
    <3> QED
      BY <1>3, <3>2, <3>3
  <2>5. control'.op = "inject" => control'.blob.id \in Synthetic
    BY <1>3, <2>3 DEF Inject, Replay, Copied, Idle
  <2>6. TypeOK'
    BY <1>0, <2>1, <2>2, <2>4 DEF AccountInv, TypeOK
  <2> QED
    BY <1>1, <2>1, <2>5, <2>6 DEF AccountInv
<1>4. ASSUME NEW p \in Pipes, InjectInto(p) PROVE AccountInv'
  <2>1. /\ UNCHANGED <<rules, commands, replayCh, told>> /\ control.op = "inject"
        /\ Len(injectCh[p]) < InjectCap
        /\ injectCh' = [injectCh EXCEPT ![p] = Append(injectCh[p], control.blob)]
    BY <1>4 DEF InjectInto
  <2>2. control \in [op : {"inject"}, blob : Blob, left : SUBSET Pipes]
    BY <2>1 DEF AccountInv, TypeOK, Commands, Idle
  <2>3. control.blob \in Blob /\ control.blob.id \in Synthetic
    BY <2>1, <2>2 DEF AccountInv
  <2>4. /\ control' \in {Idle} \cup Commands
        /\ control'.op = "inject" => control'.blob.id \in Synthetic
    <3>1. \/ control' = Idle
          \/ control' = [control EXCEPT !.left = control.left \ {p}]
      BY <1>4 DEF InjectInto, Served
    <3>2. CASE control' = Idle
      BY <3>2 DEF Idle
    <3>3. CASE control' = [control EXCEPT !.left = control.left \ {p}]
      BY <2>2, <2>3, <3>3 DEF Commands
    <3> QED
      BY <3>1, <3>2, <3>3
  <2> DEFINE i == Append(injectCh[p], control.blob)
  <2>5. /\ i \in Seq(Blob) /\ Len(i) = Len(injectCh[p]) + 1
        /\ Ids(i) = Ids(injectCh[p]) \cup {control.blob.id}
    BY <2>3, PipeTypes, IdsAppend
  <2> HIDE DEF i
  <2>6. Len(i) <= InjectCap /\ injectCh' = [injectCh EXCEPT ![p] = i]
    <3>1. Len(injectCh[p]) \in Nat /\ InjectCap \in Nat
      BY PipeTypes, HostileAssumption
    <3> QED
      BY <2>1, <2>5, <3>1 DEF i
  <2>7. TypeOK'
    <3>1. injectCh' \in [Pipes -> Seq(Blob)]
      BY <2>5, <2>6 DEF AccountInv, TypeOK
    <3>2. \A q \in Pipes : Len(injectCh'[q]) <= InjectCap
      BY <2>6 DEF AccountInv, TypeOK
    <3> QED
      BY <1>0, <2>1, <2>4, <3>1, <3>2 DEF AccountInv, TypeOK
  <2>8. \A q \in Pipes : Ids(injectCh'[q]) \subseteq Synthetic
    BY <2>3, <2>5, <2>6 DEF AccountInv, TypeOK, PipeAccounts
  <2>9. \A q \in Pipes : PipeAccounts(q)'
    BY <1>0, <2>8 DEF AccountInv, PipeAccounts, Passed, InHand
  <2> QED
    BY <2>4, <2>7, <2>9 DEF AccountInv
<1>5. ASSUME NEW p \in Pipes, ReplayInto(p) PROVE AccountInv'
  <2>1. UNCHANGED <<rules, commands, injectCh, told>> /\ control.op = "replay"
    BY <1>5 DEF ReplayInto
  <2>2. /\ control \in [op : {"replay"}, count : 0 .. 1, left : SUBSET Pipes]
        /\ control.count \in 0 .. 1
    BY <2>1 DEF AccountInv, TypeOK, Commands, Idle
  <2>3. control' \in {Idle} \cup Commands /\ control'.op # "inject"
    <3>1. \/ control' = Idle
          \/ control' = [control EXCEPT !.left = control.left \ {p}]
      BY <1>5 DEF ReplayInto, Served
    <3>2. CASE control' = Idle
      BY <3>2 DEF Idle
    <3>3. CASE control' = [control EXCEPT !.left = control.left \ {p}]
      BY <2>2, <3>3 DEF Commands
    <3> QED
      BY <3>1, <3>2, <3>3
  <2>4. replayCh' \in [Pipes -> Seq(0 .. 1)]
    <3>1. replayCh \in [Pipes -> Seq(0 .. 1)] /\ 0 \in 0 .. 1
      BY DEF AccountInv, TypeOK
    <3>2. \A n \in 0 .. 1 : Append(replayCh[p], n) \in Seq(0 .. 1)
      BY <3>1
    <3>3. \/ replayCh' = [replayCh EXCEPT ![p] = IF Contains(@, 0) THEN @ ELSE Append(@, 0)]
          \/ replayCh' = [replayCh EXCEPT ![p] = Append(@, control.count)]
      BY <1>5 DEF ReplayInto
    <3> QED
      BY <2>2, <3>1, <3>2, <3>3
  <2>5. TypeOK'
    BY <1>0, <2>1, <2>3, <2>4 DEF AccountInv, TypeOK
  <2> QED
    BY <1>1, <2>1, <2>3, <2>5 DEF AccountInv
<1>6. ASSUME NEW p \in Pipes, QueueFull(p) PROVE AccountInv'
  <2>1. UNCHANGED <<rules, commands, injectCh, replayCh, told>> /\ control' = Idle
    BY <1>6 DEF QueueFull, queues
  <2>2. TypeOK' /\ control'.op # "inject"
    BY <1>0, <2>1 DEF AccountInv, TypeOK, Idle
  <2> QED
    BY <1>1, <2>1, <2>2 DEF AccountInv
<1> QED
  BY <1>2, <1>3, <1>4, <1>5, <1>6 DEF ControlNext

\* The accounts hold in every reachable state.
THEOREM AccountInvariant == Spec => []AccountInv
<1>1. Init => AccountInv
  <2> SUFFICES ASSUME Init PROVE AccountInv
    OBVIOUS
  <2>1. TypeOK
    <3>1. /\ MaxBlobs \in Nat /\ MaxCommands \in Nat /\ OutCap \in Nat
          /\ HistoryCap \in Nat /\ InjectCap \in Nat
      BY HostileAssumption
    <3>2. /\ DOMAIN rules = {} /\ sessions = {} /\ control = Idle /\ commands = 0
          /\ told = FALSE
      BY DEF Init
    <3>3. /\ loop \in [Pipes -> {"new", "select", "send", "flush", "leave", "closed"}]
          /\ todo \in [Pipes -> Seq(Sendable)] /\ held \in [Pipes -> Seq(Blob)]
          /\ history \in [Pipes -> Seq(Blob)] /\ injectCh \in [Pipes -> Seq(Blob)]
          /\ replayCh \in [Pipes -> Seq(0 .. 1)] /\ out \in [Pipes -> Seq(Blob)]
      BY DEF Init
    <3>4. /\ fed \in [Pipes -> Nat] /\ read \in [Pipes -> Nat]
          /\ taken \in [Pipes -> Nat] /\ withheld \in [Pipes -> SUBSET Nat]
      BY DEF Init
    <3>5. inClosed \in [Pipes -> BOOLEAN] /\ ctxDone \in [Pipes -> BOOLEAN]
      BY DEF Init
    <3>6. \A p \in Pipes : /\ read[p] = 0 /\ fed[p] = 0 /\ taken[p] = 0
                          /\ Len(out[p]) = 0 /\ Len(history[p]) = 0
                          /\ Len(injectCh[p]) = 0
      BY DEF Init
    <3>7. \A p \in Pipes :
             /\ read[p] <= fed[p] /\ fed[p] <= MaxBlobs
             /\ taken[p] <= Len(out[p]) /\ Len(out[p]) <= taken[p] + OutCap
             /\ Len(history[p]) <= HistoryCap /\ Len(injectCh[p]) <= InjectCap
      BY <3>1, <3>6
    <3>8. commands \in 0 .. MaxCommands
      BY <3>1, <3>2
    <3> QED
      BY <3>2, <3>3, <3>4, <3>5, <3>7, <3>8 DEF TypeOK
  <2>2. control.op # "inject"
    BY DEF Init, Idle
  <2>3. \A p \in Pipes : PipeAccounts(p)
    <3> TAKE p \in Pipes
    <3>1. /\ loop[p] = "new" /\ todo[p] = <<>> /\ held[p] = <<>> /\ history[p] = <<>>
          /\ injectCh[p] = <<>> /\ out[p] = <<>> /\ read[p] = 0 /\ withheld[p] = {}
      BY DEF Init
    <3>2. Ids(Blobs(<<>>)) = {}
      BY IdsEmpty DEF Blobs
    <3> QED
      BY <3>1, <3>2, IdsEmpty DEF PipeAccounts
  <2> QED
    BY <2>1, <2>2, <2>3 DEF AccountInv
<1>2. AccountInv /\ [Next]_vars => AccountInv'
  <2> SUFFICES ASSUME AccountInv, [Next]_vars PROVE AccountInv'
    OBVIOUS
  <2>1. CASE ControlNext
    BY <2>1, ControlAccounts
  <2>2. ASSUME NEW p \in Pipes, WrapSession(p) \/ PipeNext(p) PROVE AccountInv'
    BY <2>2, ReadInAccounts, FlushAccounts, ReadInjectAccounts, ReadReplayAccounts,
       SendAccounts, SendGivesUpAccounts, LeaveAccounts DEF PipeNext
  <2>3. ASSUME NEW p \in Pipes, Feed(p) \/ CloseIn(p) \/ Take(p) \/ Cancel(p)
        PROVE  AccountInv'
    BY <2>3, NeighbourAccounts
  <2>4. CASE UNCHANGED vars
    BY <2>4 DEF vars, engine, queues, source, sink, AccountInv, TypeOK, PipeAccounts,
       Passed, InHand
  <2> QED
    BY <2>1, <2>2, <2>3, <2>4 DEF Next
<1> QED
  BY <1>1, <1>2, PTL DEF Spec

\* While the context lives every Blob read is withheld, sent or in hand, and a
\* withheld one is nowhere, for every rule, window and capacity.
THEOREM Accounted == Spec => []BlobsAccounted
<1>1. AccountInv => BlobsAccounted
  <2> SUFFICES ASSUME AccountInv PROVE BlobsAccounted
    OBVIOUS
  <2>1. ASSUME NEW p \in Pipes
        PROVE  /\ ~ctxDone[p] =>
                    1 .. read[p] \subseteq withheld[p] \cup Ids(out[p]) \cup InHand(p)
               /\ withheld[p] \cap (Ids(out[p]) \cup InHand(p)) = {}
    <3>1. PipeAccounts(p)
      BY DEF AccountInv
    <3>2. withheld[p] \cap Passed(p) = {}
      <4>1. \A n \in 1 .. read[p] : n \notin Synthetic
        BY PipeTypes DEF Synthetic, SyntheticBase
      <4> QED
        BY <3>1, <4>1 DEF PipeAccounts, Passed
    <3>3. Ids(out[p]) \cup InHand(p) \subseteq Passed(p)
      BY <3>1 DEF PipeAccounts, InHand
    <3> QED
      BY <3>1, <3>2, <3>3 DEF PipeAccounts
  <2> QED
    BY <2>1 DEF BlobsAccounted, AccountInv
<1> QED
  BY <1>1, AccountInvariant, PTL

-----------------------------------------------------------------------------
(* Honest delivery.                                                        *)

\* A step that leaves a pipe alone leaves it honest; so do the Router and the end
\* of a context.
LEMMA HonestFrame ==
    ASSUME NEW p \in Pipes, HonestPipe(p),
           loop'[p] = loop[p], todo'[p] = todo[p], held'[p] = held[p],
           injectCh'[p] = injectCh[p], replayCh'[p] = replayCh[p], read'[p] = read[p],
           out'[p] = out[p], ctxDone'[p] = ctxDone[p] \/ ctxDone'[p] = TRUE
    PROVE  HonestPipe(p)'
  BY DEF HonestPipe

\* Every step that asks for nothing keeps every pipe honest.
LEMMA HonestStep ==
    ASSUME AccountInv, HonestInv, [Next]_vars PROVE HonestInv'
<1> SUFFICES ASSUME ~told'
             PROVE  /\ Entitled(rules)' = Honest /\ control' = Idle
                    /\ \A p \in Pipes : HonestPipe(p)'
  BY DEF HonestInv
<1>1. told' = told \/ told' = TRUE \/ told' = (told \/ Entitled(rules') # Honest)
  BY DEF Next, ControlNext, ClearRules, SetRules, Inject, Replay, InjectInto, ReplayInto,
     QueueFull, WrapSession, PipeNext, ReadIn, Flush, ReadInject, ReadReplay, Send,
     SendGivesUp, Return, Leave, Feed, CloseIn, Take, Cancel, vars, pipeFrame
<1>2. ~told
  BY <1>1 DEF AccountInv, TypeOK
<1>3. /\ Entitled(rules) = Honest /\ control = Idle
      /\ \A p \in Pipes : HonestPipe(p)
  BY <1>2 DEF HonestInv
<1>4. ASSUME UNCHANGED <<loop, todo, held, injectCh, replayCh, read, out, ctxDone>>
      PROVE  \A p \in Pipes : HonestPipe(p)'
  BY <1>3, <1>4, HonestFrame
<1>5. CASE ControlNext
  <2>1. control.op = "idle" /\ told' # TRUE
    BY <1>3 DEF Idle
  <2>2. PICK s \in {"exact", "*"} : ClearRules(s) \/ \E r \in RuleSet : SetRules(s, r)
    BY <1>3, <1>5, <2>1 DEF ControlNext, Inject, Replay, InjectInto, ReplayInto, QueueFull
  <2>3. /\ UNCHANGED <<control, injectCh, replayCh, loop, todo, held, read, out, ctxDone>>
        /\ told' = (told \/ Entitled(rules') # Honest)
    BY <2>2 DEF ClearRules, SetRules, queues, pipesFrame, source, sink
  <2> QED
    BY <1>3, <1>4, <2>3 DEF Entitled
<1>6. ASSUME NEW p \in Pipes, HonestPipe(p)', UNCHANGED <<rules, control>>,
             \A q \in Pipes \ {p} :
                /\ loop'[q] = loop[q] /\ todo'[q] = todo[q] /\ held'[q] = held[q]
                /\ injectCh'[q] = injectCh[q] /\ replayCh'[q] = replayCh[q]
                /\ read'[q] = read[q] /\ out'[q] = out[q] /\ ctxDone'[q] = ctxDone[q]
      PROVE  /\ Entitled(rules)' = Honest /\ control' = Idle
             /\ \A q \in Pipes : HonestPipe(q)'
  <2>1. \A q \in Pipes \ {p} : HonestPipe(q)'
    BY <1>3, <1>6, HonestFrame
  <2> QED
    BY <1>3, <1>6, <2>1 DEF Entitled
<1>7. ASSUME NEW p \in Pipes, ReadIn(p)
      PROVE  /\ Entitled(rules)' = Honest /\ control' = Idle
             /\ \A q \in Pipes : HonestPipe(q)'
  <2> DEFINE n == read[p] + 1
             b == Stored(n)
  <2>1. HonestPipe(p) /\ loop[p] = "select" /\ read[p] \in Nat
    BY <1>3, <1>7, PipeTypes DEF ReadIn
  <2>2. held[p] = <<>> /\ out[p] = Stream(read[p])
    BY <2>1 DEF HonestPipe
  <2>3. rulesFor = Honest
    BY <1>3 DEF rulesFor, Entitled
  <2>4. b \in Blob /\ n \in Nat /\ n > 0 /\ n - 1 = read[p]
    BY <2>1 DEF Stored, Blob
  <2>5. /\ read' = [read EXCEPT ![p] = n]
        /\ held' = [held EXCEPT ![p] = Emit(rulesFor, held[p], b).held]
        /\ todo' = [todo EXCEPT ![p] = Recorded(Emit(rulesFor, held[p], b).send)]
        /\ loop' = [loop EXCEPT ![p] = IF todo'[p] = <<>> THEN "select" ELSE "send"]
        /\ UNCHANGED <<rules, control, injectCh, replayCh, out, ctxDone>>
    BY <1>7 DEF ReadIn, Sending, Goto, pipeFrame, queues, sink
  <2> HIDE DEF b, n
  <2>6. /\ Emit(rulesFor, held[p], b).held = <<>>
        /\ Recorded(Emit(rulesFor, held[p], b).send) = <<[blob |-> b, record |-> TRUE]>>
    <3>1. Emit(rulesFor, held[p], b) = Emit(Honest, <<>>, b)
      BY <2>2, <2>3
    <3>2. Emit(Honest, <<>>, b) = [held |-> <<>>, send |-> <<b>>]
      BY <2>4, EmitHonest
    <3>3. Recorded(<<b>>) = <<[blob |-> b, record |-> TRUE]>>
      BY <2>4, EmitHonest
    <3> QED
      BY <3>1, <3>2, <3>3
  <2>7. /\ read'[p] = n /\ held'[p] = <<>> /\ todo'[p] = <<[blob |-> b, record |-> TRUE]>>
        /\ loop'[p] = IF todo'[p] = <<>> THEN "select" ELSE "send"
    BY <2>5, <2>6 DEF AccountInv, TypeOK
  <2>8. loop'[p] = "send"
    BY <2>7
  <2>9. HonestPipe(p)'
    BY <2>1, <2>2, <2>4, <2>5, <2>7, <2>8 DEF HonestPipe, b
  <2> QED
    BY <1>6, <2>5, <2>9 DEF AccountInv, TypeOK
<1>8. ASSUME NEW p \in Pipes, Flush(p)
      PROVE  /\ Entitled(rules)' = Honest /\ control' = Idle
             /\ \A q \in Pipes : HonestPipe(q)'
  <2>1. HonestPipe(p) /\ loop[p] = "select"
    BY <1>3, <1>8 DEF Flush
  <2>2. held[p] = <<>> /\ out[p] = Stream(read[p])
    BY <2>1 DEF HonestPipe
  <2>3. /\ todo' = [todo EXCEPT ![p] = Recorded(Reverse(held[p]))]
        /\ held' = [held EXCEPT ![p] = <<>>] /\ loop' = [loop EXCEPT ![p] = "flush"]
        /\ UNCHANGED <<rules, control, injectCh, replayCh, read, out, ctxDone>>
    BY <1>8 DEF Flush, Goto, pipeFrame, queues, source, sink
  <2>4. Recorded(Reverse(<<>>)) = <<>>
    <3>1. Reverse(<<>>) = <<>>
      BY DEF Reverse
    <3> QED
      BY <3>1 DEF Recorded
  <2>5. todo'[p] = <<>> /\ held'[p] = <<>> /\ loop'[p] = "flush"
    BY <2>2, <2>3, <2>4 DEF AccountInv, TypeOK
  <2>6. HonestPipe(p)'
    BY <2>1, <2>2, <2>3, <2>5 DEF HonestPipe
  <2> QED
    BY <1>6, <2>3, <2>6 DEF AccountInv, TypeOK
<1>9. ASSUME NEW p \in Pipes PROVE ~ReadInject(p) /\ ~ReadReplay(p)
  <2>1. injectCh[p] = <<>> /\ replayCh[p] = <<>>
    BY <1>3 DEF HonestPipe
  <2> QED
    BY <2>1 DEF ReadInject, ReadReplay
<1>10. ASSUME NEW p \in Pipes, Send(p)
       PROVE  /\ Entitled(rules)' = Honest /\ control' = Idle
              /\ \A q \in Pipes : HonestPipe(q)'
  <2>1. /\ HonestPipe(p) /\ todo[p] # <<>> /\ read[p] \in Nat
    BY <1>3, <1>10, PipeTypes DEF Send
  <2>2. /\ loop[p] = "send" /\ read[p] > 0 /\ out[p] = Stream(read[p] - 1)
        /\ todo[p] = <<[blob |-> Stored(read[p]), record |-> TRUE]>>
    BY <2>1 DEF HonestPipe
  <2>3. Head(todo[p]).blob = Stored(read[p]) /\ Tail(todo[p]) = <<>>
    BY <2>2
  <2>4. Append(out[p], Stored(read[p])) = Stream(read[p])
    <3>1. read[p] - 1 \in Nat /\ (read[p] - 1) + 1 = read[p]
      BY <2>1, <2>2
    <3> QED
      BY <2>2, <3>1, StreamGrows
  <2>5. /\ out' = [out EXCEPT ![p] = Append(out[p], Head(todo[p]).blob)]
        /\ todo' = [todo EXCEPT ![p] = Tail(todo[p])]
        /\ loop' = [loop EXCEPT ![p] = IF todo'[p] = <<>> THEN "select" ELSE "send"]
        /\ UNCHANGED <<rules, control, held, injectCh, replayCh, read, ctxDone>>
    BY <1>10, <2>2 DEF Send, Sending, Goto, pipeFrame, queues, source
  <2>6. out'[p] = Stream(read[p]) /\ todo'[p] = <<>>
    BY <2>3, <2>4, <2>5 DEF AccountInv, TypeOK
  <2>7. loop'[p] = "select"
    BY <2>5, <2>6 DEF AccountInv, TypeOK
  <2>8. HonestPipe(p)'
    BY <2>1, <2>5, <2>6, <2>7 DEF HonestPipe
  <2> QED
    BY <1>6, <2>5, <2>8 DEF AccountInv, TypeOK
<1>11. ASSUME NEW p \in Pipes, SendGivesUp(p)
       PROVE  /\ Entitled(rules)' = Honest /\ control' = Idle
              /\ \A q \in Pipes : HonestPipe(q)'
  <2>1. HonestPipe(p) /\ todo[p] # <<>> /\ ctxDone[p]
    BY <1>3, <1>11 DEF SendGivesUp
  <2>2. loop[p] = "send" /\ read[p] > 0 /\ out[p] = Stream(read[p] - 1)
    BY <2>1 DEF HonestPipe
  <2>3. /\ todo' = [todo EXCEPT ![p] = <<>>] /\ loop' = [loop EXCEPT ![p] = "leave"]
        /\ UNCHANGED <<rules, control, held, injectCh, replayCh, read, out, ctxDone>>
    BY <1>11, <2>2 DEF SendGivesUp, Goto, pipeFrame, queues, source, sink
  <2>4. todo'[p] = <<>> /\ loop'[p] = "leave"
    BY <2>3 DEF AccountInv, TypeOK
  <2>5. HonestPipe(p)'
    BY <2>1, <2>2, <2>3, <2>4 DEF HonestPipe
  <2> QED
    BY <1>6, <2>3, <2>5 DEF AccountInv, TypeOK
<1>12. ASSUME NEW p \in Pipes, WrapSession(p) \/ Return(p) \/ Leave(p)
       PROVE  /\ Entitled(rules)' = Honest /\ control' = Idle
              /\ \A q \in Pipes : HonestPipe(q)'
  <2>1. HonestPipe(p)
    BY <1>3
  <2>2. UNCHANGED <<rules, control, todo, held, injectCh, replayCh, read, out, ctxDone>>
    BY <1>12 DEF WrapSession, Return, Leave, pipeFrame, queues, source, sink
  <2>3. \/ loop[p] = "new" /\ loop' = [loop EXCEPT ![p] = "select"]
        \/ loop[p] \in {"select", "flush"} /\ loop' = [loop EXCEPT ![p] = "leave"]
        \/ loop[p] = "leave" /\ loop' = [loop EXCEPT ![p] = "closed"]
    BY <1>12 DEF WrapSession, Return, Leave, Goto
  <2>4. \/ loop[p] = "new" /\ loop'[p] = "select"
        \/ loop[p] \in {"select", "flush"} /\ loop'[p] = "leave"
        \/ loop[p] = "leave" /\ loop'[p] = "closed"
    BY <2>3 DEF AccountInv, TypeOK
  <2>5. HonestPipe(p)'
    BY <2>1, <2>2, <2>4 DEF HonestPipe
  <2>6. \A q \in Pipes \ {p} : loop'[q] = loop[q]
    BY <2>3 DEF AccountInv, TypeOK
  <2> QED
    BY <1>6, <2>2, <2>5, <2>6
<1>13. ASSUME NEW p \in Pipes, Feed(p) \/ CloseIn(p) \/ Take(p) \/ Cancel(p)
       PROVE  /\ Entitled(rules)' = Honest /\ control' = Idle
              /\ \A q \in Pipes : HonestPipe(q)'
  <2>1. UNCHANGED <<rules, control, loop, todo, held, injectCh, replayCh, read, out>>
    BY <1>13 DEF Feed, CloseIn, Take, Cancel, engine, queues, source, sink
  <2>2. \A q \in Pipes : ctxDone'[q] = ctxDone[q] \/ ctxDone'[q] = TRUE
    BY <1>13 DEF Feed, CloseIn, Take, Cancel, AccountInv, TypeOK
  <2>3. \A q \in Pipes : HonestPipe(q)'
    BY <1>3, <2>1, <2>2, HonestFrame
  <2> QED
    BY <1>3, <2>1, <2>3 DEF Entitled
<1>14. CASE UNCHANGED vars
  <2>1. UNCHANGED <<rules, control, loop, todo, held, injectCh, replayCh, read, out,
                    ctxDone>>
    BY <1>14 DEF vars, engine, queues, source, sink
  <2> QED
    BY <1>3, <1>4, <2>1 DEF Entitled
<1> QED
  BY <1>5, <1>7, <1>8, <1>9, <1>10, <1>11, <1>12, <1>13, <1>14 DEF Next, PipeNext

\* Both invariants hold in every reachable state.
THEOREM HonestInvariant == Spec => [](AccountInv /\ HonestInv)
<1>1. Init => HonestInv
  <2> SUFFICES ASSUME Init PROVE HonestInv
    OBVIOUS
  <2>1. Entitled(rules) = Honest /\ control = Idle
    BY DEF Init, Entitled
  <2>2. Stream(0) = <<>>
    BY DEF Stream
  <2>3. \A p \in Pipes : HonestPipe(p)
    BY <2>2 DEF Init, HonestPipe
  <2> QED
    BY <2>1, <2>3 DEF HonestInv
<1>2. AccountInv /\ HonestInv /\ [Next]_vars => HonestInv'
  BY HonestStep
<1> QED
  BY <1>1, <1>2, AccountInvariant, PTL DEF Spec

\* Until the control surface asks this device for something else, what leaves a
\* pipe is what came in, in order and byte for byte.
THEOREM HonestDelivery == Spec => []HonestUnlessTold
<1>1. AccountInv /\ HonestInv => HonestUnlessTold
  <2> SUFFICES ASSUME AccountInv, HonestInv, ~told, NEW p \in Pipes
               PROVE  /\ IsPrefix(out[p], Stream(read[p]))
                      /\ ~ctxDone[p] => out[p] \o Blobs(todo[p]) = Stream(read[p])
    BY DEF HonestUnlessTold
  <2>1. HonestPipe(p) /\ read[p] \in Nat
    BY PipeTypes DEF HonestInv
  <2>2. CASE todo[p] = <<>> /\ out[p] = Stream(read[p])
    <3>1. Blobs(<<>>) = <<>>
      BY DEF Blobs
    <3>2. Stream(read[p]) \in Seq(Blob)
      BY <2>1, StreamGrows
    <3>3. Stream(read[p]) \o <<>> = Stream(read[p])
      BY <3>2
    <3>4. read[p] <= read[p]
      BY <2>1
    <3>5. IsPrefix(Stream(read[p]), Stream(read[p]))
      BY <2>1, <3>4, StreamPrefix
    <3> QED
      BY <2>2, <3>1, <3>3, <3>5
  <2>3. CASE /\ read[p] > 0 /\ out[p] = Stream(read[p] - 1)
             /\ \/ todo[p] = <<[blob |-> Stored(read[p]), record |-> TRUE]>>
                \/ ctxDone[p]
    <3>1. read[p] - 1 \in Nat /\ read[p] - 1 <= read[p] /\ (read[p] - 1) + 1 = read[p]
      BY <2>1, <2>3
    <3>2. IsPrefix(out[p], Stream(read[p]))
      BY <2>1, <2>3, <3>1, StreamPrefix
    <3>3. Stored(read[p]) \in Blob
      BY <2>1 DEF Stored, Blob
    <3>4. Blobs(<<[blob |-> Stored(read[p]), record |-> TRUE]>>) = <<Stored(read[p])>>
      BY <3>3, EmitHonest
    <3>5. /\ out[p] \in Seq(Blob)
          /\ Append(out[p], Stored(read[p])) = Stream(read[p])
      BY <2>3, <3>1, StreamGrows
    <3>6. out[p] \o <<Stored(read[p])>> = Append(out[p], Stored(read[p]))
      BY <3>3, <3>5
    <3> QED
      BY <2>3, <3>2, <3>4, <3>5, <3>6
  <2> QED
    BY <2>1, <2>2, <2>3 DEF HonestPipe
<1> QED
  BY <1>1, HonestInvariant, PTL
==============================================================================
