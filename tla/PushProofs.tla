----------------------------- MODULE PushProofs ------------------------------
(***************************************************************************)
(* Proofs about PushSession, for every number of frames and every network  *)
(* capacity, about the frame codec it reads with (Frame), for every width  *)
(* of its fields, and about the recipient an Envelope is stored for        *)
(* (EnvelopeRecipient), for every byte string.                             *)
(***************************************************************************)
EXTENDS PushSession, WellFoundedInduction, TLAPS

-----------------------------------------------------------------------------
(* The session.                                                            *)

\* The frame being handled has a number between 1 and MaxFrames.
LEMMA FrameNumber ==
    ASSUME Bounds, PushInv
    PROVE  /\ handled \in Nat /\ Len(inbound) \in Nat /\ Len(replies) \in Nat
           /\ sentFrames \in Nat /\ handled <= MaxFrames
           /\ reader \in InFrame => handled \in 1 .. MaxFrames /\ handled \in 1 .. handled
<1>1. /\ handled \in Nat /\ Len(inbound) \in Nat /\ Len(replies) \in Nat
      /\ sentFrames \in Nat /\ handled <= MaxFrames
  BY DEF Bounds, PushInv, AnswersAlign, TypeOK
<1> QED
  BY <1>1 DEF Bounds, PushInv, AnswersCounted

\* A frame leaves inbound exactly when it is counted as handled.
LEMMA FramesStep == Bounds /\ PushInv /\ [Next]_vars => FramesCounted'
<1> SUFFICES ASSUME Bounds, PushInv, [Next]_vars PROVE FramesCounted'
  OBVIOUS
<1> USE DEF Bounds, PushInv, AnswersAlign, TypeOK, FramesCounted, Frames,
     wire, client, outcome
<1>1. CASE HandshakeOk
  BY <1>1 DEF HandshakeOk, Goes, Broken
<1>2. CASE HandshakeFails \/ ReadFails
  BY <1>2 DEF HandshakeFails, ReadFails, Goes, Broken
<1>3. CASE ReadFrame
  <2>1. Len(inbound) > 0 /\ Len(inbound) \in Nat /\ handled' = handled + 1
    BY <1>3 DEF ReadFrame
  <2>2. /\ reader = "read" /\ reader' = "frame"
        /\ inbound' = inbound /\ sentFrames' = sentFrames
    BY <1>3 DEF ReadFrame, Goes
  <2>3. handled + Len(inbound) = sentFrames
    BY <2>2, FrameNumber
  <2>4. handled' + Len(inbound') = sentFrames' + 1
    <3>1. handled \in Nat /\ sentFrames \in Nat /\ Len(inbound) \in Nat
      BY FrameNumber
    <3> HIDE DEF PushInv, AnswersAlign, TypeOK, FramesCounted, Frames
    <3> QED
      BY <2>1, <2>2, <2>3, <3>1
  <2> QED
    BY <2>1, <2>2, <2>4
<1>4. CASE ParseFrame \/ ParsePanics
  <2>1. CASE ParseFrame
    BY <2>1 DEF ParseFrame, Goes
  <2>2. CASE ParsePanics
    BY <2>2 DEF ParsePanics, Goes
  <2> QED
    BY <1>4, <2>1, <2>2
<1>5. CASE OnPushStores
  BY <1>5 DEF OnPushStores, Goes
<1>6. CASE OnPushFails
  BY <1>6 DEF OnPushFails, Goes
<1>7. CASE Failed
  BY <1>7 DEF Failed, Goes
<1>8. CASE ReplyWritten
  BY <1>8 DEF ReplyWritten, Goes, Broken
<1>9. CASE ReplyFails
  BY <1>9 DEF ReplyFails, Broken, AfterReply, Goes
<1>10. CASE ReaderCancels \/ ReaderCloses
  BY <1>10 DEF ReaderCancels, ReaderCloses, Goes
<1>11. CASE Watch \/ Shutdown \/ Expire
  BY <1>11 DEF Watch, Shutdown, Expire
<1>12. CASE ClientSends
  <2>1. \E f \in Frames : inbound' = Append(inbound, f)
    BY <1>12 DEF ClientSends
  <2>2. inbound' \in Seq(Frames) /\ Len(inbound') = Len(inbound) + 1
    BY <2>1
  <2>3. sentFrames' = sentFrames + 1 /\ handled' = handled /\ reader' = reader
    BY <1>12 DEF ClientSends
  <2>4. handled \in Nat /\ Len(inbound) \in Nat /\ sentFrames \in Nat /\ inbound' # <<>>
    BY <2>1
  <2> QED
    BY <2>2, <2>3, <2>4
<1>13. CASE ClientReads \/ ClientLeaves
  BY <1>13 DEF ClientReads, ClientLeaves
<1>14. CASE UNCHANGED vars
  BY <1>14 DEF vars
<1> QED
  BY <1>1, <1>2, <1>3, <1>4, <1>5, <1>6, <1>7, <1>8, <1>9, <1>10, <1>11, <1>12,
     <1>13, <1>14 DEF Next, Reader

\* State keeps its type; no frame is handled that was not sent.
LEMMA TypeStep == Bounds /\ PushInv /\ [Next]_vars => TypeOK'
<1> SUFFICES ASSUME Bounds, PushInv, [Next]_vars PROVE TypeOK'
  OBVIOUS
<1> USE DEF Bounds, PushInv, AnswersAlign, TypeOK, FramesCounted, Frames,
     Answers, FrameOutcome, wire, client, outcome
<1>1. CASE HandshakeOk
  BY <1>1 DEF HandshakeOk, Goes, Broken
<1>2. CASE HandshakeFails \/ ReadFails
  BY <1>2 DEF HandshakeFails, ReadFails, Goes, Broken
<1>3. CASE ReadFrame
  BY <1>3 DEF ReadFrame, Goes, Broken
<1>4. CASE ParseFrame \/ ParsePanics
  <2>1. CASE ParseFrame
    BY <2>1 DEF ParseFrame, Goes
  <2>2. CASE ParsePanics
    BY <2>2 DEF ParsePanics, Goes
  <2> QED
    BY <1>4, <2>1, <2>2
<1>5. CASE OnPushStores
  BY <1>5, FrameNumber DEF InFrame, OnPushStores, Goes
<1>6. CASE OnPushFails
  BY <1>6, FrameNumber DEF InFrame, OnPushFails, Goes
<1>7. CASE Failed
  BY <1>7 DEF Failed, Goes
<1>8. CASE ReplyWritten
  <2>1. handled \in 1 .. MaxFrames
    BY <1>8, FrameNumber DEF ReplyWritten, Goes, InFrame
  <2>2. [frame |-> handled, what |-> answer] \in [frame : 1 .. MaxFrames, what : Answers]
    BY <2>1
  <2>3. replies' \in Seq([frame : 1 .. MaxFrames, what : Answers])
    BY <1>8, <2>2 DEF ReplyWritten
  <2>4. unread' \in 0 .. NetCap
    BY <1>8 DEF ReplyWritten
  <2> QED
    BY <1>8, <2>3, <2>4 DEF ReplyWritten, Goes
<1>9. CASE ReplyFails
  BY <1>9 DEF ReplyFails, Broken, AfterReply, Goes
<1>10. CASE ReaderCancels \/ ReaderCloses
  BY <1>10 DEF ReaderCancels, ReaderCloses, Goes
<1>11. CASE Watch \/ Shutdown \/ Expire
  <2>1. /\ UNCHANGED <<reader, handled, answer, replies, unread, stored, cut, inbound,
                      sentFrames, eof>>
        /\ watcher' \in {"wait", "done"} /\ conn' \in {"open", "reset", "closed"}
        /\ ctxDone' \in BOOLEAN /\ expired' \in BOOLEAN
    BY <1>11 DEF Watch, Shutdown, Expire
  <2> HIDE DEF FramesCounted, Frames, Answers, FrameOutcome
  <2> QED
    BY <2>1
<1>12. CASE ClientSends
  BY <1>12 DEF ClientSends
<1>13. CASE ClientReads \/ ClientLeaves
  <2>1. unread' \in 0 .. NetCap
    BY <1>13 DEF ClientReads, ClientLeaves
  <2>2. /\ UNCHANGED <<reader, watcher, conn, ctxDone, expired, handled, answer, replies,
                      stored, cut, inbound, sentFrames>>
        /\ eof' \in BOOLEAN
    BY <1>13 DEF ClientReads, ClientLeaves
  <2> HIDE DEF FramesCounted, Frames, Answers, FrameOutcome
  <2> QED
    BY <2>1, <2>2
<1>14. CASE UNCHANGED vars
  BY <1>14 DEF vars
<1> QED
  BY <1>1, <1>2, <1>3, <1>4, <1>5, <1>6, <1>7, <1>8, <1>9, <1>10, <1>11, <1>12,
     <1>13, <1>14 DEF Next, Reader

\* An answer is lost only where no later one can be written: behind a deadline, a
\* closed connection, or a client that is gone.
LEMMA CountStep == Bounds /\ PushInv /\ [Next]_vars => AnswersCounted'
<1> SUFFICES ASSUME Bounds, PushInv, [Next]_vars PROVE AnswersCounted'
  OBVIOUS
<1> USE DEF Bounds, PushInv, AnswersAlign, TypeOK, AnswersCounted, InFrame,
     Writable, FrameOutcome, wire, client, outcome
<1>1. CASE HandshakeOk
  BY <1>1 DEF HandshakeOk, Goes, Broken
<1>2. CASE HandshakeFails \/ ReadFails
  BY <1>2 DEF HandshakeFails, ReadFails, Goes, Broken
<1>3. CASE ReadFrame
  BY <1>3 DEF ReadFrame, Goes, Broken
<1>4. CASE ParseFrame \/ ParsePanics
  BY <1>4 DEF ParseFrame, ParsePanics, Goes
<1>5. CASE OnPushStores
  BY <1>5 DEF OnPushStores, Goes
<1>6. CASE OnPushFails
  BY <1>6 DEF OnPushFails, Goes
<1>7. CASE Failed
  BY <1>7 DEF Failed, Goes
<1>8. CASE ReplyWritten
  BY <1>8 DEF ReplyWritten, Goes, Broken
<1>9. CASE ReplyFails
  BY <1>9 DEF ReplyFails, Broken, AfterReply, Goes
<1>10. CASE ReaderCancels \/ ReaderCloses
  BY <1>10 DEF ReaderCancels, ReaderCloses, Goes
<1>11. CASE Watch \/ Shutdown \/ Expire
  BY <1>11 DEF Watch, Shutdown, Expire
<1>12. CASE ClientSends
  BY <1>12 DEF ClientSends, Frames
<1>13. CASE ClientReads \/ ClientLeaves
  BY <1>13 DEF ClientReads, ClientLeaves
<1>14. CASE UNCHANGED vars
  BY <1>14 DEF vars
<1> QED
  BY <1>1, <1>2, <1>3, <1>4, <1>5, <1>6, <1>7, <1>8, <1>9, <1>10, <1>11, <1>12,
     <1>13, <1>14 DEF Next, Reader

\* OnPush decides a frame's outcome once, and a cut one leads out of the loop.
LEMMA OutcomeStep == Bounds /\ PushInv /\ [Next]_vars => FrameOutcome'
<1> SUFFICES ASSUME Bounds, PushInv, [Next]_vars PROVE FrameOutcome'
  OBVIOUS
<1> USE DEF Bounds, PushInv, AnswersAlign, TypeOK, FrameOutcome, wire,
     client, outcome
<1>1. CASE HandshakeOk
  BY <1>1 DEF HandshakeOk, Goes, Broken
<1>2. CASE HandshakeFails \/ ReadFails
  BY <1>2 DEF HandshakeFails, ReadFails, Goes, Broken
<1>3. CASE ReadFrame
  BY <1>3 DEF ReadFrame, Goes, Broken
<1>4. CASE ParseFrame \/ ParsePanics
  BY <1>4 DEF ParseFrame, ParsePanics, Goes
<1>5. CASE OnPushStores
  BY <1>5, FrameNumber DEF InFrame, OnPushStores, Goes
<1>6. CASE OnPushFails
  BY <1>6, FrameNumber DEF InFrame, OnPushFails, Goes
<1>7. CASE Failed
  BY <1>7 DEF Failed, Goes
<1>8. CASE ReplyWritten
  BY <1>8 DEF ReplyWritten, Goes, Broken
<1>9. CASE ReplyFails
  BY <1>9 DEF ReplyFails, Broken, AfterReply, Goes
<1>10. CASE ReaderCancels \/ ReaderCloses
  BY <1>10 DEF ReaderCancels, ReaderCloses, Goes
<1>11. CASE Watch \/ Shutdown \/ Expire
  BY <1>11 DEF Watch, Shutdown, Expire
<1>12. CASE ClientSends
  BY <1>12 DEF ClientSends, Frames
<1>13. CASE ClientReads \/ ClientLeaves
  BY <1>13 DEF ClientReads, ClientLeaves
<1>14. CASE UNCHANGED vars
  BY <1>14 DEF vars
<1> QED
  BY <1>1, <1>2, <1>3, <1>4, <1>5, <1>6, <1>7, <1>8, <1>9, <1>10, <1>11, <1>12,
     <1>13, <1>14 DEF Next, Reader

\* A new answer is the next one, for the frame just handled; an outcome is only ever
\* decided for a frame that has no answer yet.
LEMMA AlignStep ==
    Bounds /\ PushInv /\ [Next]_vars => AnswersAlign' /\ CutStaysSilent'
<1> SUFFICES ASSUME Bounds, PushInv, [Next]_vars
             PROVE  AnswersAlign' /\ CutStaysSilent'
  OBVIOUS
<1> DEFINE Fine(rs, st, ct) ==
             \A i \in 1 .. Len(rs) : /\ rs[i].frame = i /\ i \notin ct
                                     /\ rs[i].what = "ack" <=> i \in st
<1>1. /\ TypeOK' /\ Fine(replies, stored, cut)
      /\ replies \in Seq([frame : 1 .. MaxFrames, what : Answers])
  BY TypeStep DEF PushInv, AnswersAlign, CutStaysSilent, TypeOK
<1>2. SUFFICES Fine(replies', stored', cut')
  BY <1>1, <1>2 DEF AnswersAlign, CutStaysSilent
<1>3. CASE ReplyWritten
  <2>1. /\ reader = "reply" /\ Writable
        /\ replies' = Append(replies, [frame |-> handled, what |-> answer])
        /\ stored' = stored /\ cut' = cut
    BY <1>3 DEF ReplyWritten, Goes, Broken, Writable, outcome
  <2>2. Len(replies) + 1 = handled
    BY <2>1, FrameNumber DEF PushInv, AnswersCounted, InFrame
  <2>3. handled \notin cut /\ (answer = "ack" <=> handled \in stored)
    BY <2>1 DEF PushInv, FrameOutcome
  <2>4. /\ Len(replies') = handled
        /\ replies'[handled] = [frame |-> handled, what |-> answer]
        /\ \A i \in 1 .. Len(replies) : replies'[i] = replies[i]
    BY <1>1, <2>1, <2>2
  <2>5. \A i \in 1 .. handled : i = handled \/ i \in 1 .. Len(replies)
    BY <2>2, FrameNumber
  <2> QED
    BY <1>1, <2>1, <2>3, <2>4, <2>5
<1>4. CASE OnPushStores \/ OnPushFails
  <2>1. /\ reader \in InFrame /\ replies' = replies
        /\ stored' \subseteq stored \cup {handled} /\ stored \subseteq stored'
        /\ cut' \subseteq cut \cup {handled}
    BY <1>4 DEF OnPushStores, OnPushFails, Goes, InFrame, wire
  <2>2. \A i \in 1 .. Len(replies) : i # handled
    BY <2>1, FrameNumber DEF PushInv, AnswersCounted
  <2> QED
    BY <1>1, <2>1, <2>2
<1>5. ASSUME Next, ~ReplyWritten, ~OnPushStores, ~OnPushFails
      PROVE  replies' = replies /\ stored' = stored /\ cut' = cut
  BY <1>5 DEF Next, Reader, HandshakeOk, HandshakeFails, ReadFrame,
     ReadFails, ParseFrame, ParsePanics, Failed, ReplyFails, AfterReply,
     ReaderCancels, ReaderCloses, Watch, Shutdown, Expire,
     ClientSends, ClientReads, ClientLeaves, wire, outcome
<1>6. CASE UNCHANGED vars
  BY <1>1, <1>6 DEF vars
<1> QED
  BY <1>1, <1>3, <1>4, <1>5, <1>6

\* The invariant holds in every reachable state.
THEOREM PushInvariant == Spec => []PushInv
<1> USE PushAssumption
<1>1. Init => PushInv
  <2> SUFFICES ASSUME Init PROVE PushInv
    OBVIOUS
  <2>1. Len(replies) = 0 /\ Len(inbound) = 0 /\ handled = 0 /\ sentFrames = 0
    BY DEF Init
  <2>2. TypeOK
    <3>1. inbound \in Seq(Frames)
      BY DEF Init
    <3>2. replies \in Seq([frame : 1 .. MaxFrames, what : Answers])
      BY DEF Init
    <3>3. /\ sentFrames \in 0 .. MaxFrames /\ handled \in 0 .. sentFrames
          /\ unread \in 0 .. NetCap
      BY DEF Bounds, Init
    <3> QED
      BY <3>1, <3>2, <3>3 DEF Init, TypeOK, Answers
  <2>3. AnswersAlign /\ CutStaysSilent
    BY <2>1, <2>2 DEF AnswersAlign, CutStaysSilent
  <2>4. FramesCounted /\ AnswersCounted
    BY <2>1 DEF Init, FramesCounted, AnswersCounted, InFrame
  <2>5. FrameOutcome
    BY DEF Init, FrameOutcome
  <2> QED
    BY <2>3, <2>4, <2>5 DEF PushInv
<1>2. PushInv /\ [Next]_vars => PushInv'
  BY AlignStep, FramesStep, CountStep, OutcomeStep DEF PushInv
<1> QED
  BY <1>1, <1>2, PTL DEF Spec

\* A pipelining client that counts answers is never wrong about what was stored.
THEOREM Aligned == Spec => []AnswersAlign
<1> USE PushAssumption
<1>1. PushInv => AnswersAlign
  BY DEF PushInv
<1> QED
  BY <1>1, PushInvariant, PTL

\* A push that a shutdown cut off is never answered, so its sender retries it.
THEOREM CutSilent == Spec => []CutStaysSilent
<1> USE PushAssumption
<1>1. PushInv => CutStaysSilent
  BY DEF PushInv
<1> QED
  BY <1>1, PushInvariant, PTL

-----------------------------------------------------------------------------
(* The frame codec.                                                        *)

\* Induction on the naturals, in terms of sets: a set that holds 0 and the successor
\* of each natural number in it holds them all.
LEMMA NatSet ==
    ASSUME NEW S, 0 \in S, \A n \in Nat : n \in S => n + 1 \in S
    PROVE  Nat \subseteq S
<1> DEFINE T == Nat \ S
           R == {p \in Nat \X Nat : p[1] < p[2]}
<1>1. IsWellFoundedOn(R, Nat)
  BY NatLessThanWellFounded DEF OpToRel
<1> SUFFICES ASSUME T # {} PROVE FALSE
  OBVIOUS
<1>2. PICK x \in T : \A y \in T : ~(<<y, x>> \in R)
  <2> HIDE DEF R
  <2> QED
    BY <1>1, WFMin
<1>3. x \in Nat /\ x # 0
  OBVIOUS
<1>4. x - 1 \in Nat /\ <<x - 1, x>> \in R
  BY <1>3
<1>5. x - 1 \in S
  BY <1>2, <1>4
<1> QED
  BY <1>3, <1>4, <1>5

\* Powers of the base are positive.
LEMMA Powers ==
    ASSUME FrameSizes, PowerLaw, NEW k \in 0 .. (LenBytes + IdBytes)
    PROVE  Base ^ k \in Nat /\ Base ^ k > 0
<1> DEFINE N == LenBytes + IdBytes
           S == {n \in Nat : n <= N => (Base ^ n \in Nat /\ Base ^ n > 0)}
<1>1. Base \in Nat /\ Base > 1 /\ N \in Nat
  BY DEF FrameSizes
<1>2. 0 \in S
  BY DEF PowerLaw
<1>3. ASSUME NEW n \in Nat, n \in S PROVE n + 1 \in S
  <2> SUFFICES ASSUME n + 1 <= N PROVE Base ^ (n + 1) \in Nat /\ Base ^ (n + 1) > 0
    OBVIOUS
  <2>1. Base ^ n \in Nat /\ Base ^ n > 0
    BY <1>1, <1>3
  <2>2. Base ^ (n + 1) = Base ^ n * Base
    BY <1>1 DEF PowerLaw
  <2>3. \A a, b \in Nat : a > 0 /\ b > 1 => a * b \in Nat /\ a * b > 0
    OBVIOUS
  <2> QED
    BY <1>1, <2>1, <2>2, <2>3
<1>4. Nat \subseteq S
  <2> HIDE DEF S
  <2> QED
    BY <1>2, <1>3, NatSet
<1> QED
  BY <1>1, <1>4

\* The value of a digit string is computed from left to right.
LEMMA DigitSteps ==
    ASSUME NEW base \in Int, NEW n \in Nat, NEW s \in [1 .. n -> Int], Len(s) = n
    PROVE  \E g \in [0 .. n -> Int] :
               /\ g[0] = 0 /\ FromDigits(s, base) = g[n]
               /\ \A i \in 1 .. n : g[i] = g[i - 1] * base + s[i]
<1> DEFINE Step(g, m) == [i \in 0 .. m |-> IF i = 0 THEN 0 ELSE g[i - 1] * base + s[i]]
           Has(m) == \E g \in [0 .. m -> Int] : g = Step(g, m)
           S == {m \in Nat : m <= n => Has(m)}
<1>1. base \in Int
  OBVIOUS
<1>2. 0 \in S
  <2>1. [i \in 0 .. 0 |-> 0] = Step([i \in 0 .. 0 |-> 0], 0)
    OBVIOUS
  <2>2. [i \in 0 .. 0 |-> 0] \in [0 .. 0 -> Int]
    OBVIOUS
  <2> QED
    BY <2>1, <2>2
<1>3. ASSUME NEW m \in Nat, m \in S PROVE m + 1 \in S
  <2> SUFFICES ASSUME m + 1 <= n PROVE Has(m + 1)
    <3> HIDE DEF Has
    <3> QED
      OBVIOUS
  <2>0. Has(m)
    <3> HIDE DEF Has
    <3> QED
      BY <1>3
  <2>1. PICK g \in [0 .. m -> Int] : g = Step(g, m)
    BY <2>0
  <2> DEFINE x == g[m] * base + s[m + 1]
             h == [i \in 0 .. (m + 1) |-> IF i = m + 1 THEN x ELSE g[i]]
  <2>2. x \in Int
    <3>1. g[m] \in Int /\ s[m + 1] \in Int
      BY <2>1
    <3>2. \A a, b, c \in Int : a * b + c \in Int
      OBVIOUS
    <3> QED
      BY <1>1, <3>1, <3>2
  <2>3. h \in [0 .. (m + 1) -> Int]
    <3> HIDE DEF x
    <3>1. \A i \in 0 .. (m + 1) : i = m + 1 \/ g[i] \in Int
      BY <2>1
    <3> QED
      BY <2>2, <3>1
  <2>4. ASSUME NEW i \in 0 .. (m + 1)
        PROVE  h[i] = IF i = 0 THEN 0 ELSE h[i - 1] * base + s[i]
    <3>1. CASE i = 0
      <4>1. h[i] = g[i]
        BY <3>1
      <4>2. g[i] = 0
        BY <2>1, <3>1
      <4> QED
        BY <3>1, <4>1, <4>2
    <3>2. CASE i \in 1 .. m
      <4>1. h[i] = g[i] /\ h[i - 1] = g[i - 1]
        BY <3>2
      <4>2. g[i] = g[i - 1] * base + s[i]
        BY <2>1, <3>2
      <4> QED
        BY <3>2, <4>1, <4>2
    <3>3. CASE i = m + 1
      <4>1. h[i] = x /\ h[i - 1] = g[m]
        BY <3>3
      <4> QED
        BY <3>3, <4>1
    <3> QED
      BY <3>1, <3>2, <3>3
  <2>5. h = Step(h, m + 1)
    <3> HIDE DEF h
    <3>1. h = [i \in 0 .. (m + 1) |-> h[i]]
      BY <2>3
    <3> QED
      BY <2>4, <3>1
  <2> HIDE DEF h
  <2> QED
    BY <2>3, <2>5
<1>4. Nat \subseteq S
  <2> HIDE DEF S
  <2> QED
    BY <1>2, <1>3, NatSet
<1>5. PICK g \in [0 .. n -> Int] : g = Step(g, n)
  <2>1. Has(n)
    <3> HIDE DEF Has
    <3> QED
      BY <1>4
  <2> HIDE DEF Step
  <2> QED
    BY <2>1
<1> DEFINE v == CHOOSE f : f = Step(f, n)
<1>6. v = Step(v, n)
  <2>1. \E f : f = Step(f, n)
    BY <1>5
  <2> HIDE DEF Step
  <2> QED
    BY <2>1
<1>7. FromDigits(s, base) = v[n]
  BY DEF FromDigits
<1> HIDE DEF v
<1>8. /\ v[0] = 0 /\ \A i \in 1 .. n : v[i] = v[i - 1] * base + s[i]
  <2>1. ASSUME NEW i \in 0 .. n
        PROVE  v[i] = IF i = 0 THEN 0 ELSE v[i - 1] * base + s[i]
    <3>1. v[i] = Step(v, n)[i]
      <4> HIDE DEF Step
      <4> QED
        BY <1>6
    <3> QED
      BY <3>1
  <2>2. \A i \in 1 .. n : i \in 0 .. n /\ i # 0
    OBVIOUS
  <2> QED
    BY <2>1, <2>2
<1>9. v \in [0 .. n -> Int]
  <2> DEFINE Q == {m \in Nat : m <= n => v[m] \in Int}
  <2>1. 0 \in Q
    BY <1>8
  <2>2. ASSUME NEW m \in Nat, m \in Q PROVE m + 1 \in Q
    <3> SUFFICES ASSUME m + 1 <= n PROVE v[m + 1] \in Int
      OBVIOUS
    <3>1. v[m] \in Int /\ s[m + 1] \in Int
      BY <2>2
    <3>2. v[m + 1] = v[m] * base + s[m + 1]
      BY <1>8
    <3>3. \A a, b, c \in Int : a * b + c \in Int
      OBVIOUS
    <3> QED
      BY <1>1, <3>1, <3>2, <3>3
  <2>3. Nat \subseteq Q
    <3> HIDE DEF Q
    <3> QED
      BY <2>1, <2>2, NatSet
  <2>4. \A i \in 0 .. n : v[i] \in Int
    BY <2>3
  <2>5. v = [i \in 0 .. n |-> v[i]]
    BY <1>6
  <2> QED
    BY <2>4, <2>5
<1> QED
  BY <1>7, <1>8, <1>9

\* The same for GetBE.
LEMMA GetBESteps ==
    ASSUME FrameSizes, NEW n \in Nat, NEW s \in [1 .. n -> Int], Len(s) = n
    PROVE  \E g \in [0 .. n -> Int] :
               /\ g[0] = 0 /\ GetBE(s) = g[n]
               /\ \A i \in 1 .. n : g[i] = g[i - 1] * Base + s[i]
<1>1. Base \in Int
  BY DEF FrameSizes
<1> QED
  BY <1>1, DigitSteps DEF GetBE

\* A quotient is known by its remainder.
LEMMA Quotient ==
    ASSUME NEW x \in Nat, NEW y \in Nat, y > 0, NEW a \in Nat, NEW r \in 0 .. (y - 1),
           x = a * y + r
    PROVE  x \div y = a
  OBVIOUS

\* The digits of a number, taken one more at a time.
LEMMA NextDigit ==
    ASSUME NEW v \in Nat, NEW y \in Nat, y > 0, NEW b \in Nat, b > 1
    PROVE  v \div y = (v \div (y * b)) * b + ((v \div y) % b)
<1> DEFINE q == v \div y
           r == v % y
           a == q \div b
           d == q % b
<1>1. q \in Nat /\ r \in 0 .. (y - 1) /\ v = q * y + r
  OBVIOUS
<1>2. a \in Nat /\ d \in 0 .. (b - 1) /\ q = a * b + d
  BY <1>1
<1> HIDE DEF q, r, a, d
<1>3. y * b \in Nat /\ y * b > 0
  OBVIOUS
<1>4. d * y + r \in 0 .. (y * b - 1)
  <2>1. d * y <= (b - 1) * y
    BY <1>2
  <2>2. (b - 1) * y = y * b - y
    OBVIOUS
  <2>3. d * y \in Nat
    BY <1>2
  <2> QED
    BY <1>1, <1>2, <1>3, <2>1, <2>2, <2>3
<1>5. v = a * (y * b) + (d * y + r)
  BY <1>1, <1>2
<1>6. v \div (y * b) = a
  BY <1>2, <1>3, <1>4, <1>5, Quotient
<1> QED
  BY <1>2, <1>6 DEF q, d

\* A number is written as that many digits.
LEMMA PutDigits ==
    ASSUME FrameSizes, PowerLaw, NEW n \in 1 .. (LenBytes + IdBytes), NEW v \in Nat
    PROVE  /\ PutBE(v, n) \in [1 .. n -> Digit] /\ PutBE(v, n) \in Seq(Digit)
           /\ Len(PutBE(v, n)) = n
<1>1. ASSUME NEW i \in 1 .. n PROVE (v \div Base ^ (n - i)) % Base \in Digit
  <2>1. LenBytes + IdBytes \in Nat /\ Base \in Nat /\ Base > 1
    BY DEF FrameSizes
  <2>2. n - i \in 0 .. (LenBytes + IdBytes)
    BY <2>1
  <2>3. Base ^ (n - i) \in Nat /\ Base ^ (n - i) > 0
    BY <2>2, Powers
  <2>4. v \div Base ^ (n - i) \in Nat
    BY <2>3
  <2> QED
    BY <2>1, <2>4 DEF Digit
<1>2. PutBE(v, n) \in [1 .. n -> Digit]
  BY <1>1 DEF PutBE
<1> QED
  BY <1>2

\* Reading the digits of a number gives the number back, if it fits.
LEMMA GetPut ==
    ASSUME FrameSizes, PowerLaw, NEW n \in 1 .. (LenBytes + IdBytes),
           NEW v \in 0 .. (Base ^ n - 1)
    PROVE  GetBE(PutBE(v, n)) = v
<1>0. LenBytes + IdBytes \in Nat /\ Base \in Nat /\ Base > 1 /\ n \in Nat
  BY DEF FrameSizes
<1>1. \A k \in 0 .. n : Base ^ k \in Nat /\ Base ^ k > 0
  BY <1>0, Powers
<1>2. v \in Nat /\ Base ^ n \in Nat /\ v < Base ^ n
  BY <1>0, <1>1
<1>3. PutBE(v, n) \in [1 .. n -> Digit] /\ Len(PutBE(v, n)) = n
  BY <1>2, PutDigits
<1>4. PutBE(v, n) \in [1 .. n -> Int]
  BY <1>0, <1>3 DEF Digit
<1>5. PICK g \in [0 .. n -> Int] :
          /\ g[0] = 0 /\ GetBE(PutBE(v, n)) = g[n]
          /\ \A i \in 1 .. n : g[i] = g[i - 1] * Base + PutBE(v, n)[i]
  BY <1>0, <1>3, <1>4, GetBESteps
<1> DEFINE S == {i \in Nat : i <= n => g[i] = v \div Base ^ (n - i)}
<1>6. 0 \in S
  <2>1. v \div Base ^ n = 0
    <3>1. \A y \in Nat : y > 0 /\ v < y => v \div y = 0
      BY <1>2
    <3> QED
      BY <1>0, <1>1, <1>2, <3>1
  <2>2. n - 0 = n
    BY <1>0
  <2> QED
    BY <1>5, <2>1, <2>2
<1>7. ASSUME NEW i \in Nat, i \in S PROVE i + 1 \in S
  <2> SUFFICES ASSUME i + 1 <= n PROVE g[i + 1] = v \div Base ^ (n - (i + 1))
    OBVIOUS
  <2> DEFINE k == n - (i + 1)
  <2>1. k \in 0 .. n /\ k \in 0 .. (LenBytes + IdBytes) /\ n - i = k + 1 /\ i + 1 \in 1 .. n
    BY <1>0
  <2> HIDE DEF k
  <2>2. Base ^ (n - i) = Base ^ k * Base
    BY <2>1 DEF PowerLaw
  <2>3. g[i] = v \div (Base ^ k * Base)
    BY <1>0, <1>7, <2>2
  <2>4. g[i + 1] = g[i] * Base + PutBE(v, n)[i + 1]
    BY <1>5, <2>1
  <2>5. PutBE(v, n)[i + 1] = (v \div Base ^ k) % Base
    BY <2>1 DEF PutBE, k
  <2>6. Base ^ k \in Nat /\ Base ^ k > 0
    BY <1>1, <2>1
  <2>7. v \div Base ^ k = (v \div (Base ^ k * Base)) * Base + ((v \div Base ^ k) % Base)
    BY <1>0, <1>2, <2>6, NextDigit
  <2> QED
    BY <2>3, <2>4, <2>5, <2>7 DEF k
<1>8. Nat \subseteq S
  <2> HIDE DEF S
  <2> QED
    BY <1>6, <1>7, NatSet
<1>9. g[n] = v \div Base ^ 0
  <2>1. n - n = 0
    BY <1>0
  <2> QED
    BY <1>0, <1>8, <2>1
<1>10. v \div 1 = v
  BY <1>2, Quotient
<1> QED
  BY <1>5, <1>9, <1>10 DEF PowerLaw

\* Digits stand for a number below the power of their length.
LEMMA GetBound ==
    ASSUME FrameSizes, PowerLaw, NEW n \in 1 .. (LenBytes + IdBytes),
           NEW s \in [1 .. n -> Digit], Len(s) = n
    PROVE  GetBE(s) \in 0 .. (Base ^ n - 1)
<1>0. LenBytes + IdBytes \in Nat /\ Base \in Nat /\ Base > 1 /\ n \in Nat
  BY DEF FrameSizes
<1>1. \A k \in 0 .. n : Base ^ k \in Nat /\ Base ^ k > 0
  BY <1>0, Powers
<1>2. s \in [1 .. n -> Int]
  BY <1>0 DEF Digit
<1>3. PICK g \in [0 .. n -> Int] :
          /\ g[0] = 0 /\ GetBE(s) = g[n]
          /\ \A i \in 1 .. n : g[i] = g[i - 1] * Base + s[i]
  BY <1>0, <1>2, GetBESteps
<1> DEFINE S == {i \in Nat : i <= n => g[i] \in Nat /\ g[i] <= Base ^ i - 1}
<1>4. 0 \in S
  BY <1>3 DEF PowerLaw
<1>5. ASSUME NEW i \in Nat, i \in S PROVE i + 1 \in S
  <2> SUFFICES ASSUME i + 1 <= n PROVE g[i + 1] \in Nat /\ g[i + 1] <= Base ^ (i + 1) - 1
    OBVIOUS
  <2>1. i \in 0 .. n /\ i \in 0 .. (LenBytes + IdBytes) /\ i + 1 \in 1 .. n
    BY <1>0
  <2>2. Base ^ (i + 1) = Base ^ i * Base
    BY <2>1 DEF PowerLaw
  <2>3. g[i + 1] = g[i] * Base + s[i + 1]
    <3>1. (i + 1) - 1 = i
      OBVIOUS
    <3> QED
      BY <1>3, <2>1, <3>1
  <2>4. g[i] \in Nat /\ g[i] <= Base ^ i - 1 /\ Base ^ i \in Nat
    BY <1>0, <1>1, <1>5, <2>1
  <2>5. s[i + 1] \in Nat /\ s[i + 1] <= Base - 1
    BY <1>0, <2>1 DEF Digit
  <2>6. ASSUME NEW x \in Nat, NEW p \in Nat, NEW d \in Nat, x <= p - 1, d <= Base - 1
        PROVE  x * Base + d \in Nat /\ x * Base + d <= p * Base - 1
    <3>1. x * Base <= (p - 1) * Base
      BY <1>0, <2>6
    <3>2. (p - 1) * Base = p * Base - Base
      BY <1>0
    <3>3. x * Base \in Nat /\ p * Base \in Nat
      BY <1>0
    <3> QED
      BY <1>0, <2>6, <3>1, <3>2, <3>3
  <2> QED
    BY <2>2, <2>3, <2>4, <2>5, <2>6
<1>6. Nat \subseteq S
  <2> HIDE DEF S
  <2> QED
    BY <1>4, <1>5, NatSet
<1>7. g[n] \in Nat /\ g[n] <= Base ^ n - 1
  BY <1>0, <1>6
<1> QED
  BY <1>0, <1>1, <1>3, <1>7

\* The middle one of three sequences is cut out of their concatenation, and the first
\* two of them are its front.
LEMMA Cut ==
    ASSUME NEW S, NEW a \in Seq(S), NEW b \in Seq(S), NEW c \in Seq(S)
    PROVE  /\ Len(a \o b \o c) = Len(a) + Len(b) + Len(c) /\ a \o b \o c \in Seq(S)
           /\ SubSeq(a \o b \o c, Len(a) + 1, Len(a) + Len(b)) = b
           /\ a # <<>> => (a \o b \o c)[1] = a[1]
<1> DEFINE w == a \o b \o c
<1>1. w \in Seq(S) /\ Len(w) = Len(a) + Len(b) + Len(c)
  OBVIOUS
<1>2. \A i \in 1 .. Len(b) : w[Len(a) + i] = b[i]
  OBVIOUS
<1>3. a # <<>> => w[1] = a[1]
  OBVIOUS
<1> HIDE DEF w
<1>4. SubSeq(w, Len(a) + 1, Len(a) + Len(b)) = b
  <2> DEFINE m == SubSeq(w, Len(a) + 1, Len(a) + Len(b))
  <2>1. m \in Seq(S) /\ Len(m) = Len(b)
    BY <1>1
  <2>2. \A i \in 1 .. Len(b) : m[i] = w[Len(a) + i]
    BY <1>1
  <2> HIDE DEF m
  <2>3. m = b
    BY <1>2, <2>1, <2>2
  <2> QED
    BY <2>3 DEF m
<1> QED
  BY <1>1, <1>3, <1>4 DEF w

\* Parse on a transport message of bytes: its length never wraps, what the header
\* claims wraps only in the highest values.
LEMMA ParseExact ==
    ASSUME FrameSizes, PowerLaw, NEW raw \in Seq(Types \cup {Unknown} \cup Digit),
           Len(raw) < Word, \A i \in 2 .. Len(raw) : raw[i] \in Digit
    PROVE  Parse(raw) = IF Wraps(raw) THEN Panics
                        ELSE IF ~WellFormed(raw) THEN Malformed
                        ELSE Parsed(raw[1], SubSeq(raw, Header + 1,
                                                     Header + Claimed(raw)))
<1> DEFINE c == GetBE(SubSeq(raw, 2, Header))
           end == (Header + c) % Word
<1>0. /\ Header \in Nat /\ Header = 1 + LenBytes /\ LenBytes \in Nat /\ LenBytes > 0
      /\ IdBytes \in Nat /\ Len(raw) \in Nat
  BY DEF FrameSizes, Header
<1>1. Word \in Nat /\ Header < Word
  <2>1. Word \in Nat
    BY <1>0, Powers DEF Word
  <2> QED
    BY <2>1 DEF FrameSizes
<1>2. /\ Parse(raw) = IF Len(raw) < Header \/ raw[1] \notin Types THEN Malformed
                      ELSE IF Len(raw) % Word < end THEN Malformed
                      ELSE SliceFrom(raw, raw[1], end)
      /\ Claimed(raw) = c
  BY DEF Parse, Claimed
<1> HIDE DEF c
<1>3. CASE Len(raw) < Header \/ raw[1] \notin Types
  BY <1>0, <1>2, <1>3 DEF Wraps, WellFormed
<1>4. CASE Len(raw) >= Header /\ raw[1] \in Types
  <2>1. /\ SubSeq(raw, 2, Header) \in [1 .. LenBytes -> Digit]
        /\ Len(SubSeq(raw, 2, Header)) = LenBytes
    <3> DEFINE m == SubSeq(raw, 2, Header)
    <3>1. Len(m) = LenBytes /\ m \in Seq(Types \cup {Unknown} \cup Digit)
      BY <1>0, <1>4
    <3>2. \A i \in 1 .. LenBytes : m[i] = raw[i + 1]
      BY <1>0, <1>4
    <3>3. \A i \in 1 .. LenBytes : i + 1 \in 2 .. Len(raw)
      BY <1>0, <1>4
    <3> HIDE DEF m
    <3>4. \A i \in 1 .. LenBytes : m[i] \in Digit
      BY <3>2, <3>3
    <3>5. m \in [1 .. LenBytes -> Digit]
      BY <3>1, <3>4
    <3> QED
      BY <3>1, <3>5 DEF m
  <2>2. c \in Nat /\ c <= Word - 1
    <3>1. LenBytes \in 1 .. (LenBytes + IdBytes)
      BY <1>0
    <3>2. c \in 0 .. (Word - 1)
      BY <2>1, <3>1, GetBound DEF c, Word
    <3> QED
      BY <1>1, <3>2
  <2>3. Len(raw) % Word = Len(raw)
    BY <1>0, <1>1
  <2>4. CASE c >= Word - Header
    <3>1. end = Header + c - Word
      BY <1>0, <1>1, <2>2, <2>4
    <3>2. end < Header /\ end <= Len(raw)
      BY <1>0, <1>1, <1>4, <2>2, <3>1
    <3> HIDE DEF end
    <3>3. Parse(raw) = Panics
      <4>1. ~(Len(raw) < Header) /\ ~(Len(raw) < end)
        BY <1>0, <1>1, <1>4, <2>2, <3>1, <3>2
      <4> QED
        BY <1>2, <1>4, <2>3, <3>2, <4>1 DEF SliceFrom
    <3> QED
      BY <1>2, <1>4, <2>4, <3>3 DEF Wraps
  <2>5. CASE ~(c >= Word - Header)
    <3>1. end = Header + c /\ end \in Nat /\ ~(end < Header)
      BY <1>0, <1>1, <2>2, <2>5
    <3> HIDE DEF end
    <3>2. Len(raw) < end <=> ~(c <= Len(raw) - Header)
      BY <1>0, <2>2, <3>1
    <3>3. ~(Len(raw) < Header)
      BY <1>0, <1>4
    <3>4. Parse(raw) = IF ~(c <= Len(raw) - Header) THEN Malformed
                       ELSE Parsed(raw[1], SubSeq(raw, Header + 1, Header + c))
      BY <1>2, <1>4, <2>3, <3>1, <3>2, <3>3 DEF SliceFrom
    <3>5. ~Wraps(raw) /\ (WellFormed(raw) <=> c <= Len(raw) - Header)
      BY <1>2, <1>4, <2>5 DEF Wraps, WellFormed
    <3> QED
      BY <1>2, <3>4, <3>5
  <2> QED
    BY <2>4, <2>5
<1>5. Len(raw) < Header \/ Len(raw) >= Header
  BY <1>0
<1> QED
  BY <1>3, <1>4, <1>5

\* Parse reads back what Frame wrote, whatever follows it in the message.
LEMMA ParseEncoded ==
    ASSUME FrameSizes, PowerLaw, NEW t \in Types, NEW b \in Bodies, NEW rest \in Bodies
    PROVE  Parse(Encode(t, b) \o rest) = Parsed(t, b)
<1> DEFINE S == Types \cup {Unknown} \cup Digit
           l == PutBE(Len(b), LenBytes)
           raw == Encode(t, b) \o rest
<1>0. /\ Header \in Nat /\ Header = 1 + LenBytes /\ LenBytes \in Nat /\ LenBytes > 0
      /\ IdBytes \in Nat
  BY DEF FrameSizes, Header
<1>1. Word \in Nat /\ Header < Word
  <2>1. Word \in Nat
    BY <1>0, Powers DEF Word
  <2> QED
    BY <2>1 DEF FrameSizes
<1>2. /\ b \in Seq(Digit) /\ Len(b) \in Nat /\ Header + 2 * Len(b) < Word
      /\ rest \in Seq(Digit) /\ Len(rest) \in Nat /\ Header + 2 * Len(rest) < Word
  BY DEF FrameSizes
<1>3. Len(b) % Word = Len(b) /\ Len(b) \in 0 .. (Word - 1)
  BY <1>0, <1>1, <1>2
<1>4. l \in Seq(Digit) /\ Len(l) = LenBytes /\ GetBE(l) = Len(b)
  <2>1. LenBytes \in 1 .. (LenBytes + IdBytes)
    BY <1>0
  <2>2. l \in Seq(Digit) /\ Len(l) = LenBytes
    BY <1>2, <2>1, PutDigits
  <2>3. GetBE(l) = Len(b)
    BY <1>3, <2>1, GetPut DEF Word
  <2> QED
    BY <2>2, <2>3
<1>5. Encode(t, b) = <<t>> \o l \o b
  BY <1>3 DEF Encode
<1> HIDE DEF l
<1>6. l \in Seq(S) /\ b \in Seq(S) /\ rest \in Seq(S) /\ <<t>> \in Seq(S)
  BY <1>2, <1>4
<1> HIDE DEF S
<1>7. b \o rest \in Seq(S) /\ <<t>> \o l \in Seq(S) /\ Len(<<t>> \o l) = Header
      /\ Len(b \o rest) = Len(b) + Len(rest)
  BY <1>0, <1>2, <1>4, <1>6
<1>8. raw = <<t>> \o l \o (b \o rest) /\ raw = (<<t>> \o l) \o b \o rest
  BY <1>5, <1>6
<1> HIDE DEF raw
<1>9. raw \in Seq(S) /\ Len(raw) = Header + Len(b) + Len(rest) /\ raw[1] = t
  <2>1. Len(<<t>>) = 1 /\ <<t>> # <<>> /\ <<t>>[1] = t
    OBVIOUS
  <2>2. /\ raw \in Seq(S) /\ Len(raw) = Len(<<t>>) + Len(l) + Len(b \o rest)
        /\ <<t>> # <<>> => raw[1] = <<t>>[1]
    BY <1>6, <1>7, <1>8, Cut
  <2>3. Len(raw) = Header + Len(b) + Len(rest)
    BY <1>0, <1>2, <1>4, <1>7, <2>1, <2>2
  <2> QED
    BY <2>1, <2>2, <2>3
<1>10. SubSeq(raw, 2, Header) = l
  <2>1. Len(<<t>>) = 1
    OBVIOUS
  <2>2. SubSeq(raw, Len(<<t>>) + 1, Len(<<t>>) + Len(l)) = l
    BY <1>6, <1>7, <1>8, Cut
  <2> QED
    BY <1>0, <1>4, <2>1, <2>2
<1>11. SubSeq(raw, Header + 1, Header + Len(b)) = b
  BY <1>6, <1>7, <1>8, Cut
<1>12. Len(raw) < Word /\ \A i \in 2 .. Len(raw) : raw[i] \in Digit
  <2>1. Len(raw) < Word
    BY <1>0, <1>1, <1>2, <1>9
  <2>2. l \o (b \o rest) \in Seq(Digit) /\ raw = <<t>> \o (l \o (b \o rest))
    <3>1. b \o rest \in Seq(Digit)
      BY <1>2
    <3>2. l \o (b \o rest) \in Seq(Digit)
      BY <1>4, <3>1
    <3>3. <<t>> \o l \o (b \o rest) = <<t>> \o (l \o (b \o rest))
      BY <1>6, <1>7
    <3> QED
      BY <1>8, <3>2, <3>3
  <2>3. \A i \in 2 .. Len(raw) : raw[i] \in Digit
    <3> DEFINE u == l \o (b \o rest)
    <3> HIDE DEF u
    <3>1. u \in Seq(Digit) /\ raw = <<t>> \o u
      BY <2>2 DEF u
    <3> QED
      BY <3>1
  <2> QED
    BY <2>1, <2>3
<1>13. Claimed(raw) = Len(b)
  BY <1>4, <1>10 DEF Claimed
<1>14. ~Wraps(raw) /\ WellFormed(raw)
  BY <1>0, <1>1, <1>2, <1>9, <1>13 DEF Wraps, WellFormed
<1>15. Parse(raw) = Parsed(t, b)
  BY <1>9, <1>11, <1>12, <1>13, <1>14, ParseExact DEF S
<1> QED
  BY <1>15 DEF raw

\* An id survives the body that carries it, and so does what follows it.
LEMMA IdBodies ==
    ASSUME FrameSizes, PowerLaw, NEW i \in Ids, NEW b \in Bodies
    PROVE  /\ DecodeDeliverBody(EncodeDeliverBody(i, b)) =
                  [outcome |-> "ok", id |-> i, envelope |-> b]
           /\ DecodeDeliverAckBody(EncodeDeliverAckBody(i) \o b) =
                  [outcome |-> "ok", id |-> i]
<1> DEFINE d == PutBE(i, IdBytes)
           w == d \o b
<1>0. /\ LenBytes \in Nat /\ IdBytes \in Nat /\ IdBytes > 0
      /\ b \in Seq(Digit) /\ Len(b) \in Nat
  BY DEF FrameSizes
<1>1. d \in Seq(Digit) /\ Len(d) = IdBytes /\ GetBE(d) = i
  <2>1. IdBytes \in 1 .. (LenBytes + IdBytes) /\ IdBytes \in 0 .. (LenBytes + IdBytes)
    BY <1>0
  <2>2. Base ^ IdBytes \in Nat
    BY <2>1, Powers
  <2>3. i \in Nat /\ i \in 0 .. (Base ^ IdBytes - 1)
    BY <2>2 DEF Ids
  <2> QED
    BY <2>1, <2>3, PutDigits, GetPut
<1> HIDE DEF d
<1>2. Len(w) = IdBytes + Len(b) /\ ~(Len(w) < IdBytes)
  BY <1>0, <1>1
<1>3. SubSeq(w, 1, IdBytes) = d /\ SubSeq(w, IdBytes + 1, Len(w)) = b
  <2>1. <<>> \in Seq(Digit) /\ Len(<<>>) = 0 /\ w = <<>> \o d \o b /\ w = d \o b \o <<>>
    BY <1>0, <1>1
  <2>2. SubSeq(w, 0 + 1, 0 + Len(d)) = d
    BY <1>0, <1>1, <2>1, Cut
  <2>3. SubSeq(w, Len(d) + 1, Len(d) + Len(b)) = b
    BY <1>0, <1>1, <2>1, Cut
  <2> QED
    BY <1>0, <1>1, <1>2, <2>2, <2>3
<1>4. EncodeDeliverBody(i, b) = w /\ EncodeDeliverAckBody(i) \o b = w
  BY DEF EncodeDeliverBody, EncodeDeliverAckBody, d
<1> HIDE DEF w
<1> QED
  BY <1>1, <1>2, <1>3, <1>4 DEF DecodeDeliverBody, DecodeDeliverAckBody

\* Frame, Parse and the Deliver bodies are exact, for every base and every width of
\* lengths and ids.
THEOREM CodecExact ==
    ASSUME FrameSizes, PowerLaw PROVE ParsesExactly
<1>1. \A raw \in Raws : Parse(raw) =
          IF Wraps(raw) THEN Panics
          ELSE IF ~WellFormed(raw) THEN Malformed
          ELSE Parsed(raw[1], SubSeq(raw, Header + 1, Header + Claimed(raw)))
  <2> TAKE raw \in Raws
  <2>1. /\ raw \in Seq(Types \cup {Unknown} \cup Digit) /\ Len(raw) < Word
        /\ \A i \in 2 .. Len(raw) : raw[i] \in Digit
    BY DEF FrameSizes
  <2> QED
    BY <2>1, ParseExact
<1> QED
  BY <1>1, ParseEncoded, IdBodies DEF ParsesExactly

\* A frame a Push Session handled is the one its client framed.
THEOREM FramesExact == Spec => []FramesRoundTrip
<1> USE FrameAssumption
<1>1. FramesRoundTrip
  BY CodecExact DEF FramesRoundTrip
<1> QED
  BY <1>1, PTL

-----------------------------------------------------------------------------
(* Whom an Envelope is for.                                                *)

\* A set of natural numbers has a least element.
LEMMA Least ==
    ASSUME NEW S, S \subseteq Nat, S # {}
    PROVE  Min(S) \in S /\ \A y \in S : Min(S) <= y
<1> DEFINE R == {p \in Nat \X Nat : p[1] < p[2]}
<1>1. IsWellFoundedOn(R, Nat)
  BY NatLessThanWellFounded DEF OpToRel
<1>2. PICK x \in S : \A y \in S : ~(<<y, x>> \in R)
  <2> HIDE DEF R
  <2> QED
    BY <1>1, WFMin
<1>3. ASSUME NEW y \in S PROVE x <= y
  <2>1. x \in Nat /\ y \in Nat
    OBVIOUS
  <2>2. ~(<<y, x>> \in R)
    BY <1>2
  <2> QED
    BY <2>1, <2>2
<1> QED
  BY <1>3 DEF Min

\* The groups of a varint make a natural number.
LEMMA GroupsNat ==
    ASSUME WireSizes, NEW s \in Seq(Nat)
    PROVE  Groups(s) \in Nat
<1> DEFINE n == Len(s)
           d == [i \in 1 .. n |-> s[n + 1 - i] % Group]
<1>1. n \in Nat /\ Group \in Nat /\ Group > 0 /\ Group \in Int
  BY DEF WireSizes
<1>2. ASSUME NEW i \in 1 .. n PROVE d[i] \in Nat
  <2>1. s[n + 1 - i] \in Nat
    <3>1. n + 1 - i \in 1 .. n
      BY <1>1
    <3> QED
      BY <3>1
  <2>2. \A x, y \in Nat : y > 0 => x % y \in Nat
    OBVIOUS
  <2> QED
    BY <1>1, <2>1, <2>2
<1>3. d \in [1 .. n -> Int] /\ Len(d) = n
  <2>1. \A i \in 1 .. n : d[i] \in Int
    BY <1>2
  <2>2. d = [i \in 1 .. n |-> d[i]]
    OBVIOUS
  <2> HIDE DEF d
  <2>3. d \in [1 .. n -> Int]
    BY <2>1, <2>2
  <2> QED
    BY <1>1, <2>3
<1>4. Groups(s) = FromDigits(d, Group)
  BY DEF Groups
<1> HIDE DEF d, n
<1>5. PICK g \in [0 .. n -> Int] :
          /\ g[0] = 0 /\ FromDigits(d, Group) = g[n]
          /\ \A i \in 1 .. n : g[i] = g[i - 1] * Group + d[i]
  BY <1>1, <1>3, DigitSteps
<1> DEFINE Q == {m \in Nat : m <= n => g[m] \in Nat}
<1>6. 0 \in Q
  BY <1>5
<1>7. ASSUME NEW m \in Nat, m \in Q PROVE m + 1 \in Q
  <2> SUFFICES ASSUME m + 1 <= n PROVE g[m + 1] \in Nat
    OBVIOUS
  <2>1. m + 1 \in 1 .. n /\ g[m] \in Nat
    BY <1>1, <1>7
  <2>2. g[m + 1] = g[m] * Group + d[m + 1] /\ d[m + 1] \in Nat
    BY <1>2, <1>5, <2>1
  <2>3. \A x, y, z \in Nat : x * y + z \in Nat
    OBVIOUS
  <2> QED
    BY <1>1, <2>1, <2>2, <2>3
<1>8. Nat \subseteq Q
  <2> HIDE DEF Q
  <2> QED
    BY <1>6, <1>7, NatSet
<1> QED
  BY <1>1, <1>4, <1>5, <1>8

\* Bytes pos .. q of b are a varint.
Spans(b, pos, q) ==
    /\ q \in pos .. Len(b) /\ q - pos < MaxVarint /\ b[q] < Group
    /\ \A i \in pos .. (q - 1) : b[i] >= Group
    /\ q - pos = MaxVarint - 1 => b[q] <= LastByte

\* A slice of a byte string, and its slices.
LEMMA Slices ==
    ASSUME NEW b \in Seq(Nat), NEW p \in 1 .. (Len(b) + 1), NEW e \in (p - 1) .. Len(b)
    PROVE  /\ Len(b) \in Nat /\ Len(SubSeq(b, p, e)) = e + 1 - p
           /\ SubSeq(b, p, e) \in Seq(Nat)
           /\ \A i \in 1 .. (e + 1 - p) : SubSeq(b, p, e)[i] = b[p + i - 1]
           /\ \A k \in 0 .. (e + 1 - p) :
                 /\ SubSeq(SubSeq(b, p, e), 1, k) = SubSeq(b, p, p + k - 1)
                 /\ Rest(SubSeq(b, p, e), k) = SubSeq(b, p + k, e)
<1> DEFINE s == SubSeq(b, p, e)
<1>1. Len(b) \in Nat /\ Len(s) = e + 1 - p /\ s \in Seq(Nat)
  OBVIOUS
<1>2. \A i \in 1 .. (e + 1 - p) : s[i] = b[p + i - 1]
  OBVIOUS
<1>3. ASSUME NEW k \in 0 .. (e + 1 - p)
      PROVE  SubSeq(s, 1, k) = SubSeq(b, p, p + k - 1)
  <2> HIDE DEF s
  <2>1. SubSeq(s, 1, k) = [i \in 1 .. k |-> s[i]]
    BY <1>1
  <2>2. SubSeq(b, p, p + k - 1) = [i \in 1 .. k |-> b[p + i - 1]]
    BY <1>1
  <2> QED
    BY <1>2, <2>1, <2>2
<1>4. ASSUME NEW k \in 0 .. (e + 1 - p)
      PROVE  Rest(s, k) = SubSeq(b, p + k, e)
  <2> HIDE DEF s
  <2>1. Rest(s, k) = [i \in 1 .. (e + 1 - p - k) |-> s[k + i]]
    BY <1>1 DEF Rest
  <2>2. SubSeq(b, p + k, e) = [i \in 1 .. (e + 1 - p - k) |-> b[p + k + i - 1]]
    BY <1>1
  <2>3. \A i \in 1 .. (e + 1 - p - k) : s[k + i] = b[p + k + i - 1]
    <3> TAKE i \in 1 .. (e + 1 - p - k)
    <3>1. k + i \in 1 .. (e + 1 - p) /\ p + (k + i) - 1 = p + k + i - 1
      BY <1>1
    <3> QED
      BY <1>2, <3>1
  <2> QED
    BY <2>1, <2>2, <2>3
<1> QED
  BY <1>1, <1>2, <1>3, <1>4

\* The grammar's varints are the spans.
LEMMA VarintSpans ==
    ASSUME WireSizes, NEW b \in Seq(Nat),
           NEW p \in 1 .. (Len(b) + 1), NEW q \in (p - 1) .. Len(b)
    PROVE  IsVarint(SubSeq(b, p, q)) <=> Spans(b, p, q)
<1> DEFINE s == SubSeq(b, p, q)
           n == q + 1 - p
<1>1. /\ Len(b) \in Nat /\ Len(s) = n /\ n \in Nat
      /\ \A i \in 1 .. n : s[i] = b[p + i - 1]
  BY Slices
<1>2. MaxVarint \in Nat /\ MaxVarint > 0 /\ \A i \in 1 .. Len(b) : b[i] \in Nat
  BY DEF WireSizes
<1> HIDE DEF s
<1>3. n \in 1 .. MaxVarint <=> q \in p .. Len(b) /\ q - p < MaxVarint
  BY <1>1, <1>2
<1> SUFFICES ASSUME n \in 1 .. MaxVarint PROVE IsVarint(s) <=> Spans(b, p, q)
  BY <1>1, <1>3 DEF IsVarint, Spans, s
<1>4. s[n] = b[q]
  BY <1>1
<1>5. (\A i \in 1 .. (n - 1) : s[i] >= Group) <=> (\A i \in p .. (q - 1) : b[i] >= Group)
  <2>1. ASSUME \A i \in 1 .. (n - 1) : s[i] >= Group, NEW i \in p .. (q - 1)
        PROVE  b[i] >= Group
    <3>1. i + 1 - p \in 1 .. (n - 1) /\ i + 1 - p \in 1 .. n /\ p + (i + 1 - p) - 1 = i
      BY <1>1
    <3>2. s[i + 1 - p] = b[p + (i + 1 - p) - 1]
      BY <1>1, <3>1
    <3>3. s[i + 1 - p] = b[i]
      BY <3>1, <3>2
    <3>4. s[i + 1 - p] >= Group
      BY <2>1, <3>1
    <3> QED
      BY <3>3, <3>4
  <2>2. ASSUME \A i \in p .. (q - 1) : b[i] >= Group, NEW i \in 1 .. (n - 1)
        PROVE  s[i] >= Group
    <3>1. p + i - 1 \in p .. (q - 1) /\ i \in 1 .. n
      BY <1>1
    <3> QED
      BY <1>1, <2>2, <3>1
  <2> QED
    BY <2>1, <2>2
<1>6. n = MaxVarint <=> q - p = MaxVarint - 1
  BY <1>1, <1>2
<1> HIDE DEF n
<1> QED
  BY <1>1, <1>3, <1>4, <1>5, <1>6 DEF IsVarint, Spans

\* Two varints that start at the same byte are the same.
LEMMA SpanUnique ==
    ASSUME WireSizes, NEW b \in Seq(Nat), NEW p \in 1 .. (Len(b) + 1),
           NEW q \in Int, NEW r \in Int, Spans(b, p, q), Spans(b, p, r)
    PROVE  q = r
<1>1. /\ Len(b) \in Nat /\ Group \in Nat /\ q \in p .. Len(b) /\ r \in p .. Len(b)
      /\ b[q] < Group /\ b[r] < Group /\ b[q] \in Nat /\ b[r] \in Nat
  <2>1. /\ q \in p .. Len(b) /\ r \in p .. Len(b) /\ b[q] < Group /\ b[r] < Group
    BY DEF Spans
  <2>2. q \in 1 .. Len(b) /\ r \in 1 .. Len(b) /\ Len(b) \in Nat /\ Group \in Nat
    BY <2>1 DEF WireSizes
  <2> QED
    BY <2>1, <2>2
<1>2. ~(q < r)
  <2> SUFFICES ASSUME q < r PROVE FALSE
    OBVIOUS
  <2>1. q \in p .. (r - 1)
    BY <1>1
  <2>2. b[q] >= Group
    BY <2>1 DEF Spans
  <2> QED
    BY <1>1, <2>2
<1>3. ~(r < q)
  <2> SUFFICES ASSUME r < q PROVE FALSE
    OBVIOUS
  <2>1. r \in p .. (q - 1)
    BY <1>1
  <2>2. b[r] >= Group
    BY <2>1 DEF Spans
  <2> QED
    BY <1>1, <2>2
<1> QED
  BY <1>1, <1>2, <1>3

\* readVarint finds the varint that starts at p, and refuses when there is none.
LEMMA ReadSpan ==
    ASSUME WireSizes, NEW b \in Seq(Nat), NEW p \in 1 .. (Len(b) + 1)
    PROVE  \/ /\ readVarint(b, p) = NoVarint
              /\ \A q \in Int : ~Spans(b, p, q)
           \/ \E q \in p .. Len(b) :
                  Spans(b, p, q) /\ readVarint(b, p) = VarintTo(b, p, q)
<1> DEFINE E == LastBytes(b, p)
           m == Min(E)
<1>0. /\ Len(b) \in Nat /\ MaxVarint \in Nat /\ Group \in Nat /\ LastByte \in Nat
      /\ \A i \in 1 .. Len(b) : b[i] \in Nat
  BY DEF WireSizes
<1>1. \A q \in Int : Spans(b, p, q) => q \in E
  BY DEF Spans, LastBytes
<1>2. CASE E = {}
  <2>1. readVarint(b, p) = NoVarint
    BY <1>2 DEF readVarint
  <2> QED
    BY <1>1, <1>2, <2>1
<1>3. CASE E # {}
  <2>1. E \subseteq Nat
    BY <1>0 DEF LastBytes
  <2>2. m \in E /\ \A y \in E : m <= y
    <3> HIDE DEF E
    <3> QED
      BY <1>3, <2>1, Least
  <2> HIDE DEF m
  <2>3. m \in p .. Len(b) /\ m - p < MaxVarint /\ b[m] < Group /\ m \in 1 .. Len(b)
    BY <1>0, <2>2 DEF LastBytes
  <2>4. ASSUME NEW i \in p .. (m - 1) PROVE b[i] >= Group
    <3>1. i \in p .. Len(b) /\ i - p < MaxVarint /\ ~(m <= i) /\ i \in 1 .. Len(b)
      BY <1>0, <2>3
    <3>2. ~(i \in E)
      BY <2>2, <3>1
    <3>3. ~(b[i] < Group)
      BY <3>1, <3>2 DEF LastBytes
    <3> QED
      BY <1>0, <3>1, <3>3
  <2>5. CASE m - p = MaxVarint - 1 /\ b[m] > LastByte
    <3>1. readVarint(b, p) = NoVarint
      BY <2>5 DEF readVarint, m
    <3>2. ASSUME NEW q \in Int, Spans(b, p, q) PROVE FALSE
      <4>1. q \in E /\ m <= q /\ q \in 1 .. Len(b) /\ q - p < MaxVarint
        BY <1>0, <1>1, <2>2, <3>2 DEF Spans
      <4>2. q = m
        BY <1>0, <2>3, <2>5, <4>1
      <4>3. b[m] <= LastByte /\ b[m] \in Nat
        BY <1>0, <2>3, <2>5, <3>2, <4>2 DEF Spans
      <4> QED
        BY <1>0, <2>5, <4>3
    <3> QED
      BY <3>1, <3>2
  <2>6. CASE ~(m - p = MaxVarint - 1 /\ b[m] > LastByte)
    <3>1. readVarint(b, p) = VarintTo(b, p, m)
      BY <1>3, <2>6 DEF readVarint, m
    <3>2. m - p = MaxVarint - 1 => b[m] <= LastByte
      BY <1>0, <2>3, <2>6
    <3>3. Spans(b, p, m)
      BY <2>3, <2>4, <3>2 DEF Spans
    <3> QED
      BY <2>3, <3>1, <3>3
  <2> QED
    BY <2>5, <2>6
<1> QED
  BY <1>2, <1>3

\* What a reader needs of readVarint: where it ends, and that its value is a number.
LEMMA ReadRange ==
    ASSUME WireSizes, NEW b \in Seq(Nat), NEW p \in 1 .. (Len(b) + 1)
    PROVE  /\ readVarint(b, p).value \in Nat
           /\ readVarint(b, p).next \in Nat
           /\ \/ readVarint(b, p).next = 0
              \/ readVarint(b, p).next \in (p + 1) .. (Len(b) + 1)
<1>1. CASE readVarint(b, p) = NoVarint
  BY <1>1 DEF NoVarint
<1>2. CASE \E q \in p .. Len(b) : Spans(b, p, q) /\ readVarint(b, p) = VarintTo(b, p, q)
  <2>1. PICK q \in p .. Len(b) : readVarint(b, p) = VarintTo(b, p, q)
    BY <1>2
  <2>2. SubSeq(b, p, q) \in Seq(Nat) /\ Len(b) \in Nat
    BY Slices
  <2>3. Groups(SubSeq(b, p, q)) \in Nat
    BY <2>2, GroupsNat
  <2>4. readVarint(b, p).value = Groups(SubSeq(b, p, q)) /\ readVarint(b, p).next = q + 1
    BY <2>1 DEF VarintTo
  <2> QED
    BY <2>2, <2>3, <2>4
<1> QED
  BY <1>1, <1>2, ReadSpan

\* The one head of a slice is the varint that readVarint finds there.
LEMMA HeadRead ==
    ASSUME WireSizes, NEW b \in Seq(Nat),
           NEW p \in 1 .. (Len(b) + 1), NEW e \in (p - 1) .. Len(b)
    PROVE  LET s == SubSeq(b, p, e)
               v == readVarint(b, p)
           IN  /\ \A k \in Heads(s) :
                      /\ k \in 1 .. (e + 1 - p) /\ v.next = p + k
                      /\ HeadValue(s, k) = v.value /\ Rest(s, k) = SubSeq(b, v.next, e)
               /\ v.next \in 1 .. (e + 1) => v.next - p \in Heads(s)
<1> DEFINE s == SubSeq(b, p, e)
           v == readVarint(b, p)
<1>1. /\ Len(b) \in Nat /\ Len(s) = e + 1 - p
      /\ \A k \in 0 .. (e + 1 - p) : /\ SubSeq(s, 1, k) = SubSeq(b, p, p + k - 1)
                                     /\ Rest(s, k) = SubSeq(b, p + k, e)
  BY Slices
<1> HIDE DEF s
<1>2. \A k \in 1 .. (e + 1 - p) :
          /\ k \in Heads(s) <=> Spans(b, p, p + k - 1)
          /\ HeadValue(s, k) = Groups(SubSeq(b, p, p + k - 1))
  <2> TAKE k \in 1 .. (e + 1 - p)
  <2>1. k \in 0 .. (e + 1 - p) /\ p + k - 1 \in (p - 1) .. Len(b)
    BY <1>1
  <2>2. SubSeq(s, 1, k) = SubSeq(b, p, p + k - 1)
    BY <1>1, <2>1
  <2>3. IsVarint(SubSeq(b, p, p + k - 1)) <=> Spans(b, p, p + k - 1)
    BY <2>1, VarintSpans
  <2> QED
    BY <1>1, <2>2, <2>3 DEF Heads, HeadValue
<1>3. ASSUME NEW k \in Heads(s)
      PROVE  /\ k \in 1 .. (e + 1 - p) /\ v.next = p + k
             /\ HeadValue(s, k) = v.value /\ Rest(s, k) = SubSeq(b, v.next, e)
  <2>1. k \in 1 .. (e + 1 - p)
    BY <1>1 DEF Heads
  <2>2. Spans(b, p, p + k - 1) /\ p + k - 1 \in Int
    BY <1>2, <2>1
  <2>3. PICK q \in p .. Len(b) : Spans(b, p, q) /\ v = VarintTo(b, p, q)
    BY <2>2, ReadSpan
  <2>4. q = p + k - 1
    BY <2>2, <2>3, SpanUnique
  <2>5. v.next = p + k /\ v.value = Groups(SubSeq(b, p, p + k - 1))
    <3>1. v.next = q + 1 /\ v.value = Groups(SubSeq(b, p, q))
      BY <2>3 DEF VarintTo
    <3>2. q + 1 = p + k
      BY <2>1, <2>4
    <3> QED
      BY <2>4, <3>1, <3>2
  <2>6. k \in 0 .. (e + 1 - p)
    BY <2>1
  <2> HIDE DEF v
  <2> QED
    BY <1>1, <1>2, <2>1, <2>5, <2>6
<1>4. ASSUME v.next \in 1 .. (e + 1) PROVE v.next - p \in Heads(s)
  <2>1. PICK q \in p .. Len(b) : Spans(b, p, q) /\ v = VarintTo(b, p, q)
    <3>1. v # NoVarint
      BY <1>4 DEF NoVarint
    <3> QED
      BY <3>1, ReadSpan
  <2>2. v.next = q + 1
    BY <2>1 DEF VarintTo
  <2> HIDE DEF v
  <2>3. v.next - p \in 1 .. (e + 1 - p) /\ p + (v.next - p) - 1 = q
    BY <1>1, <1>4, <2>2
  <2> QED
    BY <1>2, <2>1, <2>3
<1> QED
  BY <1>3, <1>4 DEF s

\* The position after a payload is beyond its start.
LEMMA PayloadAfter ==
    ASSUME WireSizes, NEW b \in Seq(Nat), NEW p \in 1 .. (Len(b) + 1), NEW w \in Nat
    PROVE  PayloadEnd(b, w, p) = 0 \/ (PayloadEnd(b, w, p) \in Nat /\ PayloadEnd(b, w, p) > p)
<1>1. /\ readVarint(b, p).value \in Nat /\ readVarint(b, p).next \in Nat
      /\ readVarint(b, p).next = 0 \/ readVarint(b, p).next > p
  <2>1. Len(b) \in Nat
    OBVIOUS
  <2> QED
    BY <2>1, ReadRange
<1>2. p \in Nat /\ Fixed64 \in Nat /\ Fixed64 > 0 /\ Fixed32 \in Nat /\ Fixed32 > 0
  BY DEF WireSizes
<1>3. CASE w = 0
  <2>1. PayloadEnd(b, w, p) = readVarint(b, p).next
    BY <1>3 DEF PayloadEnd
  <2> QED
    BY <1>1, <2>1
<1>4. CASE w = 1
  BY <1>2, <1>4 DEF PayloadEnd
<1>5. CASE w = 2
  <2>1. PayloadEnd(b, w, p) = IF readVarint(b, p).next = 0 THEN 0
                              ELSE readVarint(b, p).next + readVarint(b, p).value
    BY <1>5 DEF PayloadEnd
  <2>2. \A x, y, z \in Nat : x > z => x + y \in Nat /\ x + y > z
    OBVIOUS
  <2> QED
    BY <1>1, <1>2, <2>1, <2>2
<1>6. CASE w = 5
  BY <1>2, <1>6 DEF PayloadEnd
<1>7. CASE w \notin {0, 1, 2, 5}
  <2>1. w # 0 /\ w # 1 /\ w # 2 /\ w # 5
    BY <1>7
  <2> QED
    BY <2>1 DEF PayloadEnd
<1> QED
  BY <1>3, <1>4, <1>5, <1>6, <1>7

\* The grammar's payloads are those PayloadEnd ends with.
LEMMA PayloadRead ==
    ASSUME WireSizes, NEW b \in Seq(Nat), NEW w \in Nat,
           NEW p \in 1 .. (Len(b) + 1), NEW e \in (p - 1) .. Len(b)
    PROVE  IsPayload(w, SubSeq(b, p, e)) <=> PayloadEnd(b, w, p) = e + 1
<1> DEFINE s == SubSeq(b, p, e)
           v == readVarint(b, p)
<1>1. /\ v.value \in Nat /\ v.next \in Nat
      /\ v.next = 0 \/ v.next \in (p + 1) .. (Len(b) + 1)
  BY ReadRange
<1>2. /\ \A k \in Heads(s) : /\ k \in 1 .. (e + 1 - p) /\ v.next = p + k
                             /\ HeadValue(s, k) = v.value
      /\ v.next \in 1 .. (e + 1) => v.next - p \in Heads(s)
  BY HeadRead
<1>3. Len(b) \in Nat /\ Len(s) = e + 1 - p /\ p \in Nat /\ e \in Nat
  BY Slices
<1>4. IsVarint(s) <=> v.next = e + 1
  <2>1. IsVarint(s) <=> Spans(b, p, e)
    BY VarintSpans
  <2>2. ASSUME Spans(b, p, e) PROVE v.next = e + 1
    <3>1. PICK q \in p .. Len(b) : Spans(b, p, q) /\ v = VarintTo(b, p, q)
      BY <1>3, <2>2, ReadSpan
    <3>2. q = e
      BY <1>3, <2>2, <3>1, SpanUnique
    <3> QED
      BY <3>1, <3>2 DEF VarintTo
  <2>3. ASSUME v.next = e + 1 PROVE Spans(b, p, e)
    <3>1. v # NoVarint
      BY <1>3, <2>3 DEF NoVarint
    <3>2. PICK q \in p .. Len(b) : Spans(b, p, q) /\ v = VarintTo(b, p, q)
      BY <3>1, ReadSpan
    <3>3. v.next = q + 1
      BY <3>2 DEF VarintTo
    <3>4. q = e
      BY <1>3, <2>3, <3>3
    <3> QED
      BY <3>2, <3>4
  <2> QED
    BY <2>1, <2>2, <2>3
<1>5. (\E j \in Heads(s) : HeadValue(s, j) = Len(s) - j) <=>
          v.next # 0 /\ v.next + v.value = e + 1
  <2> HIDE DEF s, v
  <2>1. ASSUME NEW j \in Heads(s), HeadValue(s, j) = Len(s) - j
        PROVE  v.next # 0 /\ v.next + v.value = e + 1
    <3>1. /\ j \in 1 .. (e + 1 - p) /\ v.next = p + j
          /\ v.value = (e + 1 - p) - j
      BY <1>2, <1>3, <2>1
    <3>2. \A x, y, z \in Nat :
              x \in 1 .. (z + 1 - y) => y + x # 0 /\ (y + x) + ((z + 1 - y) - x) = z + 1
      OBVIOUS
    <3>3. j \in Nat
      BY <3>1
    <3> QED
      BY <1>3, <3>1, <3>2, <3>3
  <2>2. ASSUME v.next # 0, v.next + v.value = e + 1
        PROVE  \E j \in Heads(s) : HeadValue(s, j) = Len(s) - j
    <3>1. v.next \in 1 .. (e + 1)
      BY <1>1, <1>3, <2>2
    <3>2. v.next - p \in Heads(s) /\ HeadValue(s, v.next - p) = v.value
      BY <1>2, <3>1
    <3>3. v.value = Len(s) - (v.next - p)
      <4>1. PICK x, y \in Nat : x = v.next /\ y = v.value
        BY <1>1
      <4>2. x + y = e + 1
        BY <2>2, <4>1
      <4>3. y = (e + 1 - p) - (x - p)
        BY <1>3, <4>2
      <4> QED
        BY <1>3, <4>1, <4>3
    <3> QED
      BY <3>2, <3>3
  <2> QED
    BY <2>1, <2>2
<1>6. Fixed64 \in Nat /\ Fixed32 \in Nat
  BY DEF WireSizes
<1>7. CASE w = 0
  <2>1. PayloadEnd(b, w, p) = v.next
    BY <1>7 DEF PayloadEnd
  <2> QED
    BY <1>4, <1>7, <2>1 DEF IsPayload
<1>8. CASE w = 1
  <2>1. PayloadEnd(b, w, p) = p + Fixed64
    BY <1>8 DEF PayloadEnd
  <2>2. Len(s) = Fixed64 <=> p + Fixed64 = e + 1
    BY <1>3, <1>6
  <2> QED
    BY <1>8, <2>1, <2>2 DEF IsPayload
<1>9. CASE w = 2
  <2>1. PayloadEnd(b, w, p) = IF v.next = 0 THEN 0 ELSE v.next + v.value
    BY <1>9 DEF PayloadEnd
  <2>2. PayloadEnd(b, w, p) = e + 1 <=> v.next # 0 /\ v.next + v.value = e + 1
    BY <1>3, <2>1
  <2> QED
    BY <1>5, <1>9, <2>2 DEF IsPayload
<1>10. CASE w = 5
  <2>1. PayloadEnd(b, w, p) = p + Fixed32
    BY <1>10 DEF PayloadEnd
  <2>2. Len(s) = Fixed32 <=> p + Fixed32 = e + 1
    BY <1>3, <1>6
  <2> QED
    BY <1>10, <2>1, <2>2 DEF IsPayload
<1>11. CASE w \notin {0, 1, 2, 5}
  <2>1. PayloadEnd(b, w, p) = 0
    BY <1>11 DEF PayloadEnd
  <2> QED
    BY <1>3, <1>11, <2>1 DEF IsPayload
<1> QED
  BY <1>7, <1>8, <1>9, <1>10, <1>11

\* A field the walk accepts ends behind its start.
LEMMA FieldAfter ==
    ASSUME WireSizes, NEW b \in Seq(Nat), NEW p \in 1 .. (Len(b) + 1)
    PROVE  /\ Len(b) \in Nat
           /\ FieldEnd(b, p) = 0 \/ FieldEnd(b, p) \in (p + 1) .. (Len(b) + 1)
<1> DEFINE t == readVarint(b, p)
           f == PayloadEnd(b, t.value % 8, t.next)
<1>1. /\ Len(b) \in Nat /\ t.value \in Nat /\ t.next \in Nat
      /\ t.next = 0 \/ t.next \in (p + 1) .. (Len(b) + 1)
  BY ReadRange
<1>2. FieldEnd(b, p) = IF t.next = 0 \/ t.value < 8 \/ f \notin 1 .. (Len(b) + 1)
                       THEN 0 ELSE f
  BY DEF FieldEnd
<1> HIDE DEF t
<1>3. t.next # 0 => f = 0 \/ (f \in Nat /\ f > t.next)
  <2> SUFFICES ASSUME t.next # 0 PROVE f = 0 \/ (f \in Nat /\ f > t.next)
    OBVIOUS
  <2>1. t.next \in 1 .. (Len(b) + 1) /\ t.value % 8 \in Nat
    BY <1>1
  <2> QED
    BY <2>1, PayloadAfter
<1> HIDE DEF f
<1>4. CASE FieldEnd(b, p) = 0
  BY <1>1, <1>4
<1>5. CASE FieldEnd(b, p) # 0
  <2>1. t.next # 0 /\ f \in 1 .. (Len(b) + 1) /\ FieldEnd(b, p) = f
    BY <1>2, <1>5
  <2>2. f > t.next /\ t.next >= p + 1
    BY <1>1, <1>3, <2>1
  <2>3. \A x, y, z, l \in Nat :
            x > y /\ y >= z + 1 /\ x \in 1 .. (l + 1) => x \in (z + 1) .. (l + 1)
    OBVIOUS
  <2>4. f \in Nat /\ p \in Nat
    BY <1>1, <2>1
  <2> QED
    BY <1>1, <2>1, <2>2, <2>3, <2>4
<1> QED
  BY <1>4, <1>5

\* The grammar's fields are those the walk accepts; it sees the same recipients.
LEMMA FieldRead ==
    ASSUME WireSizes, NEW b \in Seq(Nat), NEW p \in 1 .. Len(b), NEW e \in p .. Len(b)
    PROVE  LET s == SubSeq(b, p, e)
           IN  /\ IsField(s) <=> FieldEnd(b, p) = e + 1
               /\ IsField(s) => (IsRecipient(s) <=> IsKey(b, p))
               /\ IsField(s) /\ IsRecipient(s) => (HoldsKey(s) <=> ~WrongSize(b, p))
<1> DEFINE s == SubSeq(b, p, e)
           t == readVarint(b, p)
           f == PayloadEnd(b, t.value % 8, t.next)
<1>1. /\ Len(b) \in Nat /\ p \in 1 .. (Len(b) + 1) /\ e \in (p - 1) .. Len(b)
      /\ e \in Nat /\ p \in Nat /\ e + 1 \in 1 .. (Len(b) + 1)
  OBVIOUS
<1>2. /\ t.value \in Nat /\ t.next \in Nat
      /\ t.next = 0 \/ t.next \in (p + 1) .. (Len(b) + 1)
  BY <1>1, ReadRange
<1>3. /\ \A k \in Heads(s) : /\ k \in 1 .. (e + 1 - p) /\ t.next = p + k
                             /\ HeadValue(s, k) = t.value
                             /\ Rest(s, k) = SubSeq(b, t.next, e)
      /\ t.next \in 1 .. (e + 1) => t.next - p \in Heads(s)
  BY <1>1, HeadRead
<1>4. FieldEnd(b, p) = IF t.next = 0 \/ t.value < 8 \/ f \notin 1 .. (Len(b) + 1)
                       THEN 0 ELSE f
  BY DEF FieldEnd
<1>5. IsKey(b, p) <=> t.value = 8 * RecipientField + 2
  BY DEF IsKey
<1>6. KeyFrom(b, p) = readVarint(b, t.next).next
  BY DEF KeyFrom
<1>7. Len(s) = e + 1 - p
  BY <1>1, Slices
<1> HIDE DEF s, t
<1> DEFINE w == t.value % 8
<1>8. w \in Nat
  BY <1>2
<1>9. t.next \in 1 .. (e + 1) =>
        /\ t.next \in 1 .. (Len(b) + 1) /\ e \in (t.next - 1) .. Len(b)
        /\ IsPayload(w, SubSeq(b, t.next, e)) <=> f = e + 1
  <2> SUFFICES ASSUME t.next \in 1 .. (e + 1)
               PROVE /\ t.next \in 1 .. (Len(b) + 1) /\ e \in (t.next - 1) .. Len(b)
                     /\ IsPayload(w, SubSeq(b, t.next, e)) <=> f = e + 1
    OBVIOUS
  <2>1. t.next \in 1 .. (Len(b) + 1) /\ e \in (t.next - 1) .. Len(b)
    BY <1>1
  <2> HIDE DEF w
  <2> QED
    BY <1>8, <2>1, PayloadRead DEF w
<1>10. IsField(s) <=> t.next \in 1 .. (e + 1) /\ t.value >= 8 /\ IsPayload(w, SubSeq(b, t.next, e))
  <2>1. ASSUME IsField(s)
        PROVE  t.next \in 1 .. (e + 1) /\ t.value >= 8 /\ IsPayload(w, SubSeq(b, t.next, e))
    <3>1. PICK k \in Heads(s) : HeadValue(s, k) >= 8 /\ IsPayload(HeadValue(s, k) % 8, Rest(s, k))
      BY <2>1 DEF IsField
    <3>2. /\ k \in 1 .. (e + 1 - p) /\ t.next = p + k
          /\ HeadValue(s, k) = t.value /\ Rest(s, k) = SubSeq(b, t.next, e)
      BY <1>3
    <3>3. t.next \in 1 .. (e + 1)
      BY <1>1, <3>2
    <3> QED
      BY <3>1, <3>2, <3>3
  <2>2. ASSUME t.next \in 1 .. (e + 1), t.value >= 8, IsPayload(w, SubSeq(b, t.next, e))
        PROVE  IsField(s)
    <3>1. t.next - p \in Heads(s)
      BY <1>3, <2>2
    <3>2. HeadValue(s, t.next - p) = t.value /\ Rest(s, t.next - p) = SubSeq(b, t.next, e)
      BY <1>3, <3>1
    <3> QED
      BY <2>2, <3>1, <3>2 DEF IsField
  <2> QED
    BY <2>1, <2>2
<1>11. IsField(s) <=> FieldEnd(b, p) = e + 1
  <2>1. ASSUME IsField(s) PROVE FieldEnd(b, p) = e + 1
    <3>1. t.next \in 1 .. (e + 1) /\ t.value >= 8 /\ f = e + 1
      BY <1>9, <1>10, <2>1
    <3> HIDE DEF f
    <3> QED
      BY <1>1, <1>2, <1>4, <3>1
  <2>2. ASSUME FieldEnd(b, p) = e + 1 PROVE IsField(s)
    <3>1. t.next # 0 /\ t.value >= 8 /\ f = e + 1
      <4> HIDE DEF f
      <4> QED
        BY <1>1, <1>2, <1>4, <2>2
    <3>2. t.next \in 1 .. (Len(b) + 1)
      BY <1>1, <1>2, <3>1
    <3>3. f > t.next
      <4>1. f = 0 \/ (f \in Nat /\ f > t.next)
        <5> HIDE DEF w
        <5> QED
          BY <1>8, <3>2, PayloadAfter DEF w
      <4> QED
        BY <1>1, <3>1, <4>1
    <3>4. t.next \in 1 .. (e + 1)
      <4> HIDE DEF f
      <4> QED
        BY <1>1, <1>2, <3>1, <3>2, <3>3
    <3> QED
      BY <1>9, <1>10, <3>1, <3>4
  <2> QED
    BY <2>1, <2>2
<1>12. IsField(s) => (IsRecipient(s) <=> IsKey(b, p))
  <2> SUFFICES ASSUME IsField(s) PROVE IsRecipient(s) <=> IsKey(b, p)
    OBVIOUS
  <2>1. t.next - p \in Heads(s)
    BY <1>3, <1>10
  <2> QED
    BY <1>3, <1>5, <2>1 DEF IsRecipient
<1>13. IsField(s) /\ IsRecipient(s) => (HoldsKey(s) <=> ~WrongSize(b, p))
  <2> SUFFICES ASSUME IsField(s), IsRecipient(s) PROVE HoldsKey(s) <=> ~WrongSize(b, p)
    OBVIOUS
  <2> DEFINE u == readVarint(b, t.next)
             r == SubSeq(b, t.next, e)
  <2>1. /\ t.next \in 1 .. (Len(b) + 1) /\ e \in (t.next - 1) .. Len(b)
        /\ t.next \in 1 .. (e + 1) /\ IsPayload(w, r)
    BY <1>9, <1>10
  <2>2. t.value = 8 * RecipientField + 2 /\ IsKey(b, p)
    BY <1>5, <1>12
  <2>3. w = 2
    <3>1. RecipientField \in Nat
      BY DEF WireSizes
    <3>2. \A x \in Nat : (8 * x + 2) % 8 = 2
      OBVIOUS
    <3> QED
      BY <2>2, <3>1, <3>2
  <2>4. /\ \A j \in Heads(r) : j \in 1 .. (e + 1 - t.next) /\ u.next = t.next + j
        /\ u.next \in 1 .. (e + 1) => u.next - t.next \in Heads(r)
    BY <2>1, HeadRead
  <2>5. u.next \in Nat
    BY <2>1, ReadRange
  <2>6. PICK j \in Heads(r) : TRUE
    <3> HIDE DEF w
    <3> QED
      BY <2>1, <2>3 DEF IsPayload
  <2>7. KeyLen \in Nat
    BY DEF WireSizes
  <2>8. WrongSize(b, p) <=> (e + 1) - u.next # KeyLen
    BY <1>6, <1>11, <2>2 DEF WrongSize
  <2>9. /\ \A k \in Heads(s) : k \in Nat /\ t.next = p + k /\ Rest(s, k) = r
        /\ t.next - p \in Heads(s)
    <3>1. \A k \in 1 .. (e + 1 - p) : k \in Nat
      BY <1>1
    <3>2. t.next - p \in Heads(s)
      BY <1>3, <2>1
    <3> QED
      BY <1>3, <3>1, <3>2
  <2> HIDE DEF u, r, w
  <2>10. \A i \in Heads(r) : i = u.next - t.next /\ i \in Nat
    <3> TAKE i \in Heads(r)
    <3>1. PICK x \in Nat : x = t.next
      BY <1>2
    <3>2. i \in 1 .. (e + 1 - x) /\ u.next = x + i
      BY <2>4, <3>1
    <3>3. i \in Nat /\ (x + i) - x = i
      BY <1>1, <3>2
    <3> QED
      BY <3>1, <3>2, <3>3
  <2>11. ASSUME HoldsKey(s) PROVE (e + 1) - u.next = KeyLen
    <3>1. PICK k \in Heads(s) : \E i \in Heads(Rest(s, k)) : Len(s) = k + i + KeyLen
      BY <2>11 DEF HoldsKey
    <3>2. PICK i \in Heads(r) : Len(s) = k + i + KeyLen
      BY <2>9, <3>1
    <3>3. i = u.next - t.next /\ t.next = p + k /\ k \in Nat
      BY <2>9, <2>10
    <3>4. PICK x, y \in Nat : x = t.next /\ y = u.next
      BY <1>2, <2>5
    <3>5. e + 1 - p = k + (y - x) + KeyLen /\ x = p + k
      BY <1>7, <3>2, <3>3, <3>4
    <3>6. (e + 1) - y = KeyLen
      BY <1>1, <2>7, <3>3, <3>5
    <3> QED
      BY <3>4, <3>6
  <2>12. ASSUME (e + 1) - u.next = KeyLen PROVE HoldsKey(s)
    <3>1. j = u.next - t.next /\ t.next - p \in Heads(s) /\ Rest(s, t.next - p) = r
      BY <2>9, <2>10
    <3>2. Len(s) = (t.next - p) + j + KeyLen
      <4>1. PICK x, y \in Nat : x = t.next /\ y = u.next
        BY <1>2, <2>5
      <4>2. j = y - x /\ (e + 1) - y = KeyLen
        BY <2>12, <3>1, <4>1
      <4>3. e + 1 - p = (x - p) + j + KeyLen
        BY <1>1, <4>2
      <4> QED
        BY <1>7, <4>1, <4>3
    <3> QED
      BY <3>1, <3>2 DEF HoldsKey
  <2> QED
    BY <2>8, <2>11, <2>12
<1> QED
  BY <1>11, <1>12, <1>13 DEF s

\* Put p before a set of cuts that starts at e: the pieces are those it had, and
\* the one from p to e.
LEMMA PiecesCons ==
    ASSUME NEW p \in Nat, NEW e \in Nat, p < e, NEW C, C \subseteq Nat, e \in C,
           \A c \in C : e <= c
    PROVE  Pieces(C \cup {p}) = Pieces(C) \cup {<<p, e>>}
<1>1. ASSUME NEW f \in Pieces(C \cup {p}) PROVE f \in Pieces(C) \cup {<<p, e>>}
  <2>1. PICK x, y \in C \cup {p} : f = <<x, y>>
    <3>1. f \in (C \cup {p}) \X (C \cup {p})
      BY <1>1 DEF Pieces
    <3>2. f[1] \in C \cup {p} /\ f[2] \in C \cup {p} /\ f = <<f[1], f[2]>>
      BY <3>1
    <3> QED
      BY <3>2
  <2>2. x < y /\ \A c \in C \cup {p} : c <= x \/ y <= c
    BY <1>1, <2>1 DEF Pieces
  <2>3. CASE x = p
    <3>1. y \in C /\ y \in Nat
      BY <2>1, <2>2, <2>3
    <3>2. e <= y /\ (e <= p \/ y <= e)
      BY <2>2, <2>3, <3>1
    <3>3. y = e
      BY <3>1, <3>2
    <3> QED
      BY <2>1, <2>3, <3>3
  <2>4. CASE x # p
    <3>1. x \in C /\ x \in Nat /\ e <= x /\ y \in Nat
      BY <2>1, <2>4
    <3>2. y # p
      BY <2>2, <3>1
    <3>3. y \in C
      BY <2>1, <3>2
    <3> QED
      BY <2>1, <2>2, <3>1, <3>3 DEF Pieces
  <2> QED
    BY <2>3, <2>4
<1>2. <<p, e>> \in Pieces(C \cup {p})
  <2>1. \A c \in C \cup {p} : c <= p \/ e <= c
    OBVIOUS
  <2> QED
    BY <2>1 DEF Pieces
<1>3. ASSUME NEW f \in Pieces(C) PROVE f \in Pieces(C \cup {p})
  <2>1. PICK x, y \in C : f = <<x, y>>
    <3>1. f \in C \X C
      BY <1>3 DEF Pieces
    <3>2. f[1] \in C /\ f[2] \in C /\ f = <<f[1], f[2]>>
      BY <3>1
    <3> QED
      BY <3>2
  <2>2. x < y /\ \A c \in C : c <= x \/ y <= c
    BY <1>3, <2>1 DEF Pieces
  <2>3. p <= x
    <3>1. x \in Nat /\ e <= x
      BY <2>1
    <3> QED
      BY <3>1
  <2> QED
    BY <2>1, <2>2, <2>3 DEF Pieces
<1> QED
  BY <1>1, <1>2, <1>3

\* D is the cut p put before the cuts C, which start at e.
Before(b, p, e, C, D) ==
    /\ p \in 0 .. (Len(b) - 1) /\ e \in (p + 1) .. Len(b)
    /\ p \in D /\ D \ {p} = C /\ e \in C /\ C \subseteq e .. Len(b)

\* The cuts from p to the end of b have a second one, where the others start.
LEMMA SecondCut ==
    ASSUME NEW b \in Seq(Nat), NEW p \in 0 .. (Len(b) - 1),
           NEW D, D \subseteq p .. Len(b), p \in D, Len(b) \in D
    PROVE  \E e : Before(b, p, e, D \ {p}, D)
<1> DEFINE C == D \ {p}
           e == Min(C)
           l == Len(b)
<1>0. l \in Nat /\ p \in Nat /\ p < l
  OBVIOUS
<1>1. \A c \in C : c \in (p + 1) .. l
  BY <1>0
<1>2. C \subseteq Nat /\ C # {}
  <2>1. l \in C
    BY <1>0
  <2> HIDE DEF C
  <2> QED
    BY <1>0, <1>1, <2>1
<1>3. e \in C /\ \A y \in C : e <= y
  <2> HIDE DEF C
  <2> QED
    BY <1>2, Least
<1> HIDE DEF e
<1>4. e \in (p + 1) .. l
  BY <1>1, <1>3
<1>5. C \subseteq e .. l
  BY <1>0, <1>1, <1>3, <1>4
<1>6. Before(b, p, e, C, D)
  BY <1>3, <1>4, <1>5 DEF Before
<1> HIDE DEF C
<1>7. \E d : Before(b, p, d, C, D)
  BY <1>6
<1> QED
  BY <1>7 DEF C

\* What Cuts holds, without the way it is enumerated.
LEMMA CutsAre ==
    ASSUME NEW b \in Seq(Nat), NEW p \in 0 .. Len(b), NEW C
    PROVE  C \in Cuts(b, p) <=>
               /\ C \subseteq p .. Len(b) /\ p \in C /\ Len(b) \in C
               /\ \A f \in Pieces(C) : IsField(Piece(b, f))
<1>1. Len(b) \in Nat
  OBVIOUS
<1>2. ASSUME C \in Cuts(b, p)
      PROVE  C \subseteq p .. Len(b) /\ p \in C /\ Len(b) \in C
  <2>1. PICK c \in SUBSET ((p + 1) .. (Len(b) - 1)) : C = c \cup {p, Len(b)}
    BY <1>2 DEF Cuts
  <2>2. \A x \in c : x \in p .. Len(b)
    BY <1>1
  <2>3. p \in p .. Len(b) /\ Len(b) \in p .. Len(b)
    BY <1>1
  <2> QED
    BY <2>1, <2>2, <2>3
<1>3. ASSUME C \subseteq p .. Len(b), p \in C, Len(b) \in C
      PROVE  C \in {c \cup {p, Len(b)} : c \in SUBSET ((p + 1) .. (Len(b) - 1))}
  <2> DEFINE c == C \cap ((p + 1) .. (Len(b) - 1))
  <2>1. C = c \cup {p, Len(b)}
    <3>1. ASSUME NEW x \in C PROVE x \in c \cup {p, Len(b)}
      BY <1>1, <1>3
    <3> QED
      BY <1>3, <3>1
  <2> QED
    BY <2>1
<1> QED
  BY <1>2, <1>3 DEF Cuts

\* The walk's function exists, so it is what its definition says.
LEMMA WalkSteps ==
    ASSUME WireSizes, NEW b \in Seq(Nat), NEW p \in 1 .. (Len(b) + 1)
    PROVE  Walk(b)[p] =
               IF p = Len(b) + 1 THEN {}
               ELSE IF FieldEnd(b, p) = 0 \/ WrongSize(b, p) THEN {0}
               ELSE IF IsKey(b, p) THEN {FieldEnd(b, p)} \cup Walk(b)[FieldEnd(b, p)]
               ELSE Walk(b)[FieldEnd(b, p)]
<1> DEFINE L == Len(b)
           Val(g, q) == IF q = L + 1 THEN {}
                        ELSE IF FieldEnd(b, q) = 0 \/ WrongSize(b, q) THEN {0}
                        ELSE IF IsKey(b, q) THEN {FieldEnd(b, q)} \cup g[FieldEnd(b, q)]
                        ELSE g[FieldEnd(b, q)]
           Has(m) == \E g : \A q \in (L + 1 - m) .. (L + 1) : g[q] = Val(g, q)
           S == {m \in Nat : m <= L => Has(m)}
<1>0. L \in Nat
  OBVIOUS
<1>1. \A q \in 1 .. (L + 1) : FieldEnd(b, q) = 0 \/ FieldEnd(b, q) \in (q + 1) .. (L + 1)
  BY FieldAfter
<1> HIDE DEF L
<1>2. 0 \in S
  <2> DEFINE g == [q \in {L + 1} |-> {}]
  <2>1. \A q \in (L + 1 - 0) .. (L + 1) : q = L + 1
    BY <1>0
  <2>2. \A q \in (L + 1 - 0) .. (L + 1) : g[q] = Val(g, q)
    BY <2>1
  <2> HIDE DEF g, Val
  <2> QED
    BY <2>2
<1>3. ASSUME NEW m \in Nat, m \in S PROVE m + 1 \in S
  <2> SUFFICES ASSUME m + 1 <= L PROVE Has(m + 1)
    <3> HIDE DEF Has
    <3> QED
      OBVIOUS
  <2>1. PICK g : \A q \in (L + 1 - m) .. (L + 1) : g[q] = Val(g, q)
    <3>1. Has(m)
      <4> HIDE DEF Has
      <4> QED
        BY <1>0, <1>3
    <3> HIDE DEF Val
    <3> QED
      BY <3>1
  <2> DEFINE n == L - m
             x == Val(g, n)
             h == [q \in n .. (L + 1) |-> IF q = n THEN x ELSE g[q]]
  <2>2. n \in 1 .. L /\ n + 1 = L + 1 - m /\ n = L + 1 - (m + 1)
    BY <1>0
  <2> HIDE DEF n
  <2>3. \A q \in (n + 1) .. (L + 1) : h[q] = g[q]
    <3> HIDE DEF x
    <3> QED
      BY <1>0, <2>2
  <2>4. h[n] = x
    <3> HIDE DEF x
    <3> QED
      BY <1>0, <2>2
  <2> HIDE DEF h
  <2>5. ASSUME NEW q \in n .. (L + 1) PROVE Val(h, q) = Val(g, q)
    <3>1. q \in 1 .. (L + 1)
      BY <1>0, <2>2
    <3>2. FieldEnd(b, q) # 0 => FieldEnd(b, q) \in (n + 1) .. (L + 1)
      BY <1>0, <1>1, <2>2, <3>1
    <3> QED
      BY <2>3, <3>2
  <2>6. ASSUME NEW q \in n .. (L + 1) PROVE h[q] = Val(h, q)
    <3>1. CASE q = n
      BY <2>4, <2>5, <3>1
    <3>2. CASE q # n
      <4>1. q \in (n + 1) .. (L + 1)
        BY <1>0, <2>2, <3>2
      <4>2. h[q] = g[q] /\ g[q] = Val(g, q)
        <5> HIDE DEF Val
        <5> QED
          BY <2>1, <2>2, <2>3, <4>1
      <4> HIDE DEF Val
      <4> QED
        BY <2>5, <4>2
    <3> QED
      BY <3>1, <3>2
  <2> HIDE DEF Val
  <2> QED
    BY <2>2, <2>6
<1>4. Nat \subseteq S
  <2> HIDE DEF S
  <2> QED
    BY <1>2, <1>3, NatSet
<1> DEFINE Body(g) == [q \in 1 .. (L + 1) |-> Val(g, q)]
           v == CHOOSE g : g = Body(g)
<1>5. v = Body(v)
  <2>1. Has(L)
    <3> HIDE DEF Has
    <3> QED
      BY <1>0, <1>4
  <2>2. PICK g : \A q \in 1 .. (L + 1) : g[q] = Val(g, q)
    <3>1. L + 1 - L = 1
      BY <1>0
    <3> HIDE DEF Val
    <3> QED
      BY <2>1, <3>1
  <2> DEFINE h == [q \in 1 .. (L + 1) |-> g[q]]
  <2>3. ASSUME NEW q \in 1 .. (L + 1) PROVE Val(h, q) = Val(g, q)
    <3>1. FieldEnd(b, q) # 0 => FieldEnd(b, q) \in 1 .. (L + 1)
      BY <1>0, <1>1
    <3>2. FieldEnd(b, q) # 0 => h[FieldEnd(b, q)] = g[FieldEnd(b, q)]
      BY <3>1
    <3> HIDE DEF h
    <3> QED
      BY <3>2
  <2>4. h = Body(h)
    <3> HIDE DEF Val
    <3> QED
      BY <2>2, <2>3
  <2>5. \E k : k = Body(k)
    <3> HIDE DEF h, Body
    <3> QED
      BY <2>4
  <2> HIDE DEF Body
  <2> QED
    BY <2>5
<1>6. Walk(b) = v
  BY DEF Walk, L
<1> HIDE DEF v
<1>7. v[p] = Val(v, p)
  <2>1. v[p] = Body(v)[p]
    <3> HIDE DEF Body
    <3> QED
      BY <1>5
  <2> HIDE DEF Val
  <2> QED
    BY <2>1 DEF L
<1> QED
  BY <1>6, <1>7 DEF L

\* The positions after the recipients of a run of fields.
KeyEnds(b, C) == {f[2] + 1 : f \in Recipients(b, C)}
AllHold(b, C) == \A f \in Recipients(b, C) : HoldsKey(Piece(b, f))

\* A run of fields from p on is one field and a run from its end on, and the
\* recipients are told apart field by field.
RunStep(b, p, e, C, D) ==
    /\ D \in Cuts(b, p) <=> C \in Cuts(b, e) /\ FieldEnd(b, p + 1) = e + 1
    /\ FieldEnd(b, p + 1) = e + 1 =>
          /\ KeyEnds(b, D) = IF IsKey(b, p + 1) THEN {e + 1} \cup KeyEnds(b, C)
                             ELSE KeyEnds(b, C)
          /\ AllHold(b, D) <=> AllHold(b, C) /\ ~WrongSize(b, p + 1)
LEMMA RunCons ==
    ASSUME WireSizes, NEW b \in Seq(Nat),
           NEW p, NEW e, NEW C, NEW D, Before(b, p, e, C, D)
    PROVE  RunStep(b, p, e, C, D)
<1> DEFINE x == <<p, e>>
           s == SubSeq(b, p + 1, e)
<1>0. /\ p \in 0 .. (Len(b) - 1) /\ e \in (p + 1) .. Len(b)
      /\ p \in D /\ D \ {p} = C /\ e \in C /\ C \subseteq e .. Len(b)
  BY DEF Before
<1>1. /\ Len(b) \in Nat /\ p \in Nat /\ e \in Nat /\ p < e /\ C \subseteq Nat
      /\ p + 1 \in 1 .. Len(b) /\ e \in (p + 1) .. Len(b)
      /\ p \in 0 .. Len(b) /\ e \in 0 .. Len(b)
  BY <1>0
<1>2. e \in C /\ \A c \in C : e <= c
  BY <1>0, <1>1
<1>3. D = C \cup {p} /\ p \notin C
  BY <1>0
<1>4. Pieces(D) = Pieces(C) \cup {x}
  BY <1>1, <1>2, <1>3, PiecesCons
<1>5. /\ IsField(s) <=> FieldEnd(b, p + 1) = e + 1
      /\ IsField(s) => (IsRecipient(s) <=> IsKey(b, p + 1))
      /\ IsField(s) /\ IsRecipient(s) => (HoldsKey(s) <=> ~WrongSize(b, p + 1))
  BY <1>1, FieldRead
<1>6. Piece(b, x) = s /\ x[2] + 1 = e + 1
  BY DEF Piece
<1> HIDE DEF s, x
<1>7. D \in Cuts(b, p) <=> C \in Cuts(b, e) /\ FieldEnd(b, p + 1) = e + 1
  <2>1. D \in Cuts(b, p) <=> /\ D \subseteq p .. Len(b) /\ p \in D /\ Len(b) \in D
                             /\ \A f \in Pieces(D) : IsField(Piece(b, f))
    BY <1>1, CutsAre
  <2>2. C \in Cuts(b, e) <=> /\ C \subseteq e .. Len(b) /\ e \in C /\ Len(b) \in C
                             /\ \A f \in Pieces(C) : IsField(Piece(b, f))
    BY <1>1, CutsAre
  <2>3. D \subseteq p .. Len(b) /\ (Len(b) \in D <=> Len(b) \in C)
    <3>1. \A c \in C : c \in p .. Len(b)
      BY <1>0, <1>1
    <3>2. p # Len(b) /\ p \in p .. Len(b)
      BY <1>1
    <3> QED
      BY <1>3, <3>1, <3>2
  <2>4. p \in D /\ e \in C /\ C \subseteq e .. Len(b)
    BY <1>0
  <2> QED
    BY <2>4, <1>4, <1>5, <1>6, <2>1, <2>2, <2>3
<1>8. ASSUME FieldEnd(b, p + 1) = e + 1
      PROVE  /\ KeyEnds(b, D) = IF IsKey(b, p + 1) THEN {e + 1} \cup KeyEnds(b, C)
                                ELSE KeyEnds(b, C)
             /\ AllHold(b, D) <=> AllHold(b, C) /\ ~WrongSize(b, p + 1)
  <2>1. CASE IsKey(b, p + 1)
    <3>1. Recipients(b, D) = Recipients(b, C) \cup {x}
      BY <1>4, <1>5, <1>6, <1>8, <2>1 DEF Recipients
    <3>2. KeyEnds(b, D) = {e + 1} \cup KeyEnds(b, C)
      BY <1>6, <3>1 DEF KeyEnds
    <3>3. AllHold(b, D) <=> AllHold(b, C) /\ ~WrongSize(b, p + 1)
      BY <1>5, <1>6, <1>8, <2>1, <3>1 DEF AllHold
    <3> QED
      BY <2>1, <3>2, <3>3
  <2>2. CASE ~IsKey(b, p + 1)
    <3>1. Recipients(b, D) = Recipients(b, C)
      BY <1>4, <1>5, <1>6, <1>8, <2>2 DEF Recipients
    <3>2. ~WrongSize(b, p + 1)
      BY <2>2 DEF WrongSize
    <3> QED
      BY <2>2, <3>1, <3>2 DEF KeyEnds, AllHold
  <2> QED
    BY <2>1, <2>2
<1> QED
  BY <1>7, <1>8 DEF RunStep

\* From every offset on, the walk goes through exactly when the rest of b is a run
\* of fields whose recipients hold a key, and what it finds are those recipients.
LEMMA WalkRuns ==
    ASSUME WireSizes, NEW b \in Seq(Nat), NEW p \in 0 .. Len(b)
    PROVE  /\ \A C \in Cuts(b, p) :
                  AllHold(b, C) => 0 \notin Walk(b)[p + 1] /\ Walk(b)[p + 1] = KeyEnds(b, C)
           /\ 0 \notin Walk(b)[p + 1] =>
                  \E C \in Cuts(b, p) : AllHold(b, C) /\ Walk(b)[p + 1] = KeyEnds(b, C)
<1> DEFINE L == Len(b)
           W(q) == Walk(b)[q + 1]
           Reads(q) == \A C \in Cuts(b, q) : AllHold(b, C) => 0 \notin W(q) /\ W(q) = KeyEnds(b, C)
           Finds(q) == 0 \notin W(q) => \E C \in Cuts(b, q) : AllHold(b, C) /\ W(q) = KeyEnds(b, C)
           S == {m \in Nat : \A q \in 0 .. L : L - q <= m => Reads(q) /\ Finds(q)}
<1>0. L \in Nat
  OBVIOUS
<1>1. Reads(L) /\ Finds(L)
  <2>1. W(L) = {}
    <3>1. L + 1 \in 1 .. (Len(b) + 1)
      BY <1>0
    <3> QED
      BY <3>1, WalkSteps
  <2>2. \A C \in Cuts(b, L) : C = {L}
    <3> TAKE C \in Cuts(b, L)
    <3>1. C \subseteq L .. L /\ L \in C
      BY <1>0, CutsAre
    <3>2. \A x \in C : x = L
      BY <1>0, <3>1
    <3> QED
      BY <3>1, <3>2
  <2>3. Pieces({L}) = {}
    BY <1>0 DEF Pieces
  <2>4. {L} \in Cuts(b, L)
    <3>1. {L} \subseteq L .. L /\ L \in 0 .. L
      BY <1>0
    <3> QED
      BY <2>3, <3>1, CutsAre
  <2>5. Recipients(b, {L}) = {}
    BY <2>3 DEF Recipients
  <2>6. AllHold(b, {L}) /\ KeyEnds(b, {L}) = {}
    BY <2>5 DEF AllHold, KeyEnds
  <2> HIDE DEF L, W
  <2> QED
    BY <2>1, <2>2, <2>4, <2>6
<1>2. ASSUME NEW q \in 0 .. (L - 1),
             \A r \in (q + 1) .. L : Reads(r) /\ Finds(r)
      PROVE  Reads(q) /\ Finds(q)
  <2> DEFINE N == FieldEnd(b, q + 1)
  <2>1. q + 1 \in 1 .. (Len(b) + 1) /\ q + 1 # Len(b) + 1 /\ q \in 0 .. (Len(b) - 1)
        /\ q \in Nat /\ q < L /\ q \in 0 .. Len(b)
    BY <1>0
  <2>2. N = 0 \/ N \in (q + 2) .. (L + 1)
    <3>1. N = 0 \/ N \in ((q + 1) + 1) .. (L + 1)
      BY <2>1, FieldAfter
    <3> HIDE DEF N
    <3> QED
      BY <1>0, <2>1, <3>1
  <2>3. W(q) = IF N = 0 \/ WrongSize(b, q + 1) THEN {0}
               ELSE IF IsKey(b, q + 1) THEN {N} \cup Walk(b)[N] ELSE Walk(b)[N]
    BY <2>1, WalkSteps
  <2> HIDE DEF L
  <2>4. Reads(q)
    <3> SUFFICES ASSUME NEW D \in Cuts(b, q), AllHold(b, D)
                 PROVE  0 \notin W(q) /\ W(q) = KeyEnds(b, D)
      <4> HIDE DEF W
      <4> QED
        OBVIOUS
    <3>1. D \subseteq q .. L /\ q \in D /\ L \in D
      BY <2>1, CutsAre DEF L
    <3> DEFINE C == D \ {q}
    <3>2. PICK e : Before(b, q, e, C, D)
      BY <2>1, <3>1, SecondCut DEF L
    <3> HIDE DEF C
    <3>3. RunStep(b, q, e, C, D) /\ e \in (q + 1) .. L
      BY <3>2, RunCons DEF Before, L
    <3> HIDE DEF N
    <3>4. C \in Cuts(b, e) /\ N = e + 1 /\ AllHold(b, C) /\ ~WrongSize(b, q + 1)
      BY <3>3 DEF RunStep, N
    <3>5. 0 \notin W(e) /\ W(e) = KeyEnds(b, C)
      <4> HIDE DEF W
      <4> QED
        BY <1>2, <3>3, <3>4
    <3>6. N # 0 /\ Walk(b)[N] = W(e)
      BY <1>0, <2>1, <3>3, <3>4
    <3>7. W(q) = IF IsKey(b, q + 1) THEN {N} \cup W(e) ELSE W(e)
      <4> HIDE DEF W
      <4> QED
        BY <2>3, <3>4, <3>6
    <3> HIDE DEF W
    <3> QED
      BY <3>3, <3>4, <3>5, <3>6, <3>7 DEF RunStep, N
  <2>5. Finds(q)
    <3> SUFFICES ASSUME 0 \notin W(q)
                 PROVE  \E D \in Cuts(b, q) : AllHold(b, D) /\ W(q) = KeyEnds(b, D)
      <4> HIDE DEF W
      <4> QED
        OBVIOUS
    <3>1. N # 0 /\ ~WrongSize(b, q + 1)
      <4> HIDE DEF W, N
      <4> QED
        BY <2>3
    <3> DEFINE e == N - 1
    <3>2. e \in (q + 1) .. L /\ e + 1 = N /\ e \in Nat
      <4> HIDE DEF N
      <4> QED
        BY <1>0, <2>1, <2>2, <3>1
    <3> HIDE DEF e
    <3>3. W(q) = IF IsKey(b, q + 1) THEN {N} \cup W(e) ELSE W(e)
      <4>1. Walk(b)[N] = W(e)
        <5> HIDE DEF N
        <5> QED
          BY <3>2
      <4> HIDE DEF W, N
      <4> QED
        BY <2>3, <3>1, <4>1
    <3>4. PICK C \in Cuts(b, e) : AllHold(b, C) /\ W(e) = KeyEnds(b, C)
      <4> HIDE DEF W
      <4>1. 0 \notin W(e)
        BY <3>3
      <4> QED
        BY <1>2, <3>2, <4>1
    <3>5. C \subseteq e .. L /\ e \in C
      <4>1. e \in 0 .. Len(b)
        BY <1>0, <2>1, <3>2 DEF L
      <4> QED
        BY <3>4, <4>1, CutsAre DEF L
    <3> DEFINE D == C \cup {q}
    <3>6. q \in D /\ D \ {q} = C
      <4>1. q \notin C
        BY <1>0, <2>1, <3>2, <3>5
      <4> QED
        BY <4>1
    <3> HIDE DEF D
    <3>7. Before(b, q, e, C, D)
      BY <2>1, <3>2, <3>5, <3>6 DEF Before, L
    <3>8. RunStep(b, q, e, C, D)
      BY <3>7, RunCons
    <3> HIDE DEF W
    <3> QED
      BY <3>1, <3>2, <3>3, <3>4, <3>8 DEF RunStep
  <2> QED
    BY <2>4, <2>5
<1> HIDE DEF L, Reads, Finds
<1>3. 0 \in S
  <2>1. \A q \in 0 .. L : L - q <= 0 => q = L
    BY <1>0
  <2> QED
    BY <1>1, <2>1
<1>4. ASSUME NEW m \in Nat, m \in S PROVE m + 1 \in S
  <2> SUFFICES ASSUME NEW q \in 0 .. L, L - q <= m + 1 PROVE Reads(q) /\ Finds(q)
    OBVIOUS
  <2>1. CASE q = L
    BY <1>1, <2>1
  <2>2. CASE q # L
    <3>1. q \in 0 .. (L - 1)
      BY <1>0, <2>2
    <3>2. ASSUME NEW r \in (q + 1) .. L PROVE Reads(r) /\ Finds(r)
      <4>1. r \in 0 .. L /\ L - r <= m
        BY <1>0, <3>1
      <4> QED
        BY <1>4, <4>1
    <3> QED
      BY <1>2, <3>1, <3>2
  <2> QED
    BY <2>1, <2>2
<1>5. Nat \subseteq S
  <2> HIDE DEF S
  <2> QED
    BY <1>3, <1>4, NatSet
<1>6. Reads(p) /\ Finds(p)
  <2>1. p \in 0 .. L /\ L - p \in Nat /\ L - p <= L - p
    BY <1>0 DEF L
  <2>2. L - p \in S
    <3> HIDE DEF S
    <3> QED
      BY <1>5, <2>1
  <2> QED
    BY <2>1, <2>2
<1> QED
  BY <1>6 DEF Reads, Finds

\* A piece of a run from the start of b is between two of its cuts.
LEMMA PieceRange ==
    ASSUME NEW b \in Seq(Nat), NEW C \in Cuts(b, 0), NEW f \in Pieces(C)
    PROVE  /\ f = <<f[1], f[2]>> /\ f[1] \in 0 .. Len(b) /\ f[2] \in 0 .. Len(b)
           /\ f[1] \in C /\ f[2] \in C /\ f[1] < f[2]
           /\ \A c \in C : c <= f[1] \/ f[2] <= c
<1>1. C \subseteq 0 .. Len(b)
  <2>1. 0 \in 0 .. Len(b)
    OBVIOUS
  <2> QED
    BY <2>1, CutsAre
<1>2. f \in C \X C /\ f[1] < f[2] /\ \A c \in C : c <= f[1] \/ f[2] <= c
  BY DEF Pieces
<1>3. f = <<f[1], f[2]>> /\ f[1] \in C /\ f[2] \in C
  BY <1>2
<1> QED
  BY <1>1, <1>2, <1>3

\* Pieces of one run that end together are the same.
LEMMA PieceByEnd ==
    ASSUME NEW b \in Seq(Nat), NEW C \in Cuts(b, 0),
           NEW f \in Pieces(C), NEW g \in Pieces(C), f[2] = g[2]
    PROVE  f = g
<1>1. /\ f = <<f[1], f[2]>> /\ f[1] \in 0 .. Len(b) /\ f[2] \in 0 .. Len(b)
      /\ f[1] \in C /\ f[1] < f[2]
      /\ \A c \in C : c <= f[1] \/ f[2] <= c
  BY PieceRange
<1>2. /\ g = <<g[1], g[2]>> /\ g[1] \in 0 .. Len(b) /\ g[2] \in 0 .. Len(b)
      /\ g[1] \in C /\ g[1] < g[2]
      /\ \A c \in C : c <= g[1] \/ g[2] <= c
  BY PieceRange
<1>3. PICK x, y \in Int : x = f[1] /\ y = g[1]
  BY <1>1, <1>2
<1>4. PICK z \in Int : z = f[2]
  BY <1>1
<1>5. (y <= x \/ z <= y) /\ (x <= y \/ z <= x) /\ x < z /\ y < z
  BY <1>1, <1>2, <1>3, <1>4
<1>6. x = y
  BY <1>5
<1> QED
  BY <1>1, <1>2, <1>3, <1>6

\* A field that holds a key is longer than the key.
LEMMA HoldsLong ==
    ASSUME WireSizes, NEW b \in Seq(Nat), NEW x \in 0 .. Len(b), NEW y \in 0 .. Len(b),
           x < y, HoldsKey(SubSeq(b, x + 1, y))
    PROVE  y - KeyLen \in 1 .. y
<1> DEFINE s == SubSeq(b, x + 1, y)
<1>1. KeyLen \in Nat /\ Len(b) \in Nat
  BY DEF WireSizes
<1>2. Len(s) = y - x
  BY <1>1
<1> HIDE DEF s
<1>3. PICK k \in Heads(s) : \E j \in Heads(Rest(s, k)) : Len(s) = k + j + KeyLen
  BY DEF HoldsKey, s
<1>4. PICK j \in Heads(Rest(s, k)) : Len(s) = k + j + KeyLen
  BY <1>3
<1>5. k \in 1 .. Len(s) /\ j \in 1 .. Len(Rest(s, k))
  BY DEF Heads
<1>6. k \in Int /\ k >= 1 /\ j \in Int /\ j >= 1
  BY <1>5
<1> QED
  BY <1>1, <1>2, <1>4, <1>6

\* extractEnvelopeRecipient is exact on every byte string, for every size of the wire
\* format.
THEOREM RecipientFound ==
    ASSUME WireSizes PROVE WalkExact
<1> SUFFICES ASSUME NEW b \in Envelopes
             PROVE  Addressees(b) = {extractEnvelopeRecipient(b)} \ {NoKey}
  BY DEF WalkExact
<1> DEFINE W == Walk(b)[1]
           key == extractEnvelopeRecipient(b)
<1>1. b \in Seq(Nat) /\ Len(b) \in Nat /\ KeyLen \in Nat \ {0}
  <2>1. b \in Seq(Byte) /\ KeyLen \in Nat \ {0} /\ Group \in Nat
    BY DEF WireSizes
  <2>2. \A x \in Byte : x \in Nat
    BY <2>1 DEF Byte
  <2> QED
    BY <2>1, <2>2
<1>2. /\ \A C \in Cuts(b, 0) : AllHold(b, C) => 0 \notin W /\ W = KeyEnds(b, C)
      /\ 0 \notin W => \E C \in Cuts(b, 0) : AllHold(b, C) /\ W = KeyEnds(b, C)
  <2>1. 0 \in 0 .. Len(b) /\ 0 + 1 = 1
    BY <1>1
  <2> QED
    BY <1>1, <2>1, WalkRuns
<1>3. \A e \in 1 .. (Len(b) + 1) : W = {e} => key = SubSeq(b, e - KeyLen, e - 1)
  BY DEF extractEnvelopeRecipient
<1>4. (\A e \in 1 .. (Len(b) + 1) : W # {e}) => key = NoKey
  BY DEF extractEnvelopeRecipient
<1> HIDE DEF W, key
<1>5. ASSUME NEW x \in Addressees(b) PROVE x = key /\ x # NoKey
  <2>1. PICK f \in (0 .. Len(b)) \X (0 .. Len(b)) :
            /\ HoldsKey(Piece(b, f)) /\ \E C \in Cuts(b, 0) : Recipients(b, C) = {f}
            /\ x = SubSeq(b, f[2] - KeyLen + 1, f[2])
    BY <1>5 DEF Addressees
  <2>2. PICK C \in Cuts(b, 0) : Recipients(b, C) = {f}
    BY <2>1
  <2>3. AllHold(b, C) /\ KeyEnds(b, C) = {f[2] + 1} /\ f \in Pieces(C)
    <3>1. f \in Pieces(C)
      BY <2>2 DEF Recipients
    <3> QED
      BY <2>1, <2>2, <3>1 DEF AllHold, KeyEnds
  <2>4. PICK y, z \in 0 .. Len(b) : y = f[1] /\ z = f[2] /\ y < z
    BY <1>1, <2>3, PieceRange
  <2>5. W = {z + 1}
    BY <1>2, <2>3, <2>4
  <2>6. key = SubSeq(b, (z + 1) - KeyLen, (z + 1) - 1)
    <3>1. z + 1 \in 1 .. (Len(b) + 1)
      BY <1>1
    <3> QED
      BY <1>3, <2>5, <3>1
  <2>7. (z + 1) - KeyLen = z - KeyLen + 1 /\ (z + 1) - 1 = z
    BY <1>1
  <2>8. x = key /\ x = SubSeq(b, z - KeyLen + 1, z)
    BY <2>1, <2>4, <2>6, <2>7
  <2>9. z - KeyLen \in 1 .. z
    <3>1. HoldsKey(SubSeq(b, y + 1, z))
      BY <2>1, <2>4 DEF Piece
    <3> QED
      BY <1>1, <2>4, <3>1, HoldsLong
  <2>10. Len(SubSeq(b, z - KeyLen + 1, z)) = KeyLen
    BY <1>1, <2>9
  <2>11. Len(NoKey) = 0
    BY DEF NoKey
  <2> QED
    BY <1>1, <2>8, <2>10, <2>11
<1>6. ASSUME key # NoKey PROVE key \in Addressees(b)
  <2>1. PICK e \in 1 .. (Len(b) + 1) : W = {e}
    BY <1>4, <1>6
  <2>2. 0 \notin W
    BY <2>1
  <2>3. PICK C \in Cuts(b, 0) : AllHold(b, C) /\ W = KeyEnds(b, C)
    BY <1>2, <2>2
  <2>4. PICK f \in Recipients(b, C) : f[2] + 1 = e
    BY <2>1, <2>3 DEF KeyEnds
  <2>5. \A g \in Recipients(b, C) : g[2] + 1 = e /\ g \in Pieces(C)
    BY <2>1, <2>3 DEF KeyEnds, Recipients
  <2>6. f \in Pieces(C)
    BY <2>5
  <2>7. f = <<f[1], f[2]>> /\ f[1] \in 0 .. Len(b) /\ f[2] \in 0 .. Len(b)
    BY <1>1, <2>6, PieceRange
  <2>8. ASSUME NEW g \in Recipients(b, C) PROVE g = f
    <3>1. g \in Pieces(C) /\ g[2] + 1 = e
      BY <2>5
    <3>2. g[2] \in 0 .. Len(b)
      BY <1>1, <3>1, PieceRange
    <3>3. f[2] = g[2]
      <4>1. \A x, y \in 0 .. Len(b) : x + 1 = y + 1 => x = y
        BY <1>1
      <4> QED
        BY <2>4, <2>7, <3>1, <3>2, <4>1
    <3> QED
      BY <1>1, <2>6, <3>1, <3>3, PieceByEnd
  <2>9. Recipients(b, C) = {f}
    BY <2>8
  <2>10. HoldsKey(Piece(b, f))
    BY <2>3 DEF AllHold
  <2>11. f \in (0 .. Len(b)) \X (0 .. Len(b))
    BY <2>7
  <2>12. SubSeq(b, f[2] - KeyLen + 1, f[2]) \in Addressees(b)
    BY <2>3, <2>9, <2>10, <2>11 DEF Addressees
  <2>13. key = SubSeq(b, e - KeyLen, e - 1)
    BY <1>3, <2>1
  <2>14. e - KeyLen = f[2] - KeyLen + 1 /\ e - 1 = f[2]
    <3>1. \A x, y, z \in Int : x + 1 = y => y - z = x - z + 1 /\ y - 1 = x
      OBVIOUS
    <3>2. f[2] \in Int /\ e \in Int /\ KeyLen \in Int
      BY <1>1, <2>7
    <3> QED
      BY <2>4, <3>1, <3>2
  <2> QED
    BY <2>12, <2>13, <2>14
<1> QED
  BY <1>5, <1>6 DEF key

\* A stored Envelope is in the inbox of the recipient a protobuf decoder reads.
THEOREM RecipientsExact == Spec => []RecipientExact
<1> USE EnvelopeAssumption
<1>1. RecipientExact
  BY RecipientFound DEF RecipientExact
<1> QED
  BY <1>1, PTL
=============================================================================
