---------------------------- MODULE ReceiveProofs ----------------------------
(***************************************************************************)
(* Proofs about ReceiveSession, for every capacity of its queues and every *)
(* number of frames and Blobs.                                             *)
(***************************************************************************)
EXTENDS ReceiveSession, TLAPS

-----------------------------------------------------------------------------
(* Sequences and runs of Blobs.                                            *)

\* A sequence grows by one element at its end.
LEMMA AppendElements ==
    ASSUME NEW S, NEW s \in Seq(S), NEW x \in S
    PROVE  /\ Append(s, x) \in Seq(S) /\ Len(Append(s, x)) = Len(s) + 1
           /\ Append(s, x)[Len(s) + 1] = x
           /\ \A i \in 1 .. Len(s) : Append(s, x)[i] = s[i]
  OBVIOUS

\* A sequence over a set is one over every larger set.
LEMMA SeqOfLarger ==
    ASSUME NEW S, NEW T, S \subseteq T, NEW s \in Seq(S) PROVE s \in Seq(T)
  OBVIOUS

\* A sequence loses its head.
LEMMA TailElements ==
    ASSUME NEW S, NEW s \in Seq(S), s # <<>>
    PROVE  /\ Tail(s) \in Seq(S) /\ Len(s) \in Nat /\ Len(s) >= 1
           /\ Len(Tail(s)) = Len(s) - 1
           /\ Head(s) = s[1] /\ Head(s) \in S
           /\ \A i \in 1 .. Len(Tail(s)) : Tail(s)[i] = s[i + 1]
  OBVIOUS

\* An echo or an Error frame behind a run of Blobs leaves the run as it is.
LEMMA CarriesAppendOther ==
    ASSUME NEW s \in Seq(Int), NEW lo \in Int, NEW hi \in Int, NEW f \in Int,
           Carries(s, lo, hi), ~(f > 0)
    PROVE  Carries(Append(s, f), lo, hi)
<1> DEFINE t == Append(s, f)
<1>1. /\ Len(s) \in Nat /\ Len(t) = Len(s) + 1 /\ t[Len(s) + 1] = f
      /\ \A i \in 1 .. Len(s) : t[i] = s[i]
  BY AppendElements
<1>2. \A i \in 1 .. Len(s) : s[i] \in Int
  OBVIOUS
<1> HIDE DEF t
<1>3. \A i \in 1 .. Len(t) : t[i] > 0 => i \in 1 .. Len(s) /\ t[i] = s[i]
  BY <1>1
<1>4. \A i \in 1 .. Len(t) : t[i] > 0 => lo < t[i] /\ t[i] <= hi
  BY <1>3 DEF Carries
<1>5. \A i, j \in 1 .. Len(t) : i < j /\ t[i] > 0 /\ t[j] > 0 => t[i] < t[j]
  BY <1>3 DEF Carries
<1>6. \A n \in (lo + 1) .. hi : \E i \in 1 .. Len(t) : t[i] = n
  <2> TAKE n \in (lo + 1) .. hi
  <2>1. PICK i \in 1 .. Len(s) : s[i] = n
    BY DEF Carries
  <2> QED
    BY <1>1, <2>1
<1> QED
  BY <1>4, <1>5, <1>6 DEF Carries, t

\* The next Blob behind a run of Blobs continues the run.
LEMMA CarriesAppendBlob ==
    ASSUME NEW s \in Seq(Int), NEW lo \in Int, NEW hi \in Int, NEW f \in Int,
           Carries(s, lo, hi), f = hi + 1
    PROVE  Carries(Append(s, f), lo, hi + 1)
<1> DEFINE t == Append(s, f)
<1>1. /\ Len(s) \in Nat /\ Len(t) = Len(s) + 1 /\ t[Len(s) + 1] = f
      /\ \A i \in 1 .. Len(s) : t[i] = s[i]
  BY AppendElements
<1>2. \A i \in 1 .. Len(s) : s[i] \in Int
  OBVIOUS
<1> HIDE DEF t
<1>3. \A i \in 1 .. Len(t) : \/ i = Len(s) + 1 /\ t[i] = hi + 1
                             \/ i \in 1 .. Len(s) /\ t[i] = s[i] /\ t[i] \in Int
  BY <1>1, <1>2
<1>4. \A i \in 1 .. Len(t) : t[i] > 0 => lo < t[i] /\ t[i] <= hi + 1
  <2> TAKE i \in 1 .. Len(t)
  <2>1. CASE i = Len(s) + 1 /\ t[i] = hi + 1
    BY <2>1 DEF Carries
  <2>2. CASE i \in 1 .. Len(s) /\ t[i] = s[i] /\ t[i] \in Int
    <3>1. s[i] > 0 => lo < s[i] /\ s[i] <= hi
      BY <2>2 DEF Carries
    <3> QED
      BY <2>2, <3>1
  <2> QED
    BY <1>3, <2>1, <2>2
<1>5. \A i, j \in 1 .. Len(t) : i < j /\ t[i] > 0 /\ t[j] > 0 => t[i] < t[j]
  <2> SUFFICES ASSUME NEW i \in 1 .. Len(t), NEW j \in 1 .. Len(t),
                      i < j, t[i] > 0, t[j] > 0
               PROVE  t[i] < t[j]
    OBVIOUS
  <2>1. i \in 1 .. Len(s) /\ t[i] = s[i] /\ t[i] \in Int
    BY <1>1, <1>3
  <2>2. t[i] <= hi
    BY <2>1 DEF Carries
  <2>3. CASE j = Len(s) + 1 /\ t[j] = hi + 1
    BY <2>1, <2>2, <2>3
  <2>4. CASE j \in 1 .. Len(s) /\ t[j] = s[j]
    BY <2>1, <2>4 DEF Carries
  <2> QED
    BY <1>3, <2>3, <2>4
<1>6. \A n \in (lo + 1) .. (hi + 1) : \E i \in 1 .. Len(t) : t[i] = n
  <2> TAKE n \in (lo + 1) .. (hi + 1)
  <2>1. CASE n = hi + 1
    BY <1>1, <2>1
  <2>2. CASE n # hi + 1
    <3>1. n \in (lo + 1) .. hi
      BY <2>2
    <3>2. PICK i \in 1 .. Len(s) : s[i] = n
      BY <3>1 DEF Carries
    <3> QED
      BY <1>1, <3>2
  <2> QED
    BY <2>1, <2>2
<1>7. lo <= hi + 1
  BY DEF Carries
<1> QED
  BY <1>4, <1>5, <1>6, <1>7 DEF Carries, t

\* An echo or an Error frame before a run of Blobs can be taken off it.
LEMMA CarriesTailOther ==
    ASSUME NEW s \in Seq(Int), NEW lo \in Int, NEW hi \in Int,
           Carries(s, lo, hi), lo \in Nat, s # <<>>, ~(Head(s) > 0)
    PROVE  Carries(Tail(s), lo, hi)
<1> DEFINE t == Tail(s)
<1>1. /\ Len(s) \in Nat /\ Len(t) = Len(s) - 1 /\ Len(s) >= 1 /\ Head(s) = s[1]
      /\ \A i \in 1 .. Len(t) : t[i] = s[i + 1]
  BY TailElements
<1> HIDE DEF t
<1>2. \A i \in 1 .. Len(t) : t[i] = s[i + 1] /\ i + 1 \in 1 .. Len(s)
  BY <1>1
<1>3. \A i \in 1 .. Len(t) : t[i] > 0 => lo < t[i] /\ t[i] <= hi
  BY <1>2 DEF Carries
<1>4. \A i, j \in 1 .. Len(t) : i < j /\ t[i] > 0 /\ t[j] > 0 => t[i] < t[j]
  <2> SUFFICES ASSUME NEW i \in 1 .. Len(t), NEW j \in 1 .. Len(t), i < j,
                      t[i] > 0, t[j] > 0
               PROVE  t[i] < t[j]
    OBVIOUS
  <2>1. i + 1 < j + 1
    BY <1>1
  <2> QED
    BY <1>2, <2>1 DEF Carries
<1>5. \A n \in (lo + 1) .. hi : \E i \in 1 .. Len(t) : t[i] = n
  <2> TAKE n \in (lo + 1) .. hi
  <2>1. PICK i \in 1 .. Len(s) : s[i] = n
    BY DEF Carries
  <2>2. i # 1
    BY <1>1, <2>1
  <2>3. i - 1 \in 1 .. Len(t) /\ (i - 1) + 1 = i
    BY <1>1, <2>2
  <2> QED
    BY <1>2, <2>1, <2>3
<1> QED
  BY <1>3, <1>4, <1>5 DEF Carries, t

\* The Blob at the head of a run is its first, and the rest is the rest of the run.
LEMMA CarriesTailBlob ==
    ASSUME NEW s \in Seq(Int), NEW lo \in Nat, NEW hi \in Int,
           Carries(s, lo, hi), s # <<>>, Head(s) > 0
    PROVE  Head(s) = lo + 1 /\ lo + 1 <= hi /\ Carries(Tail(s), lo + 1, hi)
<1> DEFINE t == Tail(s)
<1>1. /\ Len(s) \in Nat /\ Len(t) = Len(s) - 1 /\ Len(s) >= 1 /\ Head(s) = s[1]
      /\ Head(s) \in Int /\ t \in Seq(Int)
      /\ \A i \in 1 .. Len(t) : t[i] = s[i + 1]
  BY TailElements
<1> HIDE DEF t
<1>2. \A i \in 1 .. Len(t) : t[i] = s[i + 1] /\ i + 1 \in 1 .. Len(s)
  BY <1>1
<1>3. lo < s[1] /\ s[1] <= hi /\ 1 \in 1 .. Len(s)
  BY <1>1 DEF Carries
<1>4. s[1] = lo + 1
  <2>1. lo + 1 \in (lo + 1) .. hi
    BY <1>1, <1>3
  <2>2. PICK i \in 1 .. Len(s) : s[i] = lo + 1
    BY <2>1 DEF Carries
  <2>3. i # 1 => s[1] < s[i]
    BY <1>1, <1>3, <2>2 DEF Carries
  <2> QED
    BY <1>1, <1>3, <2>2, <2>3
<1>5. \A i \in 1 .. Len(t) : t[i] \in Int /\ (t[i] > 0 => lo + 1 < t[i] /\ t[i] <= hi)
  <2> TAKE i \in 1 .. Len(t)
  <2>1. t[i] \in Int /\ 1 < i + 1
    BY <1>1
  <2>2. t[i] > 0 => s[1] < t[i] /\ t[i] <= hi
    BY <1>1, <1>2, <1>3, <2>1 DEF Carries
  <2> QED
    BY <1>4, <2>1, <2>2
<1>6. \A i, j \in 1 .. Len(t) : i < j /\ t[i] > 0 /\ t[j] > 0 => t[i] < t[j]
  <2> SUFFICES ASSUME NEW i \in 1 .. Len(t), NEW j \in 1 .. Len(t), i < j,
                      t[i] > 0, t[j] > 0
               PROVE  t[i] < t[j]
    OBVIOUS
  <2>1. i + 1 < j + 1
    BY <1>1
  <2> QED
    BY <1>2, <2>1 DEF Carries
<1>7. \A n \in ((lo + 1) + 1) .. hi : \E i \in 1 .. Len(t) : t[i] = n
  <2> TAKE n \in ((lo + 1) + 1) .. hi
  <2>1. PICK i \in 1 .. Len(s) : s[i] = n
    BY DEF Carries
  <2>2. i # 1
    BY <1>4, <2>1
  <2>3. i - 1 \in 1 .. Len(t) /\ (i - 1) + 1 = i
    BY <1>1, <2>2
  <2> QED
    BY <1>2, <2>1, <2>3
<1>8. lo + 1 <= hi
  BY <1>3, <1>4
<1> QED
  BY <1>1, <1>4, <1>5, <1>6, <1>7, <1>8 DEF Carries, t

-----------------------------------------------------------------------------
(* The invariant.                                                          *)

\* Initially nothing is in flight.
LEMMA SessionInit == ASSUME Init PROVE SessionInv
<1>1. TypeOK
  <2>1. /\ 0 \in 0 .. MaxBlobs /\ 0 \in 0 .. MaxFrames
        /\ 0 <= QueueCap /\ 0 <= ChanCap /\ 0 <= NetCap
    BY SessionAssumption
  <2>2. /\ queue = <<>> /\ deliverCh = <<>> /\ net = <<>> /\ got = <<>> /\ inbound = <<>>
        /\ Len(queue) = 0 /\ Len(deliverCh) = 0 /\ Len(net) = 0
    BY DEF Init
  <2>3. /\ queue \in Seq(OutFrames) /\ deliverCh \in Seq(1 .. MaxBlobs)
        /\ net \in Seq(OutFrames) /\ got \in Seq(1 .. MaxBlobs)
        /\ inbound \in Seq(ClientFrames)
    BY <2>2
  <2>4. /\ blob = 0 /\ made = 0 /\ sentFrames = 0 /\ deleted = 0
        /\ out \in OutFrames \cup {None} /\ frame \in ClientFrames \cup {"none"}
    BY DEF Init, None
  <2>5. /\ reader = "handshake" /\ watcher = "wait" /\ writer = "off"
        /\ deliverer = "off" /\ router = "off" /\ conn = "open"
        /\ ctxDone = FALSE /\ stop = FALSE /\ chClosed = FALSE /\ eof = FALSE
    BY DEF Init
  <2> QED
    BY <2>1, <2>2, <2>3, <2>4, <2>5 DEF TypeOK
<1>0. HandsKept
  BY DEF Init, HandsKept, None
<1>2. \A i \in 1 .. Len(got) : got[i] = i
  BY DEF Init
<1>3. Chain(0, 0)
  BY DEF Init, Chain, Carries, Ahead, None
<1>4. 0 \in 0 .. MaxBlobs
  BY SessionAssumption
<1> QED
  BY <1>0, <1>1, <1>2, <1>3, <1>4 DEF SessionInv

\* The goroutines' hands and the count of client frames, step by step.
LEMMA HandsStep == ASSUME SessionInv, [Next]_vars PROVE HandsKept'
<1> USE DEF SessionInv, TypeOK, HandsKept, threads, client, delivery
<1>1. CASE HandshakeOk \/ HandshakeFails \/ Register \/ RegisterFails
  <2>1. UNCHANGED <<out, blob, deleted, inbound, sentFrames>>
    BY <1>1 DEF HandshakeOk, HandshakeFails, Register, RegisterFails
  <2>2. reader \in {"handshake", "register"} /\ reader' # "handle"
    BY <1>1 DEF HandshakeOk, HandshakeFails, Register, RegisterFails
  <2>3. \/ UNCHANGED <<writer, deliverer>>
        \/ writer' = "select" /\ deliverer' = "range" /\ reader' = "read"
    BY <1>1 DEF HandshakeOk, HandshakeFails, Register, RegisterFails
  <2>4. Len(inbound) \in Nat
    OBVIOUS
  <2> QED
    BY <2>1, <2>2, <2>3, <2>4
<1>2. CASE ReadFrame
  <2>1. Len(inbound') = Len(inbound) - 1 /\ Len(inbound) \in Nat
    BY <1>2 DEF ReadFrame
  <2> QED
    BY <1>2, <2>1 DEF ReadFrame
<1>3. CASE ReadFails \/ IdleTimeout \/ DecryptFails \/ ParsePanics
  BY <1>3 DEF ReadFails, IdleTimeout, DecryptFails, ParsePanics
<1>4. CASE HandleFrame
  <2>1. deleted' \in {deleted, deleted + 1} /\ Len(inbound) \in Nat
    BY <1>4 DEF HandleFrame
  <2> QED
    BY <1>4, <2>1 DEF HandleFrame
<1>5. CASE ReaderStops \/ ReaderCancels \/ ReaderCloses \/ Shutdown \/ Watch
  BY <1>5 DEF ReaderStops, ReaderCancels, ReaderCloses, Shutdown, Watch
<1>6. CASE WriterTakes
  <2>1. Head(queue) \in OutFrames
    BY <1>6 DEF WriterTakes
  <2>2. None \notin OutFrames
    BY SessionAssumption DEF OutFrames, None, Echo, ErrorFrame
  <2> QED
    BY <1>6, <2>1, <2>2 DEF WriterTakes
<1>7. CASE WriterWrites \/ WriterExits \/ WriterDone
  BY <1>7 DEF WriterWrites, WriterExits, WriterDone
<1>8. CASE DeliverTakes
  <2>1. Head(deliverCh) \in 1 .. MaxBlobs
    <3>1. deliverCh \in Seq(1 .. MaxBlobs) /\ deliverCh # <<>>
      BY <1>8 DEF DeliverTakes
    <3> HIDE DEF SessionInv, TypeOK, HandsKept
    <3> QED
      BY <3>1, TailElements
  <2>2. None \notin 1 .. MaxBlobs
    BY SessionAssumption DEF None
  <2> QED
    BY <1>8, <2>1, <2>2 DEF DeliverTakes
<1>9. CASE DeliverSends \/ DeliverEnds \/ RouterSends \/ RouterEnds
  BY <1>9 DEF DeliverSends, DeliverEnds, RouterSends, RouterEnds
<1>10. CASE ClientReads \/ ClientLeaves
  BY <1>10 DEF ClientReads, ClientLeaves
<1>11. CASE ClientSends
  <2>1. Len(inbound') = Len(inbound) + 1 /\ Len(inbound) \in Nat
    BY <1>11 DEF ClientSends
  <2> QED
    BY <1>11, <2>1 DEF ClientSends
<1>12. CASE UNCHANGED vars
  BY <1>12 DEF vars
<1> QED
  BY <1>1, <1>2, <1>3, <1>4, <1>5, <1>6, <1>7, <1>8, <1>9, <1>10, <1>11, <1>12
  DEF Next, Reader, Writer, Deliverer, Router

\* State keeps its type and every channel its capacity.
LEMMA SessionTypeStep == ASSUME SessionInv, [Next]_vars PROVE TypeOK'
<1> USE DEF SessionInv, TypeOK, threads, client, delivery
<1>1. CASE HandshakeOk \/ HandshakeFails \/ Register \/ RegisterFails
  BY <1>1 DEF HandshakeOk, HandshakeFails, Register, RegisterFails
<1>2. CASE ReadFrame
  BY <1>2 DEF ReadFrame
<1>3. CASE ReadFails \/ IdleTimeout \/ DecryptFails \/ ParsePanics
  BY <1>3 DEF ReadFails, IdleTimeout, DecryptFails, ParsePanics
<1>4. CASE HandleFrame
  <2>1. deleted' \in 0 .. MaxFrames
    <3>1. deleted' \in {deleted, deleted + 1} /\ Len(inbound) \in Nat /\ reader = "handle"
      BY <1>4 DEF HandleFrame
    <3> QED
      BY SessionAssumption, <3>1 DEF HandsKept
  <2>2. Echo \in OutFrames /\ ErrorFrame \in OutFrames
    BY DEF OutFrames
  <2>3. queue' \in Seq(OutFrames) /\ Len(queue') <= QueueCap
    <3>1. \/ queue' = queue
          \/ \E f \in OutFrames : queue' = Append(queue, f) /\ Len(queue) < QueueCap
      BY <1>4, <2>2 DEF HandleFrame, TrySend
    <3>2. \A f \in OutFrames : /\ Append(queue, f) \in Seq(OutFrames)
                              /\ Len(Append(queue, f)) = Len(queue) + 1
      BY AppendElements
    <3>3. Len(queue) \in Nat /\ QueueCap \in Nat
      BY SessionAssumption
    <3>4. queue \in Seq(OutFrames) /\ Len(queue) <= QueueCap
      OBVIOUS
    <3> HIDE DEF SessionInv, TypeOK
    <3>5. ASSUME NEW f \in OutFrames, queue' = Append(queue, f), Len(queue) < QueueCap
          PROVE  queue' \in Seq(OutFrames) /\ Len(queue') <= QueueCap
      BY <3>2, <3>3, <3>5
    <3> QED
      BY <3>1, <3>4, <3>5
  <2> QED
    BY <1>4, <2>1, <2>3 DEF HandleFrame
<1>5. CASE ReaderStops \/ ReaderCancels \/ ReaderCloses \/ Shutdown \/ Watch
  <2>1. CASE ReaderStops \/ ReaderCancels
    BY <2>1 DEF ReaderStops, ReaderCancels
  <2>2. CASE ReaderCloses
    BY <2>2 DEF ReaderCloses
  <2>3. CASE Shutdown
    BY <2>3 DEF Shutdown
  <2>4. CASE Watch
    BY <2>4 DEF Watch
  <2> QED
    BY <1>5, <2>1, <2>2, <2>3, <2>4
<1>6. CASE WriterTakes
  <2>1. queue' \in Seq(OutFrames) /\ Len(queue') <= QueueCap /\ out' \in OutFrames
    BY SessionAssumption, <1>6 DEF WriterTakes
  <2> QED
    BY <1>6, <2>1 DEF WriterTakes
<1>7. CASE WriterWrites
  <2>1. out \in OutFrames
    BY <1>7 DEF WriterWrites, HandsKept
  <2>2. net' \in Seq(OutFrames) /\ Len(net') <= NetCap
    BY SessionAssumption, <1>7, <2>1 DEF WriterWrites
  <2> QED
    BY <1>7, <2>2 DEF WriterWrites
<1>8. CASE WriterExits \/ WriterDone
  BY <1>8 DEF WriterExits, WriterDone
<1>9. CASE DeliverTakes
  <2>1. /\ deliverCh' \in Seq(1 .. MaxBlobs) /\ Len(deliverCh') <= ChanCap
        /\ blob' \in 0 .. MaxBlobs
    BY SessionAssumption, <1>9 DEF DeliverTakes
  <2> QED
    BY <1>9, <2>1 DEF DeliverTakes
<1>10. CASE DeliverSends
  <2>1. blob \in OutFrames
    BY SessionAssumption, <1>10 DEF DeliverSends, HandsKept, OutFrames, None
  <2>2. queue' \in Seq(OutFrames) /\ Len(queue') <= QueueCap
    BY SessionAssumption, <1>10, <2>1 DEF DeliverSends
  <2>3. blob' \in 0 .. MaxBlobs
    BY SessionAssumption, <1>10 DEF DeliverSends, None
  <2> QED
    BY <1>10, <2>2, <2>3 DEF DeliverSends
<1>11. CASE DeliverEnds
  <2>1. blob' \in 0 .. MaxBlobs
    BY SessionAssumption, <1>11 DEF DeliverEnds, None
  <2> QED
    BY <1>11, <2>1 DEF DeliverEnds
<1>12. CASE RouterSends
  <2>1. made' \in 1 .. MaxBlobs /\ deliverCh' = Append(deliverCh, made')
    BY SessionAssumption, <1>12 DEF RouterSends
  <2>2. deliverCh' \in Seq(1 .. MaxBlobs) /\ Len(deliverCh') <= ChanCap
    BY SessionAssumption, <1>12, <2>1 DEF RouterSends
  <2>3. made' \in 0 .. MaxBlobs
    BY SessionAssumption, <2>1
  <2> QED
    BY <1>12, <2>2, <2>3 DEF RouterSends
<1>13. CASE RouterEnds
  BY <1>13 DEF RouterEnds
<1>14. CASE ClientReads
  <2>1. net' \in Seq(OutFrames) /\ Len(net') <= NetCap /\ Head(net) \in OutFrames
    BY SessionAssumption, <1>14 DEF ClientReads
  <2>2. Head(net) > 0 => Head(net) \in 1 .. MaxBlobs
    BY SessionAssumption, <2>1 DEF OutFrames, Echo, ErrorFrame
  <2>3. got' \in Seq(1 .. MaxBlobs)
    <3>1. got' = got \/ \E x \in 1 .. MaxBlobs : got' = Append(got, x)
      BY <1>14, <2>2 DEF ClientReads
    <3>2. got \in Seq(1 .. MaxBlobs)
      OBVIOUS
    <3> HIDE DEF SessionInv, TypeOK
    <3>3. \A x \in 1 .. MaxBlobs : Append(got, x) \in Seq(1 .. MaxBlobs)
      BY <3>2, AppendElements
    <3> QED
      BY <3>1, <3>2, <3>3
  <2> QED
    BY <1>14, <2>1, <2>3 DEF ClientReads
<1>15. CASE ClientSends
  <2>1. inbound' \in Seq(ClientFrames)
    BY <1>15 DEF ClientSends
  <2>2. sentFrames' \in 0 .. MaxFrames
    BY SessionAssumption, <1>15 DEF ClientSends
  <2> QED
    BY <1>15, <2>1, <2>2 DEF ClientSends
<1>16. CASE ClientLeaves
  BY <1>16 DEF ClientLeaves
<1>17. CASE UNCHANGED vars
  BY <1>17 DEF vars
<1> QED
  BY <1>1, <1>2, <1>3, <1>4, <1>5, <1>6, <1>7, <1>8, <1>9, <1>10, <1>11, <1>12,
     <1>13, <1>14, <1>15, <1>16, <1>17 DEF Next, Reader, Writer, Deliverer, Router

\* What the chain's links are made of.
LEMMA ChainTypes ==
    ASSUME SessionInv
    PROVE  /\ MaxBlobs \in Nat /\ net \in Seq(Int) /\ queue \in Seq(Int)
           /\ deliverCh \in Seq(Int) /\ got \in Seq(Int) /\ Len(got) \in Nat
           /\ out \in Int /\ blob \in Int /\ made \in Nat
           /\ \A i \in 1 .. Len(deliverCh) : deliverCh[i] > 0
<1>1. OutFrames \subseteq Int /\ 1 .. MaxBlobs \subseteq Int /\ MaxBlobs \in Nat
  BY SessionAssumption DEF OutFrames, Echo, ErrorFrame
<1>2. net \in Seq(Int) /\ queue \in Seq(Int)
  <2>1. net \in Seq(OutFrames) /\ queue \in Seq(OutFrames)
    BY DEF SessionInv, TypeOK
  <2> QED
    BY <1>1, <2>1, SeqOfLarger
<1>3. deliverCh \in Seq(Int) /\ got \in Seq(Int) /\ Len(got) \in Nat
  BY <1>1 DEF SessionInv, TypeOK
<1>4. out \in Int /\ blob \in Int /\ made \in Nat
  <2>1. out \in OutFrames \cup {None} /\ blob \in 0 .. MaxBlobs /\ made \in 0 .. MaxBlobs
    BY DEF SessionInv, TypeOK
  <2> QED
    BY <1>1, <2>1 DEF None
<1>5. \A i \in 1 .. Len(deliverCh) : deliverCh[i] > 0
  <2>1. deliverCh \in Seq(1 .. MaxBlobs)
    BY DEF SessionInv, TypeOK
  <2>2. \A x \in 1 .. MaxBlobs : x > 0
    BY <1>1
  <2>3. \A T : \A s \in Seq(T) : \A i \in 1 .. Len(s) : s[i] \in T
    OBVIOUS
  <2> QED
    BY <2>1, <2>2, <2>3
<1> QED
  BY <1>1, <1>2, <1>3, <1>4, <1>5

\* Every goroutine hands on what comes next in the chain.
LEMMA ChainStep ==
    ASSUME SessionInv, [Next]_vars
    PROVE  /\ (\A i \in 1 .. Len(got) : got[i] = i)'
           /\ (\E b, d \in 0 .. MaxBlobs : Chain(b, d))'
<1>a. PICK b \in 0 .. MaxBlobs, d \in 0 .. MaxBlobs : Chain(b, d)
  BY DEF SessionInv
<1>b. /\ MaxBlobs \in Nat /\ net \in Seq(Int) /\ queue \in Seq(Int)
      /\ deliverCh \in Seq(Int) /\ got \in Seq(Int) /\ Len(got) \in Nat
      /\ out \in Int /\ blob \in Int /\ made \in Nat /\ made <= MaxBlobs
      /\ b \in Nat /\ d \in Nat
  BY ChainTypes DEF SessionInv, TypeOK
<1>c. \A i \in 1 .. Len(got) : got[i] = i
  BY DEF SessionInv
<1>d. HandsKept
  BY DEF SessionInv
<1>e. Carries(net, Len(got), b)
  BY <1>a DEF Chain
<1> DEFINE Live == writer \in {"off", "select", "write"}
           links == <<net, got, writer, out, queue, deliverer, blob, deliverCh, made>>
<1>f. Live => (out > 0 => out = b + 1) /\ Carries(queue, b + Ahead(out), d)
  BY <1>a DEF Chain
<1>g. Live /\ deliverer # "done" =>
        (blob > 0 => blob = d + 1) /\ Carries(deliverCh, d + Ahead(blob), made)
  BY <1>a DEF Chain
<1>1. CASE UNCHANGED links
  BY <1>1, <1>a, <1>c DEF Chain
<1>2. CASE Register
  <2>1. /\ UNCHANGED <<net, got, out, queue, blob, deliverCh, made>>
        /\ writer' = "select" /\ deliverer' = "range" /\ reader = "register"
    BY <1>2 DEF Register, client, delivery
  <2>2. writer = "off" /\ deliverer = "off"
    BY <2>1, <1>d DEF HandsKept
  <2>3. Chain(b, d)'
    BY <2>1, <2>2, <1>a DEF Chain
  <2> QED
    BY <2>1, <2>3, <1>c
<1>3. CASE HandleFrame
  <2>1. /\ UNCHANGED <<net, got, writer, out, deliverer, blob, deliverCh, made>>
        /\ \/ queue' = queue
           \/ \E f \in {Echo, ErrorFrame} : queue' = Append(queue, f)
    BY <1>3 DEF HandleFrame, TrySend, client, delivery
  <2>2. Live => Carries(queue', b + Ahead(out), d)
    <3>1. ASSUME Live, NEW f \in {Echo, ErrorFrame}
          PROVE  Carries(Append(queue, f), b + Ahead(out), d)
      <4>1. b + Ahead(out) \in Int /\ f \in Int /\ ~(f > 0) /\ d \in Int
        BY <1>b DEF Ahead, Echo, ErrorFrame
      <4> QED
        BY <3>1, <4>1, <1>b, <1>f, CarriesAppendOther
    <3> QED
      BY <2>1, <3>1, <1>f
  <2>3. Chain(b, d)'
    BY <2>1, <2>2, <1>a DEF Chain
  <2> QED
    BY <2>1, <2>3, <1>c
<1>4. CASE WriterTakes
  <2>1. /\ UNCHANGED <<net, got, deliverer, blob, deliverCh, made>>
        /\ writer = "select" /\ writer' = "write" /\ queue # <<>>
        /\ out' = Head(queue) /\ queue' = Tail(queue)
    BY <1>4 DEF WriterTakes, client, delivery
  <2>2. Ahead(out) = 0 /\ Carries(queue, b, d) /\ Head(queue) \in Int
    <3>1. out = 0
      BY <2>1, <1>d DEF HandsKept, None
    <3>2. Ahead(out) = 0
      BY <3>1 DEF Ahead
    <3>3. b + Ahead(out) = b
      BY <3>2, <1>b
    <3> QED
      BY <2>1, <3>2, <3>3, <1>b, <1>f, TailElements
  <2>3. (out' > 0 => out' = b + 1) /\ Carries(queue', b + Ahead(out'), d)
    <3>1. CASE Head(queue) > 0
      <4>1. Ahead(out') = 1
        BY <2>1, <3>1 DEF Ahead
      <4> QED
        BY <2>1, <2>2, <3>1, <4>1, <1>b, CarriesTailBlob
    <3>2. CASE ~(Head(queue) > 0)
      <4>1. Ahead(out') = 0 /\ b + 0 = b
        BY <2>1, <3>2, <1>b DEF Ahead
      <4> QED
        BY <2>1, <2>2, <3>2, <4>1, <1>b, CarriesTailOther
    <3> QED
      BY <3>1, <3>2
  <2>4. Chain(b, d)'
    BY <2>1, <2>3, <1>e, <1>g DEF Chain
  <2> QED
    BY <2>1, <2>4, <1>c
<1>5. CASE WriterWrites
  <2>1. /\ UNCHANGED <<got, queue, deliverer, blob, deliverCh, made>>
        /\ writer = "write" /\ writer' = "select"
        /\ net' = Append(net, out) /\ out' = None
    BY <1>5 DEF WriterWrites, client, delivery
  <2>2. Ahead(out') = 0 /\ ~(out' > 0)
    BY <2>1 DEF Ahead, None
  <2>3. b + Ahead(out) \in 0 .. MaxBlobs /\ (b + Ahead(out)) + 0 = b + Ahead(out)
    <3>1. Ahead(out) \in {0, 1} /\ b + Ahead(out) <= d
      BY <2>1, <1>f DEF Ahead, Carries
    <3> QED
      BY <3>1, <1>b
  <2>4. Carries(net', Len(got'), b + Ahead(out))
    <3>1. CASE out > 0
      <4>1. Ahead(out) = 1 /\ out = b + 1
        BY <2>1, <3>1, <1>f DEF Ahead
      <4> QED
        BY <2>1, <4>1, <1>b, <1>e, CarriesAppendBlob
    <3>2. CASE ~(out > 0)
      <4>1. Ahead(out) = 0 /\ b + 0 = b
        BY <3>2, <1>b DEF Ahead
      <4> QED
        BY <2>1, <3>2, <4>1, <1>b, <1>e, CarriesAppendOther
    <3> QED
      BY <3>1, <3>2
  <2>5. Carries(queue', (b + Ahead(out)) + Ahead(out'), d)
    BY <2>1, <2>2, <2>3, <1>f
  <2>6. PICK c \in 0 .. MaxBlobs : c = b + Ahead(out)
    BY <2>3
  <2>7. Chain(c, d)'
    BY <2>1, <2>2, <2>4, <2>5, <2>6, <1>g DEF Chain
  <2> QED
    BY <2>1, <2>7, <1>c
<1>6. CASE WriterExits \/ WriterDone \/ ParsePanics
  <2>1. /\ UNCHANGED <<net, got>> /\ writer' \notin {"off", "select", "write"}
    BY <1>6 DEF WriterExits, WriterDone, ParsePanics, client
  <2>2. Chain(b, d)'
    BY <2>1, <1>e DEF Chain
  <2> QED
    BY <2>1, <2>2, <1>c
<1>7. CASE DeliverTakes
  <2>1. /\ UNCHANGED <<net, got, writer, out, queue, made>>
        /\ deliverer = "range" /\ deliverer' = "send" /\ deliverCh # <<>>
        /\ blob' = Head(deliverCh) /\ deliverCh' = Tail(deliverCh)
    BY <1>7 DEF DeliverTakes, client
  <2>2. Ahead(blob) = 0 /\ d + 0 = d /\ Head(deliverCh) \in Int
    <3>1. blob = 0
      BY <2>1, <1>d DEF HandsKept, None
    <3> QED
      BY <2>1, <3>1, <1>b, TailElements DEF Ahead
  <2>3. Head(deliverCh) > 0 /\ Ahead(blob') = 1
    <3>1. 1 \in 1 .. Len(deliverCh) /\ Head(deliverCh) = deliverCh[1]
      BY <2>1, <1>b, TailElements
    <3>2. Head(deliverCh) > 0
      BY <3>1, ChainTypes
    <3> QED
      BY <2>1, <3>2 DEF Ahead
  <2>4. Live => /\ blob' > 0 => blob' = d + 1
                /\ Carries(deliverCh', d + Ahead(blob'), made)
    BY <2>1, <2>2, <2>3, <1>b, <1>g, CarriesTailBlob
  <2>5. Chain(b, d)'
    BY <2>1, <2>4, <1>e, <1>f DEF Chain
  <2> QED
    BY <2>1, <2>5, <1>c
<1>8. CASE DeliverSends
  <2>1. /\ UNCHANGED <<net, got, writer, out, deliverCh, made>>
        /\ deliverer = "send" /\ deliverer' = "range"
        /\ queue' = Append(queue, blob) /\ blob' = None
    BY <1>8 DEF DeliverSends, client
  <2>2. blob > 0 /\ Ahead(blob) = 1 /\ Ahead(blob') = 0 /\ ~(blob' > 0)
    <3>1. blob # 0 /\ blob \in Nat
      BY <2>1, <1>d DEF HandsKept, SessionInv, TypeOK, None
    <3> QED
      BY <2>1, <3>1 DEF Ahead, None
  <2>3. CASE Live
    <3>1. blob = d + 1 /\ Carries(deliverCh, d + 1, made)
      BY <2>1, <2>2, <2>3, <1>g
    <3>2. d + 1 \in 0 .. MaxBlobs /\ (d + 1) + 0 = d + 1
      BY <3>1, <1>b DEF Carries
    <3>3. b + Ahead(out) \in Int
      BY <1>b DEF Ahead
    <3>4. Carries(queue', b + Ahead(out), d + 1)
      BY <2>1, <2>3, <3>1, <3>3, <1>b, <1>f, CarriesAppendBlob
    <3>5. PICK e \in 0 .. MaxBlobs : e = d + 1
      BY <3>2
    <3>6. Carries(deliverCh', e + Ahead(blob'), made')
      BY <2>1, <2>2, <3>1, <3>2, <3>5
    <3>7. Chain(b, e)'
      BY <2>1, <2>2, <2>3, <3>4, <3>5, <3>6, <1>e, <1>f DEF Chain
    <3> QED
      BY <2>1, <3>7, <1>c
  <2>4. CASE ~Live
    <3>1. Chain(b, d)'
      BY <2>1, <2>4, <1>e DEF Chain
    <3> QED
      BY <2>1, <3>1, <1>c
  <2> QED
    BY <2>3, <2>4
<1>9. CASE DeliverEnds
  <2>1. /\ UNCHANGED <<net, got, writer, out, queue, deliverCh, made>>
        /\ deliverer' = "done"
    BY <1>9 DEF DeliverEnds, client
  <2>2. Chain(b, d)'
    BY <2>1, <1>e, <1>f DEF Chain
  <2> QED
    BY <2>1, <2>2, <1>c
<1>10. CASE RouterSends
  <2>1. /\ UNCHANGED <<net, got, writer, out, queue, deliverer, blob>>
        /\ made' = made + 1 /\ deliverCh' = Append(deliverCh, made + 1)
    BY <1>10 DEF RouterSends, client, threads
  <2>2. d + Ahead(blob) \in Int /\ made + 1 \in Int /\ made \in Int
    BY <1>b DEF Ahead
  <2>3. Live /\ deliverer # "done" => Carries(deliverCh', d + Ahead(blob), made')
    BY <2>1, <2>2, <1>b, <1>g, CarriesAppendBlob
  <2>4. Chain(b, d)'
    BY <2>1, <2>3, <1>e, <1>f, <1>g DEF Chain
  <2> QED
    BY <2>1, <2>4, <1>c
<1>11. CASE ClientReads
  <2>1. /\ UNCHANGED <<writer, out, queue, deliverer, blob, deliverCh, made>>
        /\ net # <<>> /\ net' = Tail(net)
        /\ got' = IF Head(net) > 0 THEN Append(got, Head(net)) ELSE got
    BY <1>11 DEF ClientReads, threads, delivery
  <2>2. CASE Head(net) > 0
    <3>1. Head(net) = Len(got) + 1 /\ Carries(Tail(net), Len(got) + 1, b)
      BY <2>1, <2>2, <1>b, <1>e, CarriesTailBlob
    <3>2. /\ Len(got') = Len(got) + 1 /\ got'[Len(got) + 1] = Len(got) + 1
          /\ \A i \in 1 .. Len(got) : got'[i] = got[i]
      <4>1. got' = Append(got, Len(got) + 1) /\ Len(got) + 1 \in Int
        BY <2>1, <2>2, <3>1, <1>b
      <4> QED
        BY <4>1, <1>b, AppendElements
    <3>3. \A i \in 1 .. Len(got') : got'[i] = i
      <4> TAKE i \in 1 .. Len(got')
      <4>1. i = Len(got) + 1 \/ i \in 1 .. Len(got)
        BY <3>2, <1>b
      <4> QED
        BY <3>2, <4>1, <1>c
    <3>4. Carries(net', Len(got'), b)
      BY <2>1, <3>1, <3>2
    <3>5. Chain(b, d)'
      BY <2>1, <3>4, <1>f, <1>g DEF Chain
    <3> QED
      BY <3>3, <3>5
  <2>3. CASE ~(Head(net) > 0)
    <3>1. Carries(net', Len(got'), b)
      BY <2>1, <2>3, <1>b, <1>e, CarriesTailOther
    <3>2. Chain(b, d)'
      BY <2>1, <3>1, <1>f, <1>g DEF Chain
    <3> QED
      BY <2>1, <2>3, <3>2, <1>c
  <2> QED
    BY <2>2, <2>3
<1>12. CASE HandshakeOk \/ HandshakeFails \/ RegisterFails \/ ReadFrame \/ ReadFails
            \/ IdleTimeout \/ DecryptFails \/ ReaderStops \/ ReaderCancels
  BY <1>1, <1>12 DEF HandshakeOk, HandshakeFails, RegisterFails, ReadFrame, ReadFails,
     IdleTimeout, DecryptFails, ReaderStops, ReaderCancels, client, delivery
<1>13. CASE ReaderCloses \/ Shutdown \/ Watch \/ RouterEnds \/ ClientSends
            \/ ClientLeaves \/ UNCHANGED vars
  BY <1>1, <1>13 DEF ReaderCloses, Shutdown, Watch, RouterEnds, ClientSends,
     ClientLeaves, vars, threads, client, delivery
<1> QED
  BY <1>2, <1>3, <1>4, <1>5, <1>6, <1>7, <1>8, <1>9, <1>10, <1>11, <1>12, <1>13
  DEF Next, Reader, Writer, Deliverer, Router

\* What the client of a Receive Session was written is Blobs 1, 2, 3, ... in order,
\* none missing, for every capacity and every schedule.
THEOREM ReceiveInOrder == Spec => []BlobsInOrder
<1>1. Init => SessionInv
  BY SessionInit
<1>2. SessionInv /\ [Next]_vars => SessionInv'
  BY HandsStep, SessionTypeStep, ChainStep DEF SessionInv
<1>3. SessionInv => BlobsInOrder
  BY DEF SessionInv, BlobsInOrder, Chain
<1> QED
  BY <1>1, <1>2, <1>3, PTL DEF Spec
==============================================================================
