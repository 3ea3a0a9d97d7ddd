-------------------------- MODULE ReceiveSession ---------------------------
(***************************************************************************)
(* One Receive Session of internal/session/receive.go and writer.go, and   *)
(* the goroutines it starts: the read loop (acceptReceiveSession itself),  *)
(* the connection watcher, the sessionWriter, the deliver goroutine, and   *)
(* the Router's delivery goroutine that feeds deliverCh (Relay models its  *)
(* inside; here it produces Blobs 1, 2, 3, ...). The client may stop       *)
(* reading, stop sending or go away at any moment.                         *)
(***************************************************************************)
EXTENDS Integers, Sequences, SequencesExt

CONSTANTS
    QueueCap,   \* writerQueueCapacity (16)
    ChanCap,    \* capacity of deliverCh (256)
    NetCap,     \* frames the network holds for a client that does not read
    MaxBlobs, MaxFrames   \* bounds: Blobs delivered, frames the client sends

ASSUME SessionAssumption ==
    /\ QueueCap \in Nat \ {0} /\ ChanCap \in Nat \ {0} /\ NetCap \in Nat \ {0}
    /\ MaxBlobs \in Nat /\ MaxFrames \in Nat

VARIABLES
    reader,     \* acceptReceiveSession
    frame,      \* the client frame it is handling
    watcher, writer, deliverer, router,   \* the other goroutines
    conn,       \* "open" or "closed" (by this side)
    ctxDone, stop,
    queue, out,          \* sessionWriter.queue, the frame being written
    deliverCh, chClosed, blob,   \* the channel, and the Blob in writer.send
    made,       \* Blobs the Router produced
    net,        \* frames written and not yet read by the client
    got,        \* Blobs the client read, in order
    inbound, sentFrames,   \* frames the client sent
    eof,        \* the client closed its side
    deleted     \* DeliverAcks handled

vars == <<reader, frame, watcher, writer, deliverer, router, conn, ctxDone, stop,
          queue, out, deliverCh, chClosed, blob, made, net, got, inbound,
          sentFrames, eof, deleted>>
threads == <<reader, watcher, writer, deliverer, router>>
client == <<net, got, inbound, sentFrames, eof>>
delivery == <<deliverCh, chClosed, blob, made>>

\* other is malformed or out of place; garbled does not decrypt.
ClientFrames == {"Heartbeat", "DeliverAck", "other", "garbled"}
\* Frames to the client: a Deliver frame is its Blob's number.
None == 0
Echo == -1
ErrorFrame == -2
OutFrames == {Echo, ErrorFrame} \cup (1 .. MaxBlobs)

TypeOK ==
    /\ reader \in {"handshake", "register", "read", "handle", "stop", "cancel",
                   "close", "done"}
    /\ frame \in ClientFrames \cup {"none"}
    /\ watcher \in {"wait", "done"}
    /\ writer \in {"off", "select", "write", "exit", "done"}
    /\ deliverer \in {"off", "range", "send", "done"}
    /\ router \in {"off", "loop", "done"}
    /\ conn \in {"open", "closed"}
    /\ ctxDone \in BOOLEAN /\ stop \in BOOLEAN /\ chClosed \in BOOLEAN
    /\ out \in OutFrames \cup {None}
    /\ queue \in Seq(OutFrames) /\ Len(queue) <= QueueCap
    /\ deliverCh \in Seq(1 .. MaxBlobs) /\ Len(deliverCh) <= ChanCap
    /\ blob \in 0 .. MaxBlobs /\ made \in 0 .. MaxBlobs
    /\ net \in Seq(OutFrames) /\ Len(net) <= NetCap
    /\ got \in Seq(1 .. MaxBlobs)
    /\ inbound \in Seq(ClientFrames) /\ sentFrames \in 0 .. MaxFrames
    /\ eof \in BOOLEAN /\ deleted \in 0 .. MaxFrames

Init ==
    /\ reader = "handshake" /\ frame = "none"
    /\ watcher = "wait" /\ writer = "off" /\ deliverer = "off" /\ router = "off"
    /\ conn = "open" /\ ctxDone = FALSE /\ stop = FALSE
    /\ queue = <<>> /\ out = None
    /\ deliverCh = <<>> /\ chClosed = FALSE /\ blob = None /\ made = 0
    /\ net = <<>> /\ got = <<>> /\ inbound = <<>> /\ sentFrames = 0 /\ eof = FALSE
    /\ deleted = 0

-----------------------------------------------------------------------------
(* The read loop.                                                          *)

\* Version prefix and the three XX flights, under one absolute deadline.
HandshakeOk ==
    /\ reader = "handshake" /\ conn = "open" /\ ~eof
    /\ reader' = "register"
    /\ UNCHANGED <<frame, watcher, writer, deliverer, router, conn, ctxDone, stop,
                   queue, out, delivery, client, deleted>>

\* Version refused, bad flight, deadline, closed connection: stop does not
\* exist yet, so the defers left are cancel and conn.Close.
HandshakeFails ==
    /\ reader = "handshake"
    /\ reader' = "cancel"
    /\ UNCHANGED <<frame, watcher, writer, deliverer, router, conn, ctxDone, stop,
                   queue, out, delivery, client, deleted>>

\* OnReceiveConnect starts the Router's goroutine; writer and deliver goroutine
\* follow.
Register ==
    /\ reader = "register"
    /\ reader' = "read" /\ writer' = "select" /\ deliverer' = "range"
    /\ router' = "loop"
    /\ UNCHANGED <<frame, watcher, conn, ctxDone, stop, queue, out, delivery,
                   client, deleted>>

\* Session cap reached or Subscribe failed.
RegisterFails ==
    /\ reader = "register"
    /\ reader' = "stop"
    /\ UNCHANGED <<frame, watcher, writer, deliverer, router, conn, ctxDone, stop,
                   queue, out, delivery, client, deleted>>

ReadFrame ==
    /\ reader = "read" /\ conn = "open" /\ inbound # <<>>
    /\ frame' = Head(inbound) /\ inbound' = Tail(inbound)
    /\ reader' = "handle"
    /\ UNCHANGED <<watcher, writer, deliverer, router, conn, ctxDone, stop,
                   queue, out, delivery, net, got, sentFrames, eof, deleted>>

\* EOF, or a connection closed under the loop.
ReadFails ==
    /\ reader = "read" /\ (conn = "closed" \/ (eof /\ inbound = <<>>))
    /\ reader' = "stop"
    /\ UNCHANGED <<frame, watcher, writer, deliverer, router, conn, ctxDone, stop,
                   queue, out, delivery, client, deleted>>

\* The idle deadline passed with no frame.
IdleTimeout ==
    /\ reader = "read" /\ inbound = <<>>
    /\ reader' = "stop"
    /\ UNCHANGED <<frame, watcher, writer, deliverer, router, conn, ctxDone, stop,
                   queue, out, delivery, client, deleted>>

\* trySend drops the frame when the queue is full. Mutant: it waits.
Bug_TrySend(f) == Len(queue) < QueueCap /\ queue' = Append(queue, f)
TrySend(f) == queue' = IF Len(queue) < QueueCap THEN Append(queue, f) ELSE queue

\* Heartbeat: echo. DeliverAck: OnDeliverAck, whose error is only logged.
\* Anything else, malformed frames included: an Error frame.
HandleFrame ==
    /\ reader = "handle"
    /\ \/ frame = "Heartbeat" /\ TrySend(Echo) /\ UNCHANGED deleted
       \/ frame = "DeliverAck" /\ deleted' = deleted + 1 /\ UNCHANGED queue
       \/ frame = "other" /\ TrySend(ErrorFrame) /\ UNCHANGED deleted
    /\ frame' = "none" /\ reader' = "read"
    /\ UNCHANGED <<watcher, writer, deliverer, router, conn, ctxDone, stop, out,
                   delivery, client>>

\* A frame that does not decrypt ends the session.
DecryptFails ==
    /\ reader = "handle" /\ frame = "garbled"
    /\ frame' = "none" /\ reader' = "stop"
    /\ UNCHANGED <<watcher, writer, deliverer, router, conn, ctxDone, stop, queue,
                   out, delivery, client, deleted>>

\* A malformed frame may be one Parse does not refuse (Wraps in module Frame): it
\* panics, nothing recovers, the deferred close(stop), cancel and Close run and
\* the process ends, every goroutine with it.
ParsePanics ==
    /\ reader = "handle" /\ frame = "other"
    /\ frame' = "none"
    /\ reader' = "done" /\ watcher' = "done" /\ writer' = "done"
    /\ deliverer' = "done" /\ router' = "done"
    /\ stop' = TRUE /\ ctxDone' = TRUE /\ conn' = "closed"
    /\ UNCHANGED <<queue, out, delivery, client, deleted>>

\* The defers, last in first out: close(stop), cancel, conn.Close.
ReaderStops ==
    /\ reader = "stop" /\ stop' = TRUE /\ reader' = "cancel"
    /\ UNCHANGED <<frame, watcher, writer, deliverer, router, conn, ctxDone,
                   queue, out, delivery, client, deleted>>

ReaderCancels ==
    /\ reader = "cancel" /\ ctxDone' = TRUE /\ reader' = "close"
    /\ UNCHANGED <<frame, watcher, writer, deliverer, router, conn, stop,
                   queue, out, delivery, client, deleted>>

ReaderCloses ==
    /\ reader = "close" /\ conn' = "closed" /\ reader' = "done"
    /\ UNCHANGED <<frame, watcher, writer, deliverer, router, ctxDone, stop,
                   queue, out, delivery, client, deleted>>

\* The parent context: a server that shuts down cancels every session.
Shutdown ==
    /\ ~ctxDone
    /\ ctxDone' = TRUE
    /\ UNCHANGED <<threads, frame, conn, stop, queue, out, delivery, client, deleted>>

\* Closes the connection when the context ends, to unblock a pending read.
\* Mutant: only the session's own end wakes it.
Bug_Watch ==
    /\ watcher = "wait" /\ ctxDone /\ reader = "done"
    /\ watcher' = "done" /\ conn' = "closed"
    /\ UNCHANGED <<reader, frame, writer, deliverer, router, ctxDone, stop, queue,
                   out, delivery, client, deleted>>
Watch ==
    /\ watcher = "wait" /\ ctxDone
    /\ watcher' = "done" /\ conn' = "closed"
    /\ UNCHANGED <<reader, frame, writer, deliverer, router, ctxDone, stop, queue,
                   out, delivery, client, deleted>>

-----------------------------------------------------------------------------
(* sessionWriter.run.                                                      *)

WriterTakes ==
    /\ writer = "select" /\ queue # <<>>
    /\ out' = Head(queue) /\ queue' = Tail(queue) /\ writer' = "write"
    /\ UNCHANGED <<reader, frame, watcher, deliverer, router, conn, ctxDone, stop,
                   delivery, client, deleted>>

WriterWrites ==
    /\ writer = "write" /\ conn = "open" /\ Len(net) < NetCap
    /\ net' = Append(net, out) /\ out' = None /\ writer' = "select"
    /\ UNCHANGED <<reader, frame, watcher, deliverer, router, conn, ctxDone, stop,
                   queue, delivery, got, inbound, sentFrames, eof, deleted>>

\* stop is closed, or the write failed: closed connection, client gone, or the
\* write deadline passed while the client was not reading.
WriterExits ==
    /\ \/ writer = "select" /\ stop
       \/ writer = "write" /\ (conn = "closed" \/ eof \/ Len(net) = NetCap)
    /\ writer' = "exit" /\ out' = None
    /\ UNCHANGED <<reader, frame, watcher, deliverer, router, conn, ctxDone, stop,
                   queue, delivery, client, deleted>>

\* Its defers: the connection is closed on any exit.
WriterDone ==
    /\ writer = "exit" /\ writer' = "done" /\ conn' = "closed"
    /\ UNCHANGED <<reader, frame, watcher, deliverer, router, ctxDone, stop,
                   queue, out, delivery, client, deleted>>

-----------------------------------------------------------------------------
(* The deliver goroutine and the Router's goroutine.                       *)

DeliverTakes ==
    /\ deliverer = "range" /\ deliverCh # <<>>
    /\ blob' = Head(deliverCh) /\ deliverCh' = Tail(deliverCh)
    /\ deliverer' = "send"
    /\ UNCHANGED <<reader, frame, watcher, writer, router, conn, ctxDone, stop,
                   queue, out, chClosed, made, client, deleted>>

\* writer.send waits for room. Mutant: it drops like trySend.
Bug_DeliverSends ==
    /\ deliverer = "send"
    /\ TrySend(blob) /\ blob' = None /\ deliverer' = "range"
    /\ UNCHANGED <<reader, frame, watcher, writer, router, conn, ctxDone, stop,
                   out, deliverCh, chClosed, made, client, deleted>>
DeliverSends ==
    /\ deliverer = "send" /\ Len(queue) < QueueCap
    /\ queue' = Append(queue, blob) /\ blob' = None /\ deliverer' = "range"
    /\ UNCHANGED <<reader, frame, watcher, writer, router, conn, ctxDone, stop,
                   out, deliverCh, chClosed, made, client, deleted>>

DeliverEnds ==
    /\ \/ deliverer = "send" /\ stop
       \/ deliverer = "range" /\ deliverCh = <<>> /\ chClosed
    /\ deliverer' = "done" /\ blob' = None
    /\ UNCHANGED <<reader, frame, watcher, writer, router, conn, ctxDone, stop,
                   queue, out, deliverCh, chClosed, made, client, deleted>>

RouterSends ==
    /\ router = "loop" /\ made < MaxBlobs /\ Len(deliverCh) < ChanCap
    /\ made' = made + 1 /\ deliverCh' = Append(deliverCh, made + 1)
    /\ UNCHANGED <<threads, frame, conn, ctxDone, stop, queue, out, chClosed, blob,
                   client, deleted>>

RouterEnds ==
    /\ router = "loop" /\ ctxDone
    /\ router' = "done" /\ chClosed' = TRUE
    /\ UNCHANGED <<reader, frame, watcher, writer, deliverer, conn, ctxDone, stop,
                   queue, out, deliverCh, blob, made, client, deleted>>

-----------------------------------------------------------------------------
(* The client.                                                             *)

ClientReads ==
    /\ net # <<>> /\ ~eof
    /\ net' = Tail(net)
    /\ got' = IF Head(net) > 0 THEN Append(got, Head(net)) ELSE got
    /\ UNCHANGED <<threads, frame, conn, ctxDone, stop, queue, out, delivery, inbound,
                   sentFrames, eof, deleted>>

ClientSends ==
    /\ reader \in {"read", "handle"} /\ ~eof /\ sentFrames < MaxFrames
    /\ \E f \in ClientFrames : inbound' = Append(inbound, f)
    /\ sentFrames' = sentFrames + 1
    /\ UNCHANGED <<threads, frame, conn, ctxDone, stop, queue, out, delivery, net,
                   got, eof, deleted>>

ClientLeaves ==
    /\ ~eof /\ eof' = TRUE
    /\ UNCHANGED <<threads, frame, conn, ctxDone, stop, queue, out, delivery, net,
                   got, inbound, sentFrames, deleted>>

Reader == \/ HandshakeOk \/ HandshakeFails \/ Register \/ RegisterFails
          \/ ReadFrame \/ ReadFails \/ HandleFrame \/ DecryptFails
          \/ ParsePanics \/ ReaderStops \/ ReaderCancels \/ ReaderCloses
Writer == WriterTakes \/ WriterWrites \/ WriterExits \/ WriterDone
Deliverer == DeliverTakes \/ DeliverSends \/ DeliverEnds
Router == RouterSends \/ RouterEnds

Next == \/ Reader \/ IdleTimeout \/ Watch \/ Writer \/ Deliverer \/ Router \/ Shutdown
        \/ ClientReads \/ ClientSends \/ ClientLeaves

Spec == Init /\ [][Next]_vars

\* Goroutines that can run do; the handshake deadline ends a handshake that
\* does not, and the write deadline a write that cannot proceed. Nothing is
\* assumed of the client, of a shutdown or of the idle deadline.
Fairness == /\ WF_vars(Reader) /\ WF_vars(Watch) /\ WF_vars(Writer)
            /\ WF_vars(DeliverTakes \/ DeliverSends) /\ WF_vars(DeliverEnds)
            /\ WF_vars(RouterEnds)
FairSpec == Spec /\ Fairness

-----------------------------------------------------------------------------
(* Properties.                                                             *)

\* The Deliver frames among s are Blobs lo + 1 to hi, each once, in order.
Carries(s, lo, hi) ==
    /\ lo <= hi
    /\ \A i \in 1 .. Len(s) : s[i] > 0 => lo < s[i] /\ s[i] <= hi
    /\ \A i, j \in 1 .. Len(s) : i < j /\ s[i] > 0 /\ s[j] > 0 => s[i] < s[j]
    /\ \A n \in (lo + 1) .. hi : \E i \in 1 .. Len(s) : s[i] = n

\* Deliver frames are never dropped, doubled or reordered on a session: what
\* the client was written is Blobs 1, 2, 3, ... whatever echoes and Error
\* frames the queue refuses under load.
BlobsInOrder ==
    /\ TypeOK
    /\ \A i \in 1 .. Len(got) : got[i] = i
    /\ \E last \in 0 .. MaxBlobs : Carries(net, Len(got), last)

\* "No goroutine outlives the session" (the watcher's comment).
AllDone == /\ reader = "done" /\ watcher = "done"
           /\ writer \in {"off", "done"} /\ deliverer \in {"off", "done"}
           /\ router \in {"off", "done"}

\* A shutdown, the end of the client or a closed connection ends every
\* goroutine of the session, even in the handshake, in a blocked write, with
\* the queue and deliverCh full.
TearsDown == (ctxDone \/ stop \/ eof \/ conn = "closed") ~> AllDone

\* A client that never reads cannot pin the session: once a write is stuck the
\* whole session ends, unless the client reads after all. The read loop is not
\* held up by the full queue meanwhile (trySend never waits), so it is there to
\* end the session and to serve DeliverAcks (ADR-0009).
StalledClientFreed ==
    (writer = "write" /\ Len(net) = NetCap) ~> (AllDone \/ Len(net) < NetCap)

-----------------------------------------------------------------------------
(* The inductive invariant behind BlobsInOrder.                            *)

\* What the goroutines hold between two steps, and that no client frame is
\* handled twice.
HandsKept ==
    /\ reader \in {"handshake", "register"} => writer = "off" /\ deliverer = "off"
    /\ writer \in {"off", "select"} => out = None
    /\ writer = "write" => out # None
    /\ deliverer = "send" => blob # None
    /\ deliverer \in {"off", "range"} => blob = None
    /\ deleted + Len(inbound) + (IF reader = "handle" THEN 1 ELSE 0) <= sentFrames

\* The network, the writer's hand, its queue, the deliver goroutine's hand and
\* deliverCh are links of one chain: each starts at the Blob after the last one of
\* the link before. A link whose goroutine ended passes nothing on.
Ahead(f) == IF f > 0 THEN 1 ELSE 0
Chain(b, d) ==
    /\ Carries(net, Len(got), b)
    /\ writer \in {"off", "select", "write"} =>
        /\ out > 0 => out = b + 1
        /\ Carries(queue, b + Ahead(out), d)
        /\ deliverer # "done" => /\ blob > 0 => blob = d + 1
                                 /\ Carries(deliverCh, d + Ahead(blob), made)

SessionInv ==
    /\ TypeOK /\ HandsKept
    /\ \A i \in 1 .. Len(got) : got[i] = i
    /\ \E b, d \in 0 .. MaxBlobs : Chain(b, d)
=============================================================================
