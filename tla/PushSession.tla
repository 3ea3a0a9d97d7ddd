---------------------------- MODULE PushSession -----------------------------
(***************************************************************************)
(* One Push Session of internal/session/push.go: the loop that reads a     *)
(* frame, calls OnPush and answers, and the watcher that closes the        *)
(* connection when the context ends. A client may pipeline frames: it      *)
(* knows which frame an answer belongs to only by counting. OnPush itself  *)
(* is the Router's (module Relay); here it stores or fails. What a frame   *)
(* is made of is in module Frame, and whom an Envelope is for in           *)
(* EnvelopeRecipient.                                                      *)
(***************************************************************************)
EXTENDS Integers, Sequences, Frame, EnvelopeRecipient

CONSTANTS NetCap,     \* answers the network holds for a client that reads none
          MaxFrames   \* bound: frames the client sends

Bounds == NetCap \in Nat \ {0} /\ MaxFrames \in Nat
ASSUME PushAssumption == Bounds

VARIABLES
    reader,    \* acceptPushSession
    watcher, ctxDone,
    conn,      \* reset: the client is gone and a write has failed
    expired,   \* the session deadline passed: reads and writes fail from now on
    inbound,   \* frames sent by the client and not yet read
    handled,   \* frames read so far; the last one is being handled
    answer,    \* what the loop is about to send
    replies,   \* answers written: frame number and content
    unread,    \* how many of them the client has not read
    stored,    \* frames whose Blob was committed
    cut,       \* frames whose OnPush failed because the context ended
    sentFrames, eof

vars == <<reader, watcher, conn, ctxDone, expired, inbound, handled, answer,
          replies, unread, stored, cut, sentFrames, eof>>
wire == <<replies, unread>>
client == <<inbound, sentFrames, eof>>
outcome == <<stored, cut>>

\* garbled does not decrypt; junk is malformed, or no Push; wraps is one of the
\* malformed frames Parse does not refuse (Wraps in module Frame).
Frames == {"push", "junk", "garbled", "wraps"}
Answers == {"ack", "refused", "none"}

TypeOK ==
    /\ reader \in {"handshake", "read", "frame", "onpush", "failed", "reply",
                   "cancel", "close", "done"}
    /\ watcher \in {"wait", "done"} /\ conn \in {"open", "reset", "closed"}
    /\ ctxDone \in BOOLEAN /\ expired \in BOOLEAN /\ eof \in BOOLEAN
    /\ inbound \in Seq(Frames) /\ sentFrames \in 0 .. MaxFrames
    /\ handled \in 0 .. sentFrames
    /\ answer \in Answers
    /\ replies \in Seq([frame : 1 .. MaxFrames, what : Answers])
    /\ unread \in 0 .. NetCap
    /\ stored \subseteq 1 .. MaxFrames /\ cut \subseteq 1 .. MaxFrames

Init ==
    /\ reader = "handshake" /\ watcher = "wait" /\ conn = "open"
    /\ ctxDone = FALSE /\ expired = FALSE
    /\ inbound = <<>> /\ sentFrames = 0 /\ handled = 0 /\ eof = FALSE
    /\ answer = "none" /\ replies = <<>> /\ unread = 0
    /\ stored = {} /\ cut = {}

Goes(from, to) == reader = from /\ reader' = to
Broken == conn = "closed" \/ expired

-----------------------------------------------------------------------------
(* The session loop.                                                       *)

HandshakeOk ==
    /\ Goes("handshake", "read") /\ ~Broken /\ ~eof
    /\ UNCHANGED <<watcher, conn, ctxDone, expired, handled, answer, wire,
                   outcome, client>>

HandshakeFails ==
    /\ Goes("handshake", "cancel")
    /\ UNCHANGED <<watcher, conn, ctxDone, expired, handled, answer, wire,
                   outcome, client>>

ReadFrame ==
    /\ Goes("read", "frame") /\ ~Broken /\ inbound # <<>>
    /\ handled' = handled + 1
    /\ UNCHANGED <<watcher, conn, ctxDone, expired, answer, wire, outcome, client>>

\* EOF, reset or closed connection, deadline.
ReadFails ==
    /\ Goes("read", "cancel") /\ (Broken \/ conn = "reset" \/ (eof /\ inbound = <<>>))
    /\ UNCHANGED <<watcher, conn, ctxDone, expired, handled, answer, wire,
                   outcome, client>>

\* Decrypt ends the session on a garbled frame; a frame that is no Push is
\* answered with an Error; a Push goes to OnPush.
ParseFrame ==
    /\ reader = "frame"
    /\ \/ Head(inbound) = "garbled" /\ Goes("frame", "cancel") /\ UNCHANGED answer
       \/ Head(inbound) = "junk" /\ Goes("frame", "reply") /\ answer' = "refused"
       \/ Head(inbound) = "push" /\ Goes("frame", "onpush") /\ UNCHANGED answer
    /\ inbound' = Tail(inbound)
    /\ UNCHANGED <<watcher, conn, ctxDone, expired, handled, wire, outcome,
                   sentFrames, eof>>

\* Parse panics and nothing recovers: the deferred cancel and Close run and the
\* process ends, the watcher with it.
ParsePanics ==
    /\ Goes("frame", "done") /\ Head(inbound) = "wraps"
    /\ inbound' = Tail(inbound)
    /\ ctxDone' = TRUE /\ conn' = "closed" /\ watcher' = "done"
    /\ UNCHANGED <<expired, handled, answer, wire, outcome, sentFrames, eof>>

OnPushStores ==
    /\ Goes("onpush", "reply") /\ answer' = "ack"
    /\ stored' = stored \cup {handled}
    /\ UNCHANGED <<watcher, conn, ctxDone, expired, handled, wire, cut, client>>

\* A refusal of the Router or a store error; a context that ended makes the
\* store calls fail.
OnPushFails ==
    /\ Goes("onpush", "failed")
    /\ \/ UNCHANGED cut
       \/ ctxDone /\ cut' = cut \cup {handled}
    /\ UNCHANGED <<watcher, conn, ctxDone, expired, handled, answer, wire,
                   stored, client>>

\* A cut push gets no answer. Mutant: the context is not looked at.
Bug_Failed ==
    /\ Goes("failed", "reply") /\ answer' = "refused"
    /\ UNCHANGED <<watcher, conn, ctxDone, expired, handled, wire, outcome, client>>
Failed ==
    /\ \/ ctxDone /\ Goes("failed", "cancel") /\ UNCHANGED answer
       \/ ~ctxDone /\ Goes("failed", "reply") /\ answer' = "refused"
    /\ UNCHANGED <<watcher, conn, ctxDone, expired, handled, wire, outcome, client>>

ReplyWritten ==
    /\ Goes("reply", "read") /\ ~Broken /\ conn = "open" /\ unread < NetCap
    /\ replies' = Append(replies, [frame |-> handled, what |-> answer])
    /\ unread' = unread + 1 /\ answer' = "none"
    /\ UNCHANGED <<watcher, conn, ctxDone, expired, handled, outcome, client>>

\* A failed Ack ends the session, a failed Error frame is ignored. Once the
\* client is gone and a write failed, all fail. Mutant: a write gives up on a
\* slow client while the session goes on.
AfterReply ==
    /\ \/ answer = "ack" /\ Goes("reply", "cancel")
       \/ answer = "refused" /\ Goes("reply", "read")
    /\ answer' = "none"
    /\ UNCHANGED <<watcher, ctxDone, expired, handled, wire, outcome, client>>
Bug_ReplyFails == (Broken \/ eof \/ unread = NetCap) /\ AfterReply /\ UNCHANGED conn
ReplyFails ==
    /\ Broken \/ eof
    /\ conn' = IF conn = "open" /\ eof THEN "reset" ELSE conn
    /\ AfterReply

\* The defers: cancel, then conn.Close.
ReaderCancels ==
    /\ Goes("cancel", "close") /\ ctxDone' = TRUE
    /\ UNCHANGED <<watcher, conn, expired, handled, answer, wire, outcome, client>>

ReaderCloses ==
    /\ Goes("close", "done") /\ conn' = "closed"
    /\ UNCHANGED <<watcher, ctxDone, expired, handled, answer, wire, outcome, client>>

\* Mutant: it waits for the session instead of the context.
Bug_Watch ==
    /\ watcher = "wait" /\ reader = "done"
    /\ watcher' = "done" /\ conn' = "closed"
    /\ UNCHANGED <<reader, ctxDone, expired, handled, answer, wire, outcome, client>>
Watch ==
    /\ watcher = "wait" /\ ctxDone
    /\ watcher' = "done" /\ conn' = "closed"
    /\ UNCHANGED <<reader, ctxDone, expired, handled, answer, wire, outcome, client>>

-----------------------------------------------------------------------------
(* Shutdown, the deadline and the client.                                  *)

Shutdown ==
    /\ ~ctxDone /\ ctxDone' = TRUE
    /\ UNCHANGED <<reader, watcher, conn, expired, handled, answer, wire, outcome, client>>

Expire ==
    /\ ~expired /\ expired' = TRUE
    /\ UNCHANGED <<reader, watcher, conn, ctxDone, handled, answer, wire, outcome, client>>

ClientSends ==
    /\ reader # "handshake" /\ ~eof /\ sentFrames < MaxFrames
    /\ \E f \in Frames : inbound' = Append(inbound, f)
    /\ sentFrames' = sentFrames + 1
    /\ UNCHANGED <<reader, watcher, conn, ctxDone, expired, handled, answer, wire,
                   outcome, eof>>

ClientReads ==
    /\ unread > 0 /\ ~eof /\ unread' = unread - 1
    /\ UNCHANGED <<reader, watcher, conn, ctxDone, expired, handled, answer, replies,
                   outcome, client>>

ClientLeaves ==
    /\ ~eof /\ eof' = TRUE
    /\ UNCHANGED <<reader, watcher, conn, ctxDone, expired, handled, answer, wire,
                   outcome, inbound, sentFrames>>

Reader ==
    \/ HandshakeOk \/ HandshakeFails \/ ReadFrame \/ ReadFails \/ ParseFrame
    \/ ParsePanics \/ OnPushStores \/ OnPushFails \/ Failed \/ ReplyWritten \/ ReplyFails
    \/ ReaderCancels \/ ReaderCloses
Next == Reader \/ Watch \/ Shutdown \/ Expire \/ ClientSends \/ ClientReads \/ ClientLeaves

Spec == Init /\ [][Next]_vars

\* Goroutines that can run do, and OnPush returns. Nothing is assumed of the
\* client or of the session deadline (0 disables it).
Fairness == WF_vars(Reader) /\ WF_vars(Watch)
FairSpec == Spec /\ Fairness

-----------------------------------------------------------------------------
(* Properties.                                                             *)

\* The i-th answer is for the i-th frame and is an Ack exactly when that frame's
\* Blob was committed, although a failed Error frame does not end the loop: a
\* pipelining client that counts answers never takes a Blob for stored that is
\* not. The deadline is one for reads and writes, so a lost answer is the last.
AnswersAlign ==
    /\ TypeOK
    /\ \A i \in 1 .. Len(replies) :
        replies[i].frame = i /\ (replies[i].what = "ack" <=> i \in stored)

\* "Shutdown cut the push off: send NO refusal": a push that failed because the
\* context ended is never answered, so the sender retries (RELAY-16).
CutStaysSilent == \A i \in 1 .. Len(replies) : replies[i].frame \notin cut

\* A frame the session handled is the one the client framed: Parse accepts exactly
\* what Frame writes, and the bodies that carry an id decode to what was encoded
\* (frame.go). The lengths that wrap are left to MalformedRefused.
FramesRoundTrip == handled > 0 => ParsesExactly

\* "ok is false if raw is malformed" (frame.go:79), so that a session answers a
\* malformed frame with an Error frame and lives on (push.go:133-137). The code
\* does not keep it: uint32(len(raw)) < 5+l is false for the five highest l.
MalformedRefused == handled > 0 => RefusesMalformed

\* A stored Envelope is in the inbox of the recipient a protobuf decoder reads from
\* it, and what no decoder reads is refused (envelope_recipient.go).
RecipientExact == stored # {} => WalkExact

\* "cancellation closes the connection, which unblocks any pending read": a
\* shutdown frees a session wherever it is, in a read, in the handshake, in a
\* write to a client that does not read, without waiting for the deadline.
ShutdownFrees == ctxDone ~> (reader = "done" /\ watcher = "done")

-----------------------------------------------------------------------------
(* The inductive invariant behind the two invariants above.                *)

\* The last frame read is still being handled.
InFrame == {"frame", "onpush", "failed", "reply"}

\* No frame is lost or read twice: what was read and what waits is what was sent.
FramesCounted ==
    /\ reader = "frame" => inbound # <<>>
    /\ handled + Len(inbound) = sentFrames + (IF reader = "frame" THEN 1 ELSE 0)

\* Answers keep pace with frames for as long as a write can still succeed; once one
\* was lost, none follows.
Writable == conn = "open" /\ ~expired
AnswersCounted ==
    /\ Len(replies) <= handled /\ (reader \in InFrame => Len(replies) < handled)
    /\ Writable => /\ reader = "read" => Len(replies) = handled
                   /\ reader \in InFrame => Len(replies) = handled - 1

\* What is known of the frame being handled: it is stored exactly if the answer is
\* an Ack, and cut only on the way out.
FrameOutcome ==
    /\ stored \subseteq 1 .. handled /\ cut \subseteq 1 .. handled
    /\ reader \in {"frame", "onpush", "failed"} => handled \notin stored
    /\ reader \in {"frame", "onpush", "reply"} => handled \notin cut
    /\ reader = "failed" /\ handled \in cut => ctxDone
    /\ reader = "reply" => /\ answer \in {"ack", "refused"}
                           /\ answer = "ack" <=> handled \in stored
    /\ reader = "handshake" => handled = 0

\* Frames, answers and outcomes together.
PushInv ==
    /\ AnswersAlign /\ CutStaysSilent
    /\ FramesCounted /\ AnswersCounted /\ FrameOutcome
=============================================================================
