------------------------------- MODULE Relay -------------------------------
(***************************************************************************)
(* The store-and-forward core of one relay Node: the Router of             *)
(* internal/relay/router.go over the SQLite Inbox of internal/store/sqlite *)
(* and a Notifier, with the per-device cap of internal/relay/limits.go.    *)
(*                                                                         *)
(* Push handlers, the delivery goroutine of every Receive Session, the     *)
(* Notifier's unsubscribe goroutines, the devices and the Reaper           *)
(* interleave freely; a crash loses everything but the database.           *)
(*                                                                         *)
(* Kept out, and modelled elsewhere: the token bucket (RateLimiter; here a *)
(* Push may be refused by it at any time), the inside of Notify            *)
(* (InProcessNotifier; here it may lose signals when LossyNotify is TRUE), *)
(* frames and connections (ReceiveSession).                                *)
(***************************************************************************)
EXTENDS Integers, Sequences, FiniteSets, FiniteSetsExt

CONSTANTS
    Devices,      \* Device keys: each owns one Inbox
    Honest,       \* the devices that ack only Blobs they were sent
    Sessions,     \* Receive Session slots (reused after a session ends)
    Pushers,      \* Push Session slots
    Msgs,         \* what can be pushed
    Prefix,       \* the 32-byte routing prefix of a Push body, NoKey if short
    Envelope,     \* the envelope's own recipient_pub, NoKey if malformed
    NoKey, NoMsg, \* no device, no message
    Size,         \* the envelope's length
    MaxEnvelope,  \* router.maxEnvelopeBytes
    MaxBlobs,     \* InboxLimits.MaxBlobs, 0 disables
    MaxBytes,     \* InboxLimits.MaxBytes, 0 disables
    MaxSessions,  \* MaxReceiveSessionsPerDevice, 0 disables
    ChanCap,      \* capacity of deliverCh (256 in the code)
    TTL,          \* lifetime of a Blob
    LossyNotify,  \* TRUE: Notify may miss subscribers
    StoreFaults,  \* TRUE: PeekAfter may fail under a live session
    MaxId, MaxTime, MaxCrashes   \* bounds of the model: rows, clock, crashes

ASSUME RelayAssumption ==
    /\ Honest \subseteq Devices
    /\ NoKey \notin Devices /\ NoMsg \notin Msgs
    /\ Prefix \in [Msgs -> Devices \cup {NoKey}]
    /\ Envelope \in [Msgs -> Devices \cup {NoKey}]
    /\ Size \in [Msgs -> Nat]
    /\ MaxEnvelope \in Nat /\ MaxBlobs \in Nat /\ MaxBytes \in Nat
    /\ MaxSessions \in Nat /\ ChanCap \in Nat \ {0} /\ TTL \in Nat
    /\ LossyNotify \in BOOLEAN /\ StoreFaults \in BOOLEAN
    /\ MaxId \in Nat /\ MaxTime \in Nat /\ MaxCrashes \in Nat

ASSUME FiniteSlots == IsFiniteSet(Sessions)

VARIABLES
    \* the database: survives a crash
    inbox,        \* rows of table inbox
    seq,          \* the AUTOINCREMENT counter: the largest id ever given
    now,          \* wall clock
    \* Push handlers
    ppc, pmsg,
    \* the delivery goroutine of each Receive Session
    pc, dev, cancelled, lastID, batch, deliverCh,
    active,       \* sessionCap.active
    subs, signal, \* the Notifier: registered sessions, their pending signal
    crashes,
    \* history: rows ever committed, messages acked to their pusher, rows that
    \* reached the device, ids put on deliverCh by the current session
    stored, acked, received, sent

store   == <<inbox, seq>>
push    == <<ppc, pmsg>>
session == <<pc, dev, cancelled, lastID, batch, deliverCh>>
notifier == <<subs, signal>>
history == <<stored, acked, received, sent>>
vars == <<store, now, push, session, active, notifier, crashes, history>>

Row == [id : Nat, rcpt : Devices, msg : Msgs, exp : Nat]

\* Stages of OnPush and of a Receive Session (OnReceiveConnect, then its
\* delivery goroutine).
PushStage == {"idle", "check", "put", "notify", "ack"}
SessionStage == {"none", "acquire", "subscribe", "peek", "send", "wait",
                 "release", "close"}
\* The delivery goroutine is in its loop.
Delivering == {"peek", "send", "wait"}
\* The session owns a slot of the per-device cap.
Holding == {"subscribe", "peek", "send", "wait", "release"}

Inbox(d) == {r \in inbox : r.rcpt = d}
\* SUM(LENGTH(envelope)): a row of n bytes counts as n pairs of the row and one byte.
Octets(rows) == UNION {{r} \X (1 .. Size[r.msg]) : r \in rows}
Bytes(d) == Cardinality(Octets(Inbox(d)))

StoreType ==
    /\ inbox \subseteq Row /\ stored \subseteq Row
    /\ seq \in Nat /\ now \in Nat /\ crashes \in Nat
PushType ==
    /\ ppc \in [Pushers -> PushStage]
    /\ pmsg \in [Pushers -> Msgs \cup {NoMsg}]
    /\ \A p \in Pushers : ppc[p] # "idle" => pmsg[p] \in Msgs
    /\ \A p \in Pushers : ppc[p] \in {"put", "notify", "ack"} =>
                               Prefix[pmsg[p]] \in Devices
    /\ acked \subseteq Msgs
SessionType ==
    /\ pc \in [Sessions -> SessionStage]
    /\ dev \in [Sessions -> Devices \cup {NoKey}]
    /\ \A s \in Sessions : pc[s] # "none" => dev[s] \in Devices
    /\ cancelled \in [Sessions -> BOOLEAN]
    /\ lastID \in [Sessions -> Nat]
    /\ batch \in [Sessions -> SUBSET Row]
    /\ sent \in [Sessions -> SUBSET Nat]
ChannelType ==
    /\ deliverCh \in [Sessions -> Seq(Row)]
    /\ \A s \in Sessions : pc[s] = "none" => deliverCh[s] = <<>>
    /\ received \in [Devices -> SUBSET Row]
CapType ==
    /\ active \in [Devices -> Nat]
    /\ subs \subseteq Sessions /\ signal \in [Sessions -> BOOLEAN]
TypeOK == StoreType /\ PushType /\ SessionType /\ ChannelType /\ CapType

Init ==
    /\ inbox = {} /\ seq = 0 /\ now = 0
    /\ ppc = [p \in Pushers |-> "idle"] /\ pmsg = [p \in Pushers |-> NoMsg]
    /\ pc = [s \in Sessions |-> "none"] /\ dev = [s \in Sessions |-> NoKey]
    /\ cancelled = [s \in Sessions |-> FALSE]
    /\ lastID = [s \in Sessions |-> 0]
    /\ batch = [s \in Sessions |-> {}]
    /\ deliverCh = [s \in Sessions |-> <<>>]
    /\ active = [d \in Devices |-> 0]
    /\ subs = {} /\ signal = [s \in Sessions |-> FALSE]
    /\ crashes = 0
    /\ stored = {} /\ acked = {}
    /\ received = [d \in Devices |-> {}]
    /\ sent = [s \in Sessions |-> {}]

-----------------------------------------------------------------------------
(* The Push path: Router.OnPush, called by a Push Session; the session     *)
(* layer sends the Ack frame when OnPush returns nil, an Error otherwise.  *)

\* The content checks of OnPush, in its order: short body, too large,
\* recipient_pub unreadable, prefix and envelope disagree. Mutant: only the
\* size and the agreement of the two keys are checked.
Bug_Refused(m) == Size[m] > MaxEnvelope \/ Envelope[m] # Prefix[m]
Refused(m) ==
    \/ Prefix[m] = NoKey
    \/ Size[m] > MaxEnvelope
    \/ Envelope[m] = NoKey
    \/ Envelope[m] # Prefix[m]

\* The quota probe of PutWithLimits. Mutant: the new Blob is not counted.
Bug_Fits(m) ==
    /\ MaxBlobs > 0 => Cardinality(Inbox(Prefix[m])) <= MaxBlobs
    /\ MaxBytes > 0 => Bytes(Prefix[m]) <= MaxBytes
Fits(m) ==
    /\ MaxBlobs > 0 => Cardinality(Inbox(Prefix[m])) < MaxBlobs
    /\ MaxBytes > 0 => Bytes(Prefix[m]) + Size[m] <= MaxBytes

\* INTEGER PRIMARY KEY AUTOINCREMENT: an id is never given twice. Without
\* AUTOINCREMENT SQLite gives one more than the largest id in the table.
Bug_NextId == IF inbox = {} THEN 1 ELSE Max({r.id : r \in inbox}) + 1
NextId == seq + 1

PushStep(p, stage) == ppc' = [ppc EXCEPT ![p] = stage]
PushDone(p) == PushStep(p, "idle") /\ pmsg' = [pmsg EXCEPT ![p] = NoMsg]

\* A Push frame arrives. Clients retry what was not acked, and push again what
\* was: nothing bounds how often a message is pushed but the bound on rows.
PushArrives(p, m) ==
    /\ ppc[p] = "idle" /\ seq < MaxId
    /\ PushStep(p, "check") /\ pmsg' = [pmsg EXCEPT ![p] = m]
    /\ UNCHANGED <<store, now, session, active, notifier, crashes, history>>

\* The content checks refuse, or the token bucket does (it may at any time).
OnPushRefuse(p) ==
    /\ ppc[p] = "check"
    /\ PushDone(p)
    /\ UNCHANGED <<store, now, session, active, notifier, crashes, history>>

OnPushPass(p) ==
    /\ ppc[p] = "check" /\ ~Refused(pmsg[p])
    /\ PushStep(p, "put")
    /\ UNCHANGED <<store, now, pmsg, session, active, notifier, crashes, history>>

\* Probe and INSERT are one transaction on the only connection.
PutWithLimits(p) ==
    LET m == pmsg[p]
        row == [id |-> NextId, rcpt |-> Prefix[m], msg |-> m, exp |-> now + TTL]
    IN  /\ ppc[p] = "put" /\ Fits(m) /\ seq < MaxId
        /\ inbox' = inbox \cup {row} /\ seq' = seq + 1
        /\ stored' = stored \cup {row}
        /\ PushStep(p, "notify")
        /\ UNCHANGED <<now, pmsg, session, active, notifier, crashes,
                       acked, received, sent>>

\* ErrInboxFull, a store error or a cancelled context: nothing is stored and
\* the pusher gets no Ack.
PutRefused(p) ==
    /\ ppc[p] = "put"
    /\ PushDone(p)
    /\ UNCHANGED <<store, now, session, active, notifier, crashes, history>>

\* The sessions a Notify for d signals. A signal already pending is enough:
\* the channel holds one. Mutant: one subscriber per key is woken.
Bug_Signalled(d) == {{s} : s \in {t \in subs : dev[t] = d}} \cup {{}}
Signalled(d) ==
    LET mine == {s \in subs : dev[s] = d}
    IN  IF LossyNotify THEN SUBSET mine ELSE {mine}

Notify(p) ==
    /\ ppc[p] = "notify"
    /\ \E S \in Signalled(Prefix[pmsg[p]]) :
           signal' = [s \in Sessions |-> signal[s] \/ s \in S]
    /\ PushStep(p, "ack")
    /\ UNCHANGED <<store, now, pmsg, session, active, subs, crashes, history>>

\* OnPush returned nil: the session layer sends Ack.
Ack(p) ==
    /\ ppc[p] = "ack"
    /\ acked' = acked \cup {pmsg[p]}
    /\ PushDone(p)
    /\ UNCHANGED <<store, now, session, active, notifier, crashes,
                   stored, received, sent>>

-----------------------------------------------------------------------------
(* Receive Sessions: Router.OnReceiveConnect and its delivery goroutine.   *)

Goto(s, stage) == pc' = [pc EXCEPT ![s] = stage]

\* A device completed the handshake; OnReceiveConnect is entered.
Connect(s, d) ==
    /\ pc[s] = "none" /\ s \notin subs
    /\ Goto(s, "acquire")
    /\ dev' = [dev EXCEPT ![s] = d]
    /\ cancelled' = [cancelled EXCEPT ![s] = FALSE]
    /\ UNCHANGED <<store, now, push, lastID, batch, deliverCh, active, notifier,
                   crashes, history>>

\* sessionCap.acquire and release. A cap of 0 counts nothing.
AcquireSlot(d) == active' = [active EXCEPT ![d] = IF MaxSessions = 0 THEN @ ELSE @ + 1]
ReleaseSlot(d) ==
    active' = [active EXCEPT ![d] = IF MaxSessions = 0 \/ @ = 0 THEN @ ELSE @ - 1]
CapReached(d) == MaxSessions > 0 /\ active[d] >= MaxSessions

\* The session is over: nothing of it is kept but the database.
Forget(s) ==
    /\ Goto(s, "none")
    /\ dev' = [dev EXCEPT ![s] = NoKey]
    /\ lastID' = [lastID EXCEPT ![s] = 0]
    /\ batch' = [batch EXCEPT ![s] = {}]
    /\ deliverCh' = [deliverCh EXCEPT ![s] = <<>>]
    /\ sent' = [sent EXCEPT ![s] = {}]

AcquireOk(s) ==
    /\ pc[s] = "acquire" /\ ~CapReached(dev[s])
    /\ AcquireSlot(dev[s])
    /\ Goto(s, "subscribe")
    /\ UNCHANGED <<store, now, push, dev, cancelled, lastID, batch, deliverCh,
                   notifier, crashes, history>>

\* ErrTooManyReceiveSessions: the session layer closes the connection.
AcquireRefused(s) ==
    /\ pc[s] = "acquire" /\ CapReached(dev[s])
    /\ Forget(s)
    /\ UNCHANGED <<store, now, push, cancelled, active, notifier, crashes,
                   stored, acked, received>>

\* Registered before the first peek, so that no Put falls between the two.
SubscribeOk(s) ==
    /\ pc[s] = "subscribe"
    /\ subs' = subs \cup {s}
    /\ signal' = [signal EXCEPT ![s] = FALSE]
    /\ Goto(s, "peek")
    /\ UNCHANGED <<store, now, push, dev, cancelled, lastID, batch, deliverCh,
                   active, crashes, history>>

\* Mutant: the error path forgets the slot.
Bug_SubscribeFails(s) ==
    /\ pc[s] = "subscribe"
    /\ Forget(s)
    /\ UNCHANGED <<store, now, push, cancelled, active, notifier, crashes,
                   stored, acked, received>>

\* A Notifier that cannot register (Postgres LISTEN): the slot goes back.
SubscribeFails(s) ==
    /\ pc[s] = "subscribe"
    /\ ReleaseSlot(dev[s])
    /\ Forget(s)
    /\ UNCHANGED <<store, now, push, cancelled, notifier, crashes,
                   stored, acked, received>>

\* Mutant: the cursor is not exclusive.
Bug_Beyond(s) == {r \in Inbox(dev[s]) : r.id >= lastID[s]}
Beyond(s) == {r \in Inbox(dev[s]) : r.id > lastID[s]}

\* deliverNew: PeekAfter is a snapshot of the rows beyond lastID ...
PeekAfter(s) ==
    /\ pc[s] = "peek"
    /\ batch' = [batch EXCEPT ![s] = Beyond(s)]
    /\ Goto(s, "send")
    /\ UNCHANGED <<store, now, push, dev, cancelled, lastID, deliverCh, active,
                   notifier, crashes, history>>

\* ... or an error, which deliverNew drops together with the signal.
PeekFails(s) ==
    /\ pc[s] = "peek" /\ (StoreFaults \/ cancelled[s])
    /\ Goto(s, "wait")
    /\ UNCHANGED <<store, now, push, dev, cancelled, lastID, batch, deliverCh,
                   active, notifier, crashes, history>>

\* One send of the loop: ORDER BY id makes it the least row left. It blocks
\* while deliverCh is full.
Send(s) ==
    /\ pc[s] = "send" /\ Len(deliverCh[s]) < ChanCap
    /\ \E r \in batch[s] :
        /\ \A q \in batch[s] : r.id <= q.id
        /\ batch' = [batch EXCEPT ![s] = @ \ {r}]
        /\ deliverCh' = [deliverCh EXCEPT ![s] = Append(@, r)]
        /\ lastID' = [lastID EXCEPT ![s] = r.id]
        /\ sent' = [sent EXCEPT ![s] = @ \cup {r.id}]
    /\ UNCHANGED <<store, now, push, pc, dev, cancelled, active, notifier, crashes,
                   stored, acked, received>>

\* Mutant: the loop drains subCh before it waits again.
Bug_BatchDone(s) ==
    /\ pc[s] = "send" /\ batch[s] = {}
    /\ Goto(s, "wait")
    /\ signal' = [signal EXCEPT ![s] = FALSE]
    /\ UNCHANGED <<store, now, push, dev, cancelled, lastID, batch, deliverCh,
                   active, subs, crashes, history>>
BatchDone(s) ==
    /\ pc[s] = "send" /\ batch[s] = {}
    /\ Goto(s, "wait")
    /\ UNCHANGED <<store, now, push, dev, cancelled, lastID, batch, deliverCh,
                   active, notifier, crashes, history>>

\* A signal from the Notifier wakes the loop.
Wake(s) ==
    /\ pc[s] = "wait" /\ signal[s]
    /\ signal' = [signal EXCEPT ![s] = FALSE]
    /\ Goto(s, "peek")
    /\ UNCHANGED <<store, now, push, dev, cancelled, lastID, batch, deliverCh,
                   active, subs, crashes, history>>

\* ctx.Done is taken by either select; a closed subCh by the outer one.
Exit(s) ==
    /\ \/ pc[s] \in {"send", "wait"} /\ cancelled[s]
       \/ pc[s] = "wait" /\ s \notin subs /\ ~signal[s]
    /\ Goto(s, "release")
    /\ UNCHANGED <<store, now, push, dev, cancelled, lastID, batch, deliverCh,
                   active, notifier, crashes, history>>

\* The goroutine's defer: the slot first, the channel last.
Release(s) ==
    /\ pc[s] = "release"
    /\ ReleaseSlot(dev[s])
    /\ Goto(s, "close")
    /\ UNCHANGED <<store, now, push, dev, cancelled, lastID, batch, deliverCh,
                   notifier, crashes, history>>

Close(s) ==
    /\ pc[s] = "close"
    /\ Forget(s)
    /\ UNCHANGED <<store, now, push, cancelled, active, notifier, crashes,
                   stored, acked, received>>

\* The session's context ends: the device went away, an idle or write timeout,
\* a shutdown.
Cancel(s) ==
    /\ pc[s] # "none" /\ ~cancelled[s]
    /\ cancelled' = [cancelled EXCEPT ![s] = TRUE]
    /\ UNCHANGED <<store, now, push, pc, dev, lastID, batch, deliverCh, active,
                   notifier, crashes, history>>

\* The goroutine Subscribe left waiting for ctx.Done.
Unsubscribe(s) ==
    /\ s \in subs /\ cancelled[s]
    /\ subs' = subs \ {s}
    /\ UNCHANGED <<store, now, push, session, active, signal, crashes, history>>

-----------------------------------------------------------------------------
(* The device, the Reaper, the clock and crashes.                          *)

\* The session layer takes a Blob off deliverCh and the device receives it.
Deliver(s) ==
    /\ deliverCh[s] # <<>>
    /\ received' = [received EXCEPT ![dev[s]] = @ \cup {Head(deliverCh[s])}]
    /\ deliverCh' = [deliverCh EXCEPT ![s] = Tail(@)]
    /\ UNCHANGED <<store, now, push, pc, dev, cancelled, lastID, batch, active,
                   notifier, crashes, stored, acked, sent>>

\* Mutant: DELETE without the recipient clause.
Bug_DeleteForRecipient(d, i) == inbox' = {r \in inbox : r.id # i}
DeleteForRecipient(d, i) == inbox' = {r \in inbox : ~(r.rcpt = d /\ r.id = i)}

\* An honest device acks what it received, in this or an earlier session, as
\* often as it likes; another may name any id.
AckedIds(d) == IF d \in Honest THEN {r.id : r \in received[d]} ELSE 1 .. seq

OnDeliverAck(s, i) ==
    /\ pc[s] \in Delivering /\ ~cancelled[s]
    /\ i \in AckedIds(dev[s])
    /\ DeleteForRecipient(dev[s], i)
    /\ UNCHANGED <<seq, now, push, session, active, notifier, crashes, history>>

Expired == {r \in inbox : r.exp <= now}

Reap ==
    /\ Expired # {}
    /\ inbox' = inbox \ Expired
    /\ UNCHANGED <<seq, now, push, session, active, notifier, crashes, history>>

Tick ==
    /\ now < MaxTime
    /\ now' = now + 1
    /\ UNCHANGED <<store, push, session, active, notifier, crashes, history>>

\* The process dies and starts again: WAL with synchronous FULL keeps every
\* committed row and the AUTOINCREMENT counter, memory is gone.
Crash ==
    /\ crashes < MaxCrashes
    /\ crashes' = crashes + 1
    /\ ppc' = [p \in Pushers |-> "idle"] /\ pmsg' = [p \in Pushers |-> NoMsg]
    /\ pc' = [s \in Sessions |-> "none"] /\ dev' = [s \in Sessions |-> NoKey]
    /\ cancelled' = [s \in Sessions |-> FALSE]
    /\ lastID' = [s \in Sessions |-> 0]
    /\ batch' = [s \in Sessions |-> {}]
    /\ deliverCh' = [s \in Sessions |-> <<>>]
    /\ active' = [d \in Devices |-> 0]
    /\ subs' = {} /\ signal' = [s \in Sessions |-> FALSE]
    /\ sent' = [s \in Sessions |-> {}]
    /\ UNCHANGED <<store, now, stored, acked, received>>

PushNext(p) ==
    \/ \E m \in Msgs : PushArrives(p, m)
    \/ OnPushRefuse(p) \/ OnPushPass(p) \/ PutWithLimits(p) \/ PutRefused(p)
    \/ Notify(p) \/ Ack(p)

\* Steps of the session's own goroutines.
SessionNext(s) ==
    \/ AcquireOk(s) \/ AcquireRefused(s) \/ SubscribeOk(s) \/ SubscribeFails(s)
    \/ PeekAfter(s) \/ PeekFails(s) \/ Send(s) \/ BatchDone(s) \/ Wake(s)
    \/ Exit(s) \/ Release(s) \/ Close(s) \/ Unsubscribe(s)

Next ==
    \/ \E p \in Pushers : PushNext(p)
    \/ \E s \in Sessions :
        \/ \E d \in Devices : Connect(s, d)
        \/ SessionNext(s) \/ Cancel(s) \/ Deliver(s)
        \/ \E i \in 1 .. MaxId : OnDeliverAck(s, i)
    \/ Reap \/ Tick \/ Crash

Spec == Init /\ [][Next]_vars

\* The Go scheduler runs every goroutine that can run. A device that stops
\* reading makes the write deadline of the session fire, so a Blob on deliverCh
\* is delivered or the session is cancelled.
Fairness ==
    /\ \A p \in Pushers : WF_vars(Notify(p))
    /\ \A s \in Sessions :
        /\ WF_vars(SessionNext(s))
        /\ WF_vars(Deliver(s) \/ (deliverCh[s] # <<>> /\ Cancel(s)))

FairSpec == Spec /\ Fairness

-----------------------------------------------------------------------------
(* Properties.                                                             *)

\* What was acked to its pusher was stored (OnPush acks only after Put), and a
\* Blob for an honest device leaves the Inbox only after that device received
\* it or after its TTL: no crash, no retry, no other device's ack, no late or
\* repeated ack of an old id loses it (ADR-0003, ADR-0009).
AckedKept ==
    \A m \in acked : \E r \in stored :
        /\ r.msg = m
        /\ r.rcpt \in Honest => \/ r \in inbox
                                \/ \E q \in received[r.rcpt] : q.msg = m
                                \/ r.exp <= now

\* lastID skips nothing: a row of the session's Inbox at or below lastID was
\* put on deliverCh by this very session, so PeekAfter(lastID) misses none.
CursorSkipsNothing ==
    \A s \in Sessions : pc[s] \in Delivering =>
        \A r \in Inbox(dev[s]) : r.id <= lastID[s] => r.id \in sent[s]

\* A Blob is sent once per Receive Session and in arrival order: whatever is put
\* on deliverCh is newer than everything this session put there before.
OnceStep ==
    \A s \in Sessions : Len(deliverCh'[s]) > Len(deliverCh[s]) =>
        \A i \in sent[s] : deliverCh'[s][Len(deliverCh'[s])].id > i
OncePerSession == [][OnceStep]_vars

\* Concurrent pushes never overshoot an Inbox's quota, in Blobs or in bytes.
QuotaKept ==
    \A d \in Devices :
        /\ MaxBlobs > 0 => Cardinality(Inbox(d)) <= MaxBlobs
        /\ MaxBytes > 0 => Bytes(d) <= MaxBytes

\* sessionCap counts exactly the sessions that hold a slot, on every path of
\* OnReceiveConnect and of the goroutine's defer, and never more than the cap.
Holders(d) == {s \in Sessions : pc[s] \in Holding /\ dev[s] = d}
SlotsExact ==
    MaxSessions > 0 => \A d \in Devices :
        active[d] = Cardinality(Holders(d)) /\ active[d] <= MaxSessions

\* No wake-up is lost: a session waiting for a signal while its Inbox holds a
\* row it has not sent has a signal pending, or the push that stored the row is
\* about to notify. Subscribing before the first peek, notifying after Put and
\* taking the signal before the next peek make it so; it needs a Notifier that
\* loses nothing and a PeekAfter that succeeds.
Told(s) == \/ signal[s]
           \/ \E p \in Pushers : ppc[p] = "notify" /\ Prefix[pmsg[p]] = dev[s]
NoLostWakeup ==
    ~LossyNotify /\ ~StoreFaults =>
        \A s \in Sessions :
            pc[s] = "wait" /\ ~cancelled[s] /\ Beyond(s) # {} => Told(s)

\* A Blob waiting in the Inbox of a device with a Receive Session open reaches
\* the device, unless the session ends, or the Blob is acked or reaped first.
Owed(s, i) ==
    /\ pc[s] \in Delivering /\ ~cancelled[s]
    /\ \E r \in Inbox(dev[s]) : r.id = i /\ r \notin received[dev[s]]
EventuallyDelivered ==
    \A s \in Sessions, i \in 1 .. MaxId : Owed(s, i) ~> ~Owed(s, i)

\* The relay keeps the promises of Mailbox: every step of a push handler, a session,
\* the Notifier, a device or a crash is one step of that mailbox or leaves it as it
\* is (the ack after Put, DeleteForRecipient, Reap, AUTOINCREMENT ids).
Promises == INSTANCE Mailbox WITH
    Addressee <- Envelope, mail <- inbox, accepted <- stored, promised <- acked,
    got <- received, clock <- now
KeepsPromises == Promises!Spec

-----------------------------------------------------------------------------
(* The inductive invariant behind the properties above.                    *)

\* Every row in flight anywhere is a committed one of that device's Inbox, ids
\* are never given twice, and an honest device's row is gone only once received
\* or expired.
Ledger ==
    /\ inbox \subseteq stored
    /\ \A r \in stored : r.id \in 1 .. seq
    /\ \A q, r \in stored : q.id = r.id => q = r
    /\ \A d \in Devices : \A r \in received[d] : r \in stored /\ r.rcpt = d
    /\ \A s \in Sessions : \A r \in batch[s] : r \in stored /\ r.rcpt = dev[s]
    /\ \A s \in Sessions : \A k \in 1 .. Len(deliverCh[s]) :
            deliverCh[s][k] \in stored /\ deliverCh[s][k].rcpt = dev[s]
    /\ \A r \in stored : r.rcpt \in Honest =>
            r \in inbox \/ r \in received[r.rcpt] \/ r.exp <= now
Receipts ==
    /\ \A p \in Pushers : ppc[p] \in {"notify", "ack"} =>
            \E r \in stored : r.msg = pmsg[p]
    /\ \A m \in acked : \E r \in stored : r.msg = m

\* Where a session's cursor stands: all it sent is at or below lastID, what is
\* left of the snapshot above it, and an Inbox row above lastID that is not in
\* the snapshot is newer than all that is.
Cursor ==
    \A s \in Sessions :
        /\ pc[s] \in {"none", "acquire", "subscribe"} =>
                lastID[s] = 0 /\ batch[s] = {} /\ sent[s] = {}
        /\ lastID[s] <= seq
        /\ \A i \in sent[s] : i <= lastID[s]
        /\ pc[s] = "send" =>
            /\ \A b \in batch[s] : b.id > lastID[s]
            /\ \A r \in Beyond(s) : r \in batch[s] \/ \A b \in batch[s] : b.id < r.id

\* A row the session will not see by itself has been announced to it.
Announced ==
    ~LossyNotify /\ ~StoreFaults =>
        \A s \in Sessions : pc[s] \in Delivering /\ ~cancelled[s] =>
            /\ s \in subs
            /\ pc[s] = "wait" /\ Beyond(s) # {} => Told(s)
            /\ pc[s] = "send" /\ Beyond(s) \ batch[s] # {} => Told(s)

\* The core invariant: ledger, receipts, cursors and announcements together.
CoreInv == Ledger /\ Receipts /\ Cursor /\ CursorSkipsNothing /\ Announced
=============================================================================
