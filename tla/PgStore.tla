------------------------------- MODULE PgStore -------------------------------
(***************************************************************************)
(* internal/store/postgres/store.go for one recipient key: pushes of any   *)
(* Node into the shared inbox table, and one Node's Notifier (Subscribe,   *)
(* the unsubscribe goroutines, listenLoop) with the Receive Sessions that  *)
(* use it. What follows deliverCh is in Relay and ReceiveSession.          *)
(*                                                                         *)
(* A section under s.mu is one step. LISTEN, UNLISTEN and pg_notify are    *)
(* Postgres's: a notification reaches the listener connection exactly when *)
(* its LISTEN is in force at that moment.                                  *)
(***************************************************************************)
EXTENDS Integers, Sequences, FiniteSets

CONSTANTS Chans,        \* subscriptions, each made at most once
          Pushers,
          CmdCap,       \* capacity of cmdCh
          MaxBlobs,     \* InboxLimits.MaxBlobs
          ListenFaults, \* LISTEN and UNLISTEN may fail
          MaxId         \* bound: ids the sequence hands out

ASSUME PgAssumption ==
    /\ IsFiniteSet(Chans) /\ IsFiniteSet(Pushers) /\ ListenFaults \in BOOLEAN
    /\ CmdCap \in Nat \ {0} /\ MaxBlobs \in Nat \ {0} /\ MaxId \in Nat

VARIABLES
    rows, seq,        \* ids of the committed rows; the BIGSERIAL sequence
    ppc, pid,         \* each push: stage, the id its transaction's INSERT got
    store,            \* "open", "cancelled" (Close began), "closed"
    subs, refcount,   \* registered channels, their count
    stage,            \* each subscription's goroutine
    cmds,             \* cmdCh
    loop, snapshot,   \* listenLoop: stage, channels left to signal
    listening, mail,  \* Postgres: LISTEN in force, notifications not yet read
    signal,           \* a signal waits in the subscription's channel
    task, lastID,     \* the delivery goroutine: what it does next, its cursor,
    batch,            \* and the ids it has read and not yet sent
    \* history: ids each session sent, ids committed after it had read a higher
    \* one, rows its last read failed to fetch; sessions a notification could have
    \* missed; and whether a Subscribe ran while another one's LISTEN or UNLISTEN
    \* was outstanding
    delivered, overtaken, missed, deaf, overlap

inbox == <<rows, seq, ppc, pid>>
registry == <<subs, refcount>>
postgres == <<listening, mail>>
listener == <<loop, snapshot>>
cursor == <<lastID, batch, delivered, missed>>
reading == <<task, cursor>>
vars == <<inbox, store, registry, stage, cmds, listener, postgres, signal, reading,
          overtaken, deaf, overlap>>

\* A LISTEN or UNLISTEN decided on and not yet dealt with.
Outstanding == {"counted", "queued", "ok", "err", "owes", "unqueued"}
Stage == {"new", "open", "cancelled", "gone"} \cup Outstanding
Open == {c \in Chans : stage[c] = "open"}
Idle == \A c \in Chans : stage[c] \notin Outstanding

TypeOK ==
    /\ rows \subseteq 1 .. seq /\ seq \in 0 .. MaxId
    /\ ppc \in [Pushers -> {"idle", "insert", "commit", "notify"}]
    /\ pid \in [Pushers -> 0 .. MaxId]
    /\ store \in {"open", "cancelled", "closed"}
    /\ subs \subseteq Chans /\ refcount = Cardinality(subs)
    /\ stage \in [Chans -> Stage]
    /\ cmds \in Seq([op : {"LISTEN", "UNLISTEN"}, by : Chans]) /\ Len(cmds) <= CmdCap
    /\ loop \in {"drain", "wait", "send", "ended"} /\ snapshot \subseteq Chans
    /\ listening \in BOOLEAN /\ mail \in Nat
    /\ signal \in [Chans -> BOOLEAN] /\ task \in [Chans -> {"peek", "send", "wait"}]
    /\ lastID \in [Chans -> 0 .. MaxId] /\ batch \in [Chans -> SUBSET (1 .. MaxId)]
    /\ delivered \in [Chans -> SUBSET (1 .. MaxId)] /\ missed \in [Chans -> SUBSET (1 .. MaxId)]
    /\ overtaken \in [Chans -> SUBSET (1 .. MaxId)]
    /\ deaf \subseteq Chans /\ overlap \in BOOLEAN

Init ==
    /\ rows = {} /\ seq = 0
    /\ ppc = [p \in Pushers |-> "idle"] /\ pid = [p \in Pushers |-> 0]
    /\ store = "open" /\ subs = {} /\ refcount = 0
    /\ stage = [c \in Chans |-> "new"] /\ cmds = <<>>
    /\ loop = "drain" /\ snapshot = {}
    /\ listening = FALSE /\ mail = 0
    /\ signal = [c \in Chans |-> FALSE] /\ task = [c \in Chans |-> "wait"]
    /\ lastID = [c \in Chans |-> 0] /\ batch = [c \in Chans |-> {}]
    /\ delivered = [c \in Chans |-> {}] /\ missed = [c \in Chans |-> {}]
    /\ overtaken = [c \in Chans |-> {}] /\ deaf = {} /\ overlap = FALSE

-----------------------------------------------------------------------------
(* PutWithLimits, then Notify. Each statement sees what is committed.      *)

PushStep(p, s) == ppc' = [ppc EXCEPT ![p] = s]
TransactionEnds(p, s) == PushStep(p, s) /\ pid' = [pid EXCEPT ![p] = 0]
PushEnds(p) == TransactionEnds(p, "idle")
notifierVars == <<store, registry, stage, cmds, listener, signal, reading, overlap>>

\* The quota, probed in the transaction (MaxBytes has the same shape). Mutant: one Blob more.
Bug_Fits == Cardinality(rows) <= MaxBlobs
Fits == Cardinality(rows) < MaxBlobs

Probe(p) ==
    /\ ppc[p] = "idle" /\ Fits
    /\ PushStep(p, "insert")
    /\ UNCHANGED <<rows, seq, pid, notifierVars, postgres, overtaken, deaf>>

\* INSERT takes the id from the sequence, which no rollback gives back.
Insert(p) ==
    /\ ppc[p] = "insert" /\ seq < MaxId
    /\ seq' = seq + 1 /\ pid' = [pid EXCEPT ![p] = seq + 1]
    /\ PushStep(p, "commit")
    /\ UNCHANGED <<rows, notifierVars, postgres, overtaken, deaf>>

\* What a session's reads have returned so far reaches up to the highest of these.
ReadIds(c) == {lastID[c]} \cup batch[c]
Overtaken(p) ==
    overtaken' = [c \in Chans |-> IF c \in Open /\ \E j \in ReadIds(c) : j > pid[p]
                                  THEN overtaken[c] \cup {pid[p]} ELSE overtaken[c]]

Commit(p) ==
    /\ ppc[p] = "commit"
    /\ rows' = rows \cup {pid[p]}
    /\ Overtaken(p)
    /\ TransactionEnds(p, "notify")
    /\ UNCHANGED <<seq, notifierVars, postgres, deaf>>

\* The answer to the commit is lost: the row is there, the push is told it
\* failed, and nobody is notified.
CommitUnknown(p) ==
    /\ ppc[p] = "commit"
    /\ rows' = rows \cup {pid[p]}
    /\ Overtaken(p)
    /\ PushEnds(p) /\ deaf' = deaf \cup Open
    /\ UNCHANGED <<seq, notifierVars, postgres>>

\* A statement or the commit fails: nothing is stored.
PutFails(p) ==
    /\ ppc[p] \in {"insert", "commit"}
    /\ PushEnds(p)
    /\ UNCHANGED <<rows, seq, notifierVars, postgres, overtaken, deaf>>

Notify(p) ==
    /\ ppc[p] = "notify"
    /\ PushEnds(p)
    /\ mail' = IF listening THEN mail + 1 ELSE mail
    /\ UNCHANGED <<rows, seq, notifierVars, listening, overtaken, deaf>>

\* OnPush drops Notify's error: the Blob is stored, nobody is woken.
NotifyFails(p) ==
    /\ ppc[p] = "notify"
    /\ PushEnds(p) /\ deaf' = deaf \cup Open
    /\ UNCHANGED <<rows, seq, notifierVars, postgres, overtaken>>

-----------------------------------------------------------------------------
(* Subscribe and the unsubscribe goroutine.                                *)

\* Subscribe returns: the session first reads its whole Inbox. Mutant: it waits
\* for a signal at once.
Bug_Opened(c) ==
    /\ task' = [task EXCEPT ![c] = "wait"]
    /\ deaf' = IF listening THEN deaf ELSE deaf \cup {c}
Opened(c) ==
    /\ task' = [task EXCEPT ![c] = "peek"]
    /\ deaf' = IF listening THEN deaf ELSE deaf \cup {c}

Subscribe(c) ==
    /\ stage[c] = "new"
    /\ subs' = subs \cup {c} /\ refcount' = refcount + 1
    /\ overlap' = (overlap \/ ~Idle)
    /\ \/ refcount = 0 /\ stage' = [stage EXCEPT ![c] = "counted"]
          /\ UNCHANGED <<task, deaf>>
       \/ refcount > 0 /\ stage' = [stage EXCEPT ![c] = "open"] /\ Opened(c)
    /\ UNCHANGED <<inbox, store, cmds, listener, postgres, signal, cursor, overtaken>>

Enqueue(c, cmd) == cmds' = Append(cmds, [op |-> cmd, by |-> c])
GoroutineStep(c, s) ==
    /\ stage' = [stage EXCEPT ![c] = s]
    /\ UNCHANGED <<inbox, store, listener, postgres, overlap>>

\* The send waits for room in cmdCh.
SendListen(c) ==
    /\ stage[c] = "counted" /\ Len(cmds) < CmdCap
    /\ Enqueue(c, "LISTEN") /\ GoroutineStep(c, "queued")
    /\ UNCHANGED <<registry, signal, reading, overtaken, deaf>>

SubscribeReturns(c) ==
    /\ stage[c] = "ok"
    /\ GoroutineStep(c, "open") /\ Opened(c)
    /\ UNCHANGED <<registry, cmds, signal, cursor, overtaken>>

\* Out of the registry, its channel closed.
Removed(c) ==
    /\ subs' = subs \ {c} /\ refcount' = refcount - 1
    /\ signal' = [signal EXCEPT ![c] = FALSE]

\* The LISTEN failed: the registration is taken back and the channel closed.
SubscribeFails(c) ==
    /\ stage[c] = "err"
    /\ Removed(c)
    /\ GoroutineStep(c, "gone")
    /\ UNCHANGED <<cmds, reading, overtaken, deaf>>

\* The session's context ends; its delivery goroutine returns, and its variables
\* go with it.
Cancel(c) ==
    /\ stage[c] = "open"
    /\ GoroutineStep(c, "cancelled")
    /\ task' = [task EXCEPT ![c] = "wait"] /\ lastID' = [lastID EXCEPT ![c] = 0]
    /\ batch' = [batch EXCEPT ![c] = {}] /\ delivered' = [delivered EXCEPT ![c] = {}]
    /\ missed' = [missed EXCEPT ![c] = {}] /\ overtaken' = [overtaken EXCEPT ![c] = {}]
    /\ deaf' = deaf \ {c}
    /\ UNCHANGED <<registry, cmds, signal>>

\* Removes and closes the channel. Mutant: UNLISTEN whoever is left.
Bug_Unsubscribe(c) ==
    /\ stage[c] = "cancelled"
    /\ Removed(c)
    /\ GoroutineStep(c, "owes")
    /\ UNCHANGED <<cmds, reading, overtaken, deaf>>
Unsubscribe(c) ==
    /\ stage[c] = "cancelled"
    /\ Removed(c)
    /\ GoroutineStep(c, IF refcount = 1 THEN "owes" ELSE "gone")
    /\ UNCHANGED <<cmds, reading, overtaken, deaf>>

\* After the unlock. A full cmdCh skips the UNLISTEN.
SendUnlisten(c) ==
    /\ stage[c] = "owes"
    /\ \/ Len(cmds) < CmdCap /\ Enqueue(c, "UNLISTEN") /\ GoroutineStep(c, "unqueued")
       \/ Len(cmds) = CmdCap /\ GoroutineStep(c, "gone") /\ UNCHANGED cmds
    /\ UNCHANGED <<registry, signal, reading, overtaken, deaf>>

SubscriptionNext(c) ==
    \/ SendListen(c) \/ SubscribeReturns(c) \/ SubscribeFails(c)
    \/ Unsubscribe(c) \/ SendUnlisten(c)

-----------------------------------------------------------------------------
(* listenLoop.                                                             *)

Answer(s) == stage' = [stage EXCEPT ![Head(cmds).by] = s] /\ cmds' = Tail(cmds)
loopFrame == <<inbox, store, registry, signal, reading, overtaken, overlap>>

DrainListen ==
    /\ loop = "drain" /\ store # "closed" /\ cmds # <<>> /\ Head(cmds).op = "LISTEN"
    /\ Answer("ok") /\ listening' = TRUE
    /\ UNCHANGED <<loopFrame, listener, mail, deaf>>

DrainUnlisten ==
    /\ loop = "drain" /\ store # "closed" /\ cmds # <<>> /\ Head(cmds).op = "UNLISTEN"
    /\ Answer("gone") /\ listening' = FALSE /\ deaf' = deaf \cup Open
    /\ UNCHANGED <<loopFrame, listener, mail>>

DrainFails ==
    /\ loop = "drain" /\ cmds # <<>> /\ (ListenFaults \/ store = "closed")
    /\ Answer(IF Head(cmds).op = "LISTEN" THEN "err" ELSE "gone")
    /\ UNCHANGED <<loopFrame, listener, postgres, deaf>>

DrainEnds ==
    /\ loop = "drain" /\ cmds = <<>> /\ loop' = "wait"
    /\ UNCHANGED <<loopFrame, stage, cmds, snapshot, postgres, deaf>>

\* 50 ms without a notification. Mutant: only Close ends the wait.
Bug_WaitTimeout ==
    /\ loop = "wait" /\ store # "open" /\ loop' = "ended"
    /\ UNCHANGED <<loopFrame, stage, cmds, snapshot, postgres, deaf>>
WaitTimeout ==
    /\ loop = "wait" /\ store = "open" /\ loop' = "drain"
    /\ UNCHANGED <<loopFrame, stage, cmds, snapshot, postgres, deaf>>

LoopEnds ==
    /\ loop = "wait" /\ store # "open" /\ loop' = "ended"
    /\ UNCHANGED <<loopFrame, stage, cmds, snapshot, postgres, deaf>>

\* A notification: the subscribers are copied under the read lock.
Notified ==
    /\ loop = "wait" /\ mail > 0
    /\ mail' = mail - 1 /\ snapshot' = subs /\ loop' = "send"
    /\ UNCHANGED <<loopFrame, stage, cmds, listening, deaf>>

\* Without the lock, each is signalled; one signal is enough.
SendSignal(c) ==
    /\ loop = "send" /\ c \in snapshot /\ c \in subs
    /\ snapshot' = snapshot \ {c} /\ signal' = [signal EXCEPT ![c] = TRUE]
    /\ UNCHANGED <<inbox, store, registry, stage, cmds, loop, postgres, reading,
                   overtaken, deaf, overlap>>

SendEnds ==
    /\ loop = "send" /\ snapshot = {} /\ loop' = "drain"
    /\ UNCHANGED <<loopFrame, stage, cmds, snapshot, postgres, deaf>>

\* The process ends and starts again with nothing but the table.
Restarted ==
    /\ store' = "open" /\ subs' = {} /\ refcount' = 0
    /\ stage' = [c \in Chans |-> IF stage[c] = "new" THEN "new" ELSE "gone"]
    /\ cmds' = <<>> /\ loop' = "drain" /\ snapshot' = {}
    /\ listening' = FALSE /\ mail' = 0
    /\ signal' = [c \in Chans |-> FALSE] /\ task' = [c \in Chans |-> "wait"]
    /\ lastID' = [c \in Chans |-> 0] /\ batch' = [c \in Chans |-> {}]
    /\ delivered' = [c \in Chans |-> {}] /\ missed' = [c \in Chans |-> {}]
    /\ overtaken' = [c \in Chans |-> {}] /\ deaf' = {} /\ overlap' = FALSE
    /\ UNCHANGED inbox

\* A channel closed since the copy was made: the send panics.
SendPanics ==
    /\ loop = "send" /\ snapshot \ subs # {}
    /\ Restarted

\* log.Fatalf.
ConnectionLost ==
    /\ loop = "wait" /\ store = "open"
    /\ Restarted

LoopNext ==
    \/ DrainListen \/ DrainUnlisten \/ DrainFails \/ DrainEnds \/ WaitTimeout
    \/ LoopEnds \/ Notified \/ (\E c \in Chans : SendSignal(c)) \/ SendPanics
    \/ SendEnds

\* Close cancels the loop's context, then closes the listener connection. serve
\* has cancelled every session by then; a Subscribe may be under way.
CloseBegins ==
    /\ store = "open" /\ Open = {} /\ store' = "cancelled"
    /\ UNCHANGED <<inbox, registry, stage, cmds, listener, postgres, signal, reading,
                   overtaken, deaf, overlap>>

CloseEnds ==
    /\ store = "cancelled" /\ store' = "closed"
    /\ listening' = FALSE /\ deaf' = deaf \cup Open
    /\ UNCHANGED <<inbox, registry, stage, cmds, listener, mail, signal, reading,
                   overtaken, overlap>>

-----------------------------------------------------------------------------
(* The sessions' delivery goroutines, acks and the Reaper.                 *)

PeekAfter(c) == {i \in rows : i > lastID[c]}
sessionFrame == <<inbox, store, registry, stage, cmds, listener, postgres, overtaken,
                  deaf, overlap>>

\* deliverNew: PeekAfter's one statement sees the rows committed by then.
Peek(c) ==
    /\ stage[c] = "open" /\ task[c] = "peek"
    /\ batch' = [batch EXCEPT ![c] = PeekAfter(c)]
    /\ task' = [task EXCEPT ![c] = IF PeekAfter(c) = {} THEN "wait" ELSE "send"]
    /\ UNCHANGED <<sessionFrame, signal, lastID, delivered, missed>>

\* PeekAfter fails: the cursor stays, and the next wake-up reads again.
PeekFails(c) ==
    /\ stage[c] = "open" /\ task[c] = "peek"
    /\ task' = [task EXCEPT ![c] = "wait"]
    /\ missed' = [missed EXCEPT ![c] = PeekAfter(c)]
    /\ UNCHANGED <<sessionFrame, signal, lastID, batch, delivered>>

\* One iteration of the loop, when deliverCh has room: the ids go out in order.
\* Mutant: the cursor is the sequence's last id.
Bug_SendBlob(c) ==
    /\ stage[c] = "open" /\ task[c] = "send"
    /\ \E i \in batch[c] :
          /\ \A j \in batch[c] : i <= j
          /\ delivered' = [delivered EXCEPT ![c] = @ \cup {i}]
          /\ lastID' = [lastID EXCEPT ![c] = seq]
          /\ batch' = [batch EXCEPT ![c] = @ \ {i}]
          /\ task' = [task EXCEPT ![c] = IF batch[c] = {i} THEN "wait" ELSE "send"]
    /\ UNCHANGED <<sessionFrame, signal, missed>>
SendBlob(c) ==
    /\ stage[c] = "open" /\ task[c] = "send"
    /\ \E i \in batch[c] :
          /\ \A j \in batch[c] : i <= j
          /\ delivered' = [delivered EXCEPT ![c] = @ \cup {i}]
          /\ lastID' = [lastID EXCEPT ![c] = i]
          /\ batch' = [batch EXCEPT ![c] = @ \ {i}]
          /\ task' = [task EXCEPT ![c] = IF batch[c] = {i} THEN "wait" ELSE "send"]
    /\ UNCHANGED <<sessionFrame, signal, missed>>

Wake(c) ==
    /\ stage[c] = "open" /\ task[c] = "wait" /\ signal[c]
    /\ signal' = [signal EXCEPT ![c] = FALSE] /\ task' = [task EXCEPT ![c] = "peek"]
    /\ missed' = [missed EXCEPT ![c] = {}]
    /\ UNCHANGED <<sessionFrame, lastID, batch, delivered>>

DeleteRows(S) ==
    rows' = rows \ S /\ overtaken' = [c \in Chans |-> overtaken[c] \ S]
rowFrame == <<seq, ppc, pid, notifierVars, postgres, deaf>>

\* An ack deletes its row, if it is still there.
DeleteForRecipient(c) ==
    /\ stage[c] = "open"
    /\ \E i \in delivered[c] \cap rows : DeleteRows({i})
    /\ UNCHANGED rowFrame

\* Whichever rows have expired by now go together.
Reap ==
    /\ \E expired \in SUBSET rows \ {{}} : DeleteRows(expired)
    /\ UNCHANGED rowFrame

\* What the Node's own goroutines do not decide.
EnvironmentNext ==
    \/ \E p \in Pushers : \/ Probe(p) \/ Insert(p) \/ Commit(p)
                          \/ CommitUnknown(p) \/ PutFails(p) \/ Notify(p) \/ NotifyFails(p)
    \/ \E c \in Chans : \/ Subscribe(c) \/ Peek(c) \/ PeekFails(c)
                        \/ SendBlob(c) \/ Wake(c) \/ DeleteForRecipient(c)
    \/ ConnectionLost \/ CloseBegins \/ Reap

\* Once Close has begun only the goroutines it leaves behind are followed.
Next ==
    \/ store = "open" /\ EnvironmentNext
    \/ \E c \in Chans : SubscriptionNext(c) \/ Cancel(c)
    \/ LoopNext \/ CloseEnds

Spec == Init /\ [][Next]_vars

\* Goroutines that can run do, the loop's wait times out, and Postgres answers.
\* Nothing is assumed of pushers, devices, the Reaper or Close.
Fairness == WF_vars(LoopNext) /\ \A c \in Chans : WF_vars(SubscriptionNext(c))
FairSpec == Spec /\ Fairness

-----------------------------------------------------------------------------
(* Properties.                                                             *)

\* "two pushes can race past the probe and overshoot the quota by their own
\* blob" (PutWithLimits's comment), and by no more than that: with what passed
\* the probe counted in, each concurrent push but one adds its own Blob.
OvershootBounded ==
    LET passed == {p \in Pushers : ppc[p] \in {"insert", "commit"}}
    IN  TypeOK /\ Cardinality(rows) + Cardinality(passed) < MaxBlobs + Cardinality(Pushers)

\* A committed row at or below the highest id a session has read is one it has
\* sent, one it is about to send, or one committed after that read: the cursor
\* passes over nothing else, however long deliverCh holds the session up between
\* the read and the sends (the caveat of InboxStore.PeekAfter's comment, and the
\* whole of it).
SkipsOnlyOvertaken ==
    \A c \in Open : \A i \in rows : (\E j \in ReadIds(c) : i <= j) =>
        i \in delivered[c] \cup batch[c] \cup overtaken[c]

\* As long as LISTEN has been in force since Subscribe returned, a session that
\* is not about to read, and has rows it neither read nor failed to read, has a
\* signal or notification on its way, or the push that stored the row has still
\* to notify, whatever the loop's copies, other subscriptions and the one-slot
\* channel do. A row whose read failed waits for the next push (deliverNew
\* returns on PeekAfter's error, the signal is used up).
WokenWhileListening ==
    \A c \in Open \ deaf :
        task[c] # "peek" /\ PeekAfter(c) \ (batch[c] \cup missed[c]) # {} =>
            \/ signal[c] \/ mail > 0 \/ (loop = "send" /\ c \in snapshot)
            \/ \E p \in Pushers : ppc[p] = "notify"

\* The reference count keeps LISTEN in force for whoever is subscribed, unless
\* a Subscribe ran while another subscription's LISTEN or UNLISTEN was still
\* on its way.
ListeningWhenSerial == Open # {} /\ ~overlap /\ store = "open" => listening

\* Every Subscribe returns and every unsubscribe goroutine ends while the store
\* is open, through the bounded cmdCh and a loop busy with notifications.
CommandsAnswered ==
    \A c \in Chans :
        stage[c] \in Outstanding \cup {"cancelled"}
            ~> stage[c] \in {"open", "gone"} \/ store # "open"

-----------------------------------------------------------------------------
(* The inductive invariant behind the safety properties.                   *)

\* A channel is registered from Subscribe's count until a removal takes it out.
Registered == {"counted", "queued", "ok", "err", "open", "cancelled"}
RegistryExact == \A c \in Chans : c \in subs <=> stage[c] \in Registered

\* A command in cmdCh is the one its goroutine sent last, and its only one.
CommandsKnown ==
    \A i \in 1 .. Len(cmds) :
        /\ cmds[i].op = "LISTEN" => stage[cmds[i].by] = "queued"
        /\ cmds[i].op = "UNLISTEN" => stage[cmds[i].by] = "unqueued"
        /\ \A j \in 1 .. Len(cmds) : cmds[i].by = cmds[j].by => i = j

\* An id waiting for its commit is nobody else's, and no session has read it.
Committing == {p \in Pushers : ppc[p] = "commit"}
IdsUnused ==
    \A p \in Committing :
        /\ pid[p] \in 1 .. seq /\ pid[p] \notin rows
        /\ \A c \in Chans : pid[p] \notin ReadIds(c)
        /\ \A q \in Committing : pid[p] = pid[q] => p = q

\* A cursor is never ahead of the sequence, what is read and not sent is beyond
\* it, and a new session starts at 0 with nothing read.
CursorsBehind ==
    \A c \in Chans :
        /\ lastID[c] <= seq /\ \A i \in batch[c] : lastID[c] < i /\ i <= seq
        /\ task[c] # "send" => batch[c] = {}
        /\ stage[c] # "open" => lastID[c] = 0 /\ batch[c] = {}

\* A session no notification could have missed has its LISTEN in force.
Hearing == Open \ deaf # {} => listening

\* One Subscribe after the other's LISTEN or UNLISTEN: whoever waits for an answer
\* is alone, and LISTEN stays in force between the first answer and the last
\* removal.
Serial ==
    ~overlap => \A c \in Chans :
        /\ stage[c] \in {"counted", "queued", "ok", "err"} => subs = {c}
        /\ stage[c] \in {"owes", "unqueued"} => subs = {}
        /\ stage[c] \in Outstanding =>
              \A d \in Chans : stage[d] \in Outstanding => d = c
        /\ store = "open" /\ stage[c] \in {"ok", "open", "cancelled"} => listening

PgInv ==
    /\ OvershootBounded /\ SkipsOnlyOvertaken /\ WokenWhileListening
    /\ RegistryExact /\ CommandsKnown /\ IdsUnused /\ CursorsBehind
    /\ Hearing /\ Serial
=============================================================================
