# A TLA+ model of trueseal-relay

trueseal-relay is a store-and-forward server. A sender opens a **Push Session**
and pushes opaque envelopes addressed to a Device key; the relay stores each one
(a *Blob*) in that device's *Inbox* and acks it. A device opens a **Receive
Session**, gets the Blobs of its Inbox in order, and acks each; only that ack, or
the TTL, deletes a Blob. The promises are in `docs/adr`: durable until delivery
(ADR-0003), ack-gated deletion and at-least-once delivery (ADR-0009), limits,
deadlines and shutdown order (ADR-0012), versioned store (ADR-0013).

The modules here model that core from the Go source, TLC checks them on small
instances, and TLAPS proves the central safety properties for every value of the
constants. `PROJECT.json` maps each definition to the lines it models.

## Inventory

| Component | State | Operations | Interacts through | What makes it correct |
|---|---|---|---|---|
| Router (`internal/relay/router.go`) | per session: `lastID`, `deliverCh`; per device: cap | OnPush, OnReceiveConnect, delivery goroutine, OnDeliverAck | calls store and Notifier; channel to the session | nothing acked is lost; each Blob once per session, in order; no lost wake-up |
| SQLite Inbox (`internal/store/sqlite/store.go`) | table `inbox`, AUTOINCREMENT counter | PutWithLimits, PeekAfter, DeleteForRecipient, Reap | one connection, transactions | quota is atomic; ids never reused; an ack deletes only in its own Inbox |
| Session cap, rate limiter (`internal/relay/limits.go`) | counts per Device key; token buckets | acquire, release; allow | called by the Router | slots exact; sweeps invisible; push bound |
| In-process Notifier | slices of channels per key | Notify, Subscribe, unsubscribe goroutine | shared backing arrays, mutex, channels | all live subscribers signalled; no send on a closed channel |
| Receive Session (`internal/session/receive.go`, `writer.go`) | queues, `stop`, context, connection | read loop, watcher, writer, deliver goroutine | bounded channels, the client's TCP window | Deliver frames never dropped or reordered; every goroutine ends |
| Push Session (`internal/session/push.go`) | the frame in hand | read, OnPush, Ack or Error | connection, context | answers line up with frames; a push cut by shutdown is silent |
| Server (`cmd/trueseal-relay/server.go`) | listeners, semaphores, WaitGroups, contexts | acceptLoop, shutdown | starts sessions, cancels their contexts, store closed after it | slots exact; pushes drained; store closes last; shutdown returns |
| Reaper (`internal/store/reaper.go`) | ticker | Run, Reap | the store | only expired Blobs; stopped before the store closes |
| Store versioning (`internal/store/sqlite/version.go`) | `user_version`, the table's columns | probe, create, adopt, migrate, reset | one transaction each | version and schema agree after any crash; only a declared reset drops Blobs |
| Postgres store and Notifier (`internal/store/postgres/store.go`) | shared table and sequence; LISTEN refcounts, command queue | PutWithLimits, PeekAfter, Notify, Subscribe, listenLoop, Close | one listener connection per Node, `cmdCh` | overshoot and skips only as admitted; no wake-up lost while listening; every command answered |
| Keypair (`internal/keypair/keypair.go`) | the key file, temporary files | Resolve, Load, Generate | processes racing on one directory | one key for all; never a partial file; never replaced |
| Hostile engine (`internal/hostile`, hostile builds) | rule table, registry of pipes, queues | set, clear, inject, replay; one pipe goroutine per session | sits between Router and session | invisible until told; loses nothing a rule did not withhold; ends |
| Frame codec (`internal/session/frame.go`) | none | Frame, Parse, Deliver bodies | both sessions | Parse accepts exactly what Frame writes and refuses the rest |
| Envelope parser (`internal/relay/envelope_recipient.go`) | none | extractEnvelopeRecipient | OnPush | the key a protobuf decoder reads, or a refusal |
| Configuration (`internal/config/config.go`) | none after start | Load | limits and deadlines of all the others | values in range, explicit values honoured |
| Session error log, health endpoint, logging, vectors | none that others read | | | not modelled |

What is hard to test here is listed under `hazards` in `PROJECT.json`, each at
its line: windows between subscribe, peek, put and notify; a cursor carried across
deletions and crashes; goroutines waiting on each other through bounded channels
and a client's TCP window; shutdown timers racing what they wait for; a slice
walked without its lock; a crash between two statements of a migration.

## Modules

**`Relay`** is the core: Router, SQLite Inbox, session cap, a Notifier and the
devices, composed. `ppc`/`pmsg` are push handlers, `pc` the stage of each Receive
Session (`acquire`, `subscribe`, then the delivery goroutine's `peek`, `send`,
`wait`, and the two steps of its defer), `batch` the rows a PeekAfter returned and
deliverNew has not sent, `subs`/`signal` the Notifier's registrations and
one-slot channels. A step is what happens between two accesses to shared state;
PutWithLimits is one step because it is one transaction on the only connection. A
crash keeps `inbox`, `seq` and the clock. `stored`, `acked`, `received`, `sent`
are history. An honest device acks what it received, at any time and repeatedly;
other devices name any id. `LossyNotify` and `StoreFaults` switch on a Notifier
that misses subscribers and a PeekAfter that fails. The expiry test, the exclusive
cursor, the quota's comparisons and the recipient clause of the DELETE are the
code's. The token bucket appears as a refusal that may happen at any time.

**`Mailbox`** is the abstract promise: Blobs accepted for the device their envelope
names, acked to pushers only when accepted, handed to their owner any number of
times, dropped only once an honest owner has them or their time is over. No
sessions, channels, notifications or crashes. `KeepsPromises` says that `Relay`
implements it: `mail` is the Inbox, `accepted` all that was ever stored, `promised`
the acks, `got` what devices received; a crash, a wake-up, a subscription or a
refusal is a stuttering step.

**`InProcessNotifier`** opens up Notify for one key: slice headers over shared
backing arrays, in-place and growing `append`, the removal that moves the tail one
slot at a time, the walk outside the mutex, the close after the unlock. The race
between walk and removal is a data race in Go; words are read whole, so a read
returns the slot's old or new value, which the interleaving gives.

**`RateLimiter`** is `allow` with its map, sweep and soft cap; **`TokenBucket`**
is the abstract limiter that never forgets a bucket, and `ForgettingIsInvisible`
says the first implements the second (an evicted or unknown bucket maps to a full
one). Tokens are counted in units so that rates need not be whole.

**`ReceiveSession`** and **`PushSession`** model one session each with all its
goroutines, the connection and a client that may stop reading, stop sending or
leave at any time. Handshake and frame bytes are reduced to whether they succeed;
a malformed frame on which `Parse` panics (`ParsePanics`) ends the process, since
nothing recovers, with the deferred calls of the reading goroutine done.

**`Server`** models accept loops, semaphores, WaitGroups, the stages of
`shutdown` and the deferred store close of `serve`. A session is `serving`, `busy`
in a store call, or in one of its two defers.

**`StoreVersion`** models `openStore`: the file as committed, the process that
probes, decides and executes a transaction statement by statement, and other
releases that start later with their own target, chain and flags. `seq` is
AUTOINCREMENT's counter, which a reset forgets with the table. `inboxSchemaMatches`
compares with a list of columns written into the source; the model assumes that a
release that changes the schema changes that list with it, so that a table matches
exactly when it has the target's schema.

**`PgStore`** models the Postgres backend for one recipient key. PutWithLimits runs
statement by statement, ids come from the sequence at INSERT and rows appear at
COMMIT. A session's delivery goroutine reads (`Peek`), or fails to (`PeekFails`: the
signal is used up, the cursor stays, the rows wait for the next signal), and sends
what it read one Blob per step (`SendBlob`), as it blocks on deliverCh while pushes
commit. Subscribe, the unsubscribe goroutines and listenLoop interleave through
`cmdCh`; a section under `s.mu` is one step. What Postgres does with LISTEN,
UNLISTEN and pg_notify is external: a notification arrives exactly when LISTEN is in
force. A lost listener connection or a panic restarts the Node; Close comes after
every session's context was cancelled, as `shutdown` does it. `deaf`, `overlap`,
`missed` and `overtaken` are history: they name the windows in which a wake-up or a
row can be missed (a Notify or LISTEN that was lost, a Subscribe beside another's
LISTEN or UNLISTEN, the rows the last read failed to fetch, the rows committed after
the session had read a higher id), and the properties say there are no others.

**`Keypair`** runs any mix of `Resolve` (serve, pubkey, address) and `genkey` on one
directory, Generate step by step (temporary file, write, sync, close, link, deferred
removal), with I/O errors and kills anywhere. A key is the name of the process that
drew it. A power loss turns an unsynced file into garbage and may take a directory
entry that was not written back.

**`HostilePipe`** models the Hostile Relay's Engine for one device: the rule table with
its exact and wildcard entries, the control commands, and each pipe's loop (drop,
corrupt, duplicate, reorder, inject, replay, flush). The sending of one Blob is a step.

**`Frame`**, **`EnvelopeRecipient`** and **`Config`** are pure: the code's functions as
operators, beside a reference definition in other terms (a frame without word
arithmetic; protobuf as a grammar read without a cursor; the ranges and the
operator's words). Widths are parameters (digits per length, bits per varint group,
bytes per key), so that short inputs reach the wrap, the overlong varint and the
edge of the buffer; the inputs are constants too (`Raws`, `Bodies`, `Envelopes`,
`Inputs`), which a run fills with all short ones. **`Digits`** is the positional
notation both parsers read numbers with. `PushSession` extends the two parsers and
states what they promise where it uses them, `Server` the configuration it starts
with. `Walk` is the parser's loop: the positions after the recipient keys it finds,
with 0 among them once it refuses; as positions differ, their number is `found`.

`MC*` modules hold the instances, `*Proofs` modules the theorems. `RateLimiter` and
`Keypair` are proved about together with another module, so their Init, Next and
TypeOK carry a prefix (`LimiterInit`, `KeyNext`).

## Runs

| Run | Checks | Bounds |
|---|---|---|
| `relay_durable` | AckedKept, CursorSkipsNothing, QuotaKept, OncePerSession, KeepsPromises | 2 devices (one dishonest), 1 session slot, 2 pushers (symmetric), 3 messages (good, mismatched, short), quota of 2 Blobs / 2 bytes, 3 rows, 1 crash, clock 0..1 with TTL 1, lossy Notify, failing PeekAfter |
| `relay_live` | NoLostWakeup, SlotsExact, EventuallyDelivered | 2 sessions of one device, cap 1, 1 pusher, 2 rows, deliverCh 1 |
| `notifier` | RegistryExact, UndisturbedNotifyReachesAll, CancelledChannelCloses | 3 subscriptions, 1 Notify |
| `notifier_missed` | violation, below | 3 subscriptions, 1 Notify |
| `limiter` | PushBound, ForgettingIsInvisible | 3 keys, soft cap 1, so that sweeps happen |
| `receive` | BlobsInOrder, TearsDown, StalledClientFreed | queues of 1, 3 Blobs, 2 client frames |
| `push` | AnswersAlign, CutStaysSilent, ShutdownFrees, FramesRoundTrip, RecipientExact | 4 pipelined frames, a network that holds 1 answer; 4-bit lengths and all frames of up to 3 digits after the header; all envelopes of up to 5 bytes over 6 byte values, and those of 6 that start with a recipient's tag |
| `frame_wraps` | violation, below | the instance of `push` |
| `server` | SlotsCounted, PushNotCutEarly, StoreClosesLast, ShutdownReturns, ConfigSound | 3 connections of either kind, cap 1, Accept may fail; one knob of each kind, every file and variable value class |
| `pg_store` | OvershootBounded, SkipsOnlyOvertaken, WokenWhileListening, ListeningWhenSerial, CommandsAnswered | 2 subscriptions and 2 pushers of one key, cmdCh 1, quota 1, 2 ids, failing LISTEN, failing reads, restarts (1.0 million states) |
| `start` | VersionNamesSchema, MigrationsFit, RowsSurvive; OneKey, NoWedge, KeyFileKept | store: versions 1..3, 8 release kinds, 4 starts, 2 ids, every initial file; key: 3 processes (symmetric), 1 power loss, every initial file. The two share nothing, so each behaviour is about one of them |
| `hostile` | HonestUnlessTold, BlobsAccounted, TearsDown | 1 pipe, 3 Blobs, 2 commands, 5 rule sets, queues of 1, history of 2 |

Each module's TypeOK is a conjunct of its first invariant above; `Relay`'s and
`RateLimiter`'s are proved instead. In `relay_durable` the quota and the failing
store are on together; `relay_live` switches both off, since a Blob that PeekAfter
failed to return, or that a lossy Notify did not announce, waits for the next event.
One pipe is enough for `hostile` because pipes share only the rule table; a command
that finds a later pipe's queue full is the same step as with one pipe.

Bounds are small because each mechanism needs few actors to fail: a reused id
needs two rows and a deletion, a lost wake-up one session and one push, a shifted
slice three subscribers, a shrunk semaphore one connection over the cap. Queues of
one are full at once, so every blocking send blocks in some state. What the
small numbers could hide, the proofs cover for every safety property. Deadlock is
not checked: the models may stop at their bounds, and a session, a subscription or
a process that ended really stops.

Each property has a mutant (`Bug_...` beside the definition it replaces, listed in
`PROJECT.json`): the kind of slip that code invites, under which TLC finds the
property violated.

### Fairness

- `Relay`: weak fairness of a session's own goroutines and of Notify (the Go
  scheduler runs what can run), and of "deliver or cancel" while a Blob is on
  `deliverCh`: a device that does not read runs into the write deadline, which
  cancels the session. Nothing is assumed of pushers, crashes, the Reaper or the clock.
- `InProcessNotifier`: weak fairness of each unsubscribe goroutine. Weak is enough
  for the mutex because each subscription is made once, so it is taken a bounded
  number of times (sync.Mutex itself hands over to a starving waiter).
- `ReceiveSession`, `PushSession`: weak fairness of each goroutine; the handshake
  and write deadlines fire. Not of the client, of shutdown, of the idle deadline or
  of the Push Session's deadline. Store calls return.
- `PgStore`: weak fairness of listenLoop (its 50 ms wait times out, Postgres answers)
  and of the subscription goroutines. Nothing of pushers, devices or Close.
- `HostilePipe`: weak fairness of the pipe's goroutine; while p.out is full and the
  context lives, the session takes from it or its write deadline ends the context.
  Nothing of the Router, of commands, or of the session after its context ended.
- `Server`: weak fairness of shutdown (its timers fire) and of the accept loops.
  Clients, store calls and Reaper passes may take for ever.

### Two disagreements found

`notifier_missed`: a removal shifts the shared array under a Notify walk; a live
subscriber gets no signal, and its Blob waits for the next push or reconnect, while
`notifier.go:22` says "Notify signals all active subscribers for recipientKey."

`frame_wraps`: `Parse` compares `uint32(len(raw)) < 5+l` in 32 bits. For the five
highest lengths the sum wraps below 5, the comparison passes and `raw[5 : 5+l]`
panics, while `frame.go:79` says "ok is false if raw is malformed or the type is
unknown." MalformedRefused states the comment. Comparing `l` with `len(raw)-5` would
keep it. FramesRoundTrip is about all other lengths, and the lemma `ParseExact` of
`PushProofs` shows that these five are the only ones on which Parse panics.

More observations from reading the code, without a run of their own:

- the Postgres Notifier queues UNLISTEN after it released the lock; a Subscribe in
  between queues LISTEN first, and ends up with no LISTEN in force until it
  reconnects, although `postgres/store.go:230` promises "a signal whenever a blob
  arrives for this key". `PgStore`'s history variable `overlap` marks that window,
  and ListeningWhenSerial says there is no other;
- `inbox_store.go:54` says of every backend that "concurrent pushes cannot both pass
  the check and overshoot the quota", and `router.go:214` repeats it; the Postgres
  adapter admits that two pushes can race past the probe (`postgres/store.go:103`).
  QuotaKept shows the first for SQLite, OvershootBounded how far the second goes;
- Generate syncs the file but not its directory: a power loss after the link can take
  the name, and the next start draws another key than the one already printed.
  OneKey and KeyFileKept allow exactly this;
- `Load` decodes the file twice, so a rewrite in between mixes two versions of it;
  ConfigSound holds with any pair;
- the hostile pipe keeps held Blobs across a cleared rule (they leave at the next full
  window or at the flush), and does not flush when its context ends, though the
  comment on ReorderWindow says "Held blobs flush in reverse order when the session
  ends"; the Blobs stay in the Inbox, un-acked. An upper-case hex selector is
  accepted but never matches, and an inject that fails may have reached some of the
  device's sessions;
- a Store Reset restarts ids at 1: an ack a device kept from before a reset can name a
  new Blob. RowsSurvive says that nothing else takes the counter back;
- a Notify walk (and the Postgres loop's copy) may send on a channel its
  unsubscribe goroutine has just closed, which panics; both models have the step;
- `acceptLoop` returns on any Accept error, not only "until the listener is closed"
  (`server.go:155`); `Server` has the step, and the properties hold with it;
- a bucket is evicted after 10 idle minutes whatever it holds, so the comment's
  "indistinguishable from a fresh one" (`limits.go:35`) needs
  burst <= rate * bucketIdleTTL, which configuration does not enforce. It is the
  assumption `Refills` of the limiter's proofs;
- the Router's delivery goroutines are in no WaitGroup, so shutdown can return, and
  the store close, before they end; their PeekAfter then fails and the error is
  dropped;
- `-reset-store` on a declared release also resets an empty or adoptable store, as
  `version.go:183` says and `store.go:56` denies;
- `Close` of the Postgres store closes the listener connection itself, although
  listenLoop's comment makes the loop its sole owner; goroutines then waiting for an
  answer wait for ever.

Five hazards are ones the code does not prevent, and the properties near them except
what follows, so that they show there is nothing else but would not themselves report
the hazard: a send on a closed channel in the in-process Notifier
(CancelledChannelCloses ends at the panic) and in listenLoop (the restart clears every
session), a Subscribe that overlaps another's LISTEN or UNLISTEN (ListeningWhenSerial
and WokenWhileListening except it), and a key whose directory entry a power loss took
(OneKey, KeyFileKept). Their entries under `hazards` say so.

`Relay`'s `LossyNotify` gives the effect of `notifier_missed` to the core: AckedKept,
CursorSkipsNothing, OncePerSession and KeepsPromises hold with it (it delays delivery, it loses
nothing), NoLostWakeup and EventuallyDelivered need it off.

## Proofs

Eight modules hold the theorems; some are about two modules, or about a module and the
parsers it uses. They hold for all values of the constants that the module's ASSUME
allows: finite sets where something is counted, natural numbers for limits, and names
that differ. Every invariant and every action property of the passing runs is the
subject of one of them.

| Module | Assumes | Theorems (and the property of a run each states) |
|---|---|---|
| `RelayProofs` | `RelayAssumption`, `FiniteSlots` | TypeCorrect, CoreInvariant, Durability (AckedKept), NothingSkipped (CursorSkipsNothing), SentOnce (OncePerSession), WakeupKept (NoLostWakeup), SlotsNeverLeak (SlotsExact), QuotaNeverExceeded (QuotaKept), Refinement (KeepsPromises) |
| `NotifierProofs` | finitely many subscriptions | NotifierInvariant, RegistryNeverWrong (RegistryExact), UndisturbedReachesAll (UndisturbedNotifyReachesAll) |
| `ReceiveProofs` | positive capacities | ReceiveInOrder (BlobsInOrder) |
| `PushProofs` | NetCap > 0; `FrameAssumption`; `EnvelopeAssumption` | PushInvariant, Aligned (AnswersAlign), CutSilent (CutStaysSilent), CodecExact, FramesExact (FramesRoundTrip), RecipientFound, RecipientsExact (RecipientExact) |
| `ServerProofs` | finitely many connections; `ConfigAssumption`; sizes of the limiter are natural; `Refills` where named | ServerInvariant, SlotsNeverLeak (SlotsCounted), DrainRespected (PushNotCutEarly), StoreLast (StoreClosesLast), LoadIsSound, ServedInRange (ConfigSound), LimiterTypeCorrect, ForgettingInvisible (ForgettingIsInvisible), PushBounded (PushBound) |
| `StartProofs` | releases well-formed; the special names of the key files differ from each other and from the processes | StoreInvariant, VersionTrue (VersionNamesSchema), StepsFit (MigrationsFit), OnlyResetDrops (RowsSurvive), KeyInvariant, OneKeyForAll (OneKey), NeverWedged (NoWedge), FileKept (KeyFileKept) |
| `PgStoreProofs` | finitely many subscriptions and pushers, CmdCap and MaxBlobs > 0 | PgInvariant, QuotaOvershoot (OvershootBounded), OnlyLateSkipped (SkipsOnlyOvertaken), NoWakeLost (WokenWhileListening), SerialListening (ListeningWhenSerial) |
| `HostilePipeProofs` | the ASSUME of HostilePipe | AccountInvariant, Accounted (BlobsAccounted), HonestInvariant, HonestDelivery (HonestUnlessTold) |

Each safety theorem follows from an inductive invariant stated at the end of the
module it is about, which TLC found true on the run's instance first. None of the
properties is inductive alone.

**`Relay`**, `CoreInv`:

- *Ledger*: every row in a snapshot, on a channel or received was committed and
  belongs to that device; two committed rows never share an id; an honest device's
  row leaves the Inbox only once received or expired. Without unique ids a late ack
  of an old Blob would delete a new one, and AckedKept alone is not inductive.
- *Receipts*: a push past Put has a committed row with its message, which the Ack
  turns into AckedKept's first half.
- *Cursor*: all that was sent is at or below lastID, what is left of the snapshot is
  above it, and an Inbox row above lastID outside the snapshot is newer than the
  whole snapshot. This is what makes advancing lastID row by row skip nothing.
- *Announced*: while a session delivers it is subscribed, and a row it will not see
  by itself has a signal pending or a push about to notify. In the `send` stage this
  is about rows committed after the snapshot; NoLostWakeup is only its `wait` part.

SlotsExact needs counting: the finite-set cardinality theorems for one session
joining or leaving the holders of its device. So does QuotaKept: the bytes of an
Inbox (`SUM(LENGTH(envelope))`) are the number of its (row, position) pairs, and one
more row adds exactly its size. KeepsPromises takes each action of `Relay`, a crash
too, to a `Mailbox` step or a stutter; Ledger and Receipts give the guards of
Mailbox's actions.

**`RateLimiter`**: a bucket that a sweep may drop is full once topped up, so mapping
"not in the map" to "full" makes the sweep a stuttering step. That is true under
`Refills` (burst <= rate * bucketIdleTTL), which is therefore a hypothesis of
ForgettingInvisible and PushBounded.

**`InProcessNotifier`**, `NotifierInv`: RegistryExact says nothing while the mutex is
held. *ListExact* does: during a removal the list is the array without the slot
written next, and it holds each registered channel once at every step of the copy.
*HeadersCover*: every header, a stale one in a Notify too, covers slots of an array
that still exists and that hold channels, so an unlocked read never finds an empty
slot. *WalkSteady*: until a removal disturbs it, a walk's array prefix is the list it
found, as Subscribe writes behind every copied header of the same array or into a new
array.

**`PushSession`**, `PushInv`: frames read plus frames waiting are the frames sent;
answers are level with frames read while a write can still succeed, and once one was
lost none follows (*AnswersCounted*, the part that makes a failed Error frame
harmless); what the frame in hand will be answered is what the store did with it.

**`Frame`**, for every base and width: the provers have no induction over data, but they
can use that a set of naturals has a least element (`WFMin`), and `NatSet` turns this
into induction in set form. With it the recursive function of `FromDigits` is shown to
exist, then digit by digit that reading back what `PutBE` wrote gives the number modulo
the word. `PowerLaw` says what `^` means, of which the provers know nothing. `FrameSizes`
bounds the length of a raw frame by a word: a transport message has a two-byte length.

**`EnvelopeRecipient`**, for every byte string and every size: `ReadSpan` says that
readVarint finds the one varint at a position or refuses, `HeadRead` and `FieldRead` that
a slice is a field of the grammar exactly when `FieldEnd` is its end, with the same
recipients and the same key lengths. A run of fields is its first field and a run of the
rest (`RunCons`); `WalkRuns` then goes from the end of the bytes to their start. From
every offset on, the walk goes through exactly when the rest is a run of fields whose
recipients hold a key, and it finds those recipients. A consequence is that no byte
string can be cut into fields in two ways that name different recipients.

**`ReceiveSession`**, `SessionInv`: the Blobs on their way are one chain. Those the
client has, those on the network, in the writer's hands, in its queue, with the deliver
goroutine and in deliverCh follow each other without a gap (*Chain*), whatever echoes and
Error frames stand between them, and what a goroutine holds is what its stage says
(*HandsKept*). BlobsInOrder is only the part of the chain the client sees.

**`HostilePipe`**, `AccountInv`: what a drop rule withheld is nowhere, the history that
replays draw from included; without that part a later replay could break the property.
`HonestInv`: before the first command no rule binds the device, nothing is queued or
held, and a pipe has sent all it read but the Blob in its hand, or the one that the end of
its context took out of it.

**`Config`**: LoadSound is about one Load of any two readings of the file and any
environment, so it needs no invariant: each knob is followed from its sources through
the defaults and checks to the value served.

**`Server`**, `ServerInv`: the WaitGroups count what the properties quantify over
(*GroupsExact*), a connection is between Accept and Admit only in the hands of its
loop, and *ShutdownOrder* says what each stage of `shutdown` has behind it: loops
ended before the wait for pushes began, so no session can join a group already waited
for.

**`StoreVersion`**, `StoreInv`: while a transaction is open, the statements left are
one of five shapes, each of which brings `tx` to version = schema = target (*Pending*);
a chain of migrations starts at the table's schema and has no gaps.

**`PgStore`**, `PgInv`: *RegistryExact*, *CommandsKnown* (a command in cmdCh is its
goroutine's only one), *IdsUnused* (an id waiting for its COMMIT is nobody else's and
no session has read it, without which a skipped Blob might not be an overtaken one),
*CursorsBehind* (what is read and not yet sent lies beyond the cursor, and nothing is
in hand but while sending), *Hearing*, and *Serial*: without overlap whoever waits for
an answer is alone, and LISTEN is in force from the first answer to the last removal.
SkipsOnlyOvertaken compares a row with the highest id the session has *read*: a row
may commit between a read and the sends that move the cursor past it, and such a row
was overtaken by the read, not by a delivery.

**`Keypair`**, `KeyInv`: *WholeFile* (a file that can be linked is whole and synced),
*Flag* (generated is set for the key at the path and for those a power loss took, and
nobody who lost a key still runs) and *Progress* (where a process stands in Generate
decides what it may report).

### Only model-checked

All liveness: EventuallyDelivered, CancelledChannelCloses, TearsDown (both),
StalledClientFreed, ShutdownFrees, ShutdownReturns, CommandsAnswered. Fairness is
out of the prover's reach.

## Not modelled

- Session error log: a rate limit on log lines; it changes what is printed and
  nothing else.
- Health endpoint: one bounded read of the store per request, no state. Its stop is a
  step of `Server`.
- Logging, test vectors: output and test data.
- The hostile control listener's accept and close: they touch none of the Engine's
  state.
- Noise cryptography, TOML and JSON syntax, HTTP, Docker files.
- `Truncate` and `Ping` of the stores: a test helper, and a read.

Every other part of the relay has a module, and every safety property of a passing run
a theorem.
