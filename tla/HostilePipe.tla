---------------------------- MODULE HostilePipe ----------------------------
(***************************************************************************)
(* internal/hostile: the Hostile Relay's Engine for one Device, its pipes  *)
(* (one per wrapped Receive Session, between the Router's deliverCh and    *)
(* the session), and a control connection's commands. Only a hostile build *)
(* has it.                                                                 *)
(*                                                                         *)
(* A Blob is its id and whether its bytes are the stored ones. The sending *)
(* of one Blob is one step, so a command, a rule change, the end of the    *)
(* context or the close of deliverCh falls between any two. JSON, hex and  *)
(* selectors that are refused are left out.                                *)
(***************************************************************************)
EXTENDS Integers, Sequences, SequencesExt

CONSTANTS Pipes,                  \* wrapped Receive Sessions of the device
          RuleSet,                \* what a set command may install
          InCap, OutCap, InjectCap, ReplayCap,   \* capacities of the channels
          HistoryCap,
          MaxBlobs, MaxCommands   \* bounds: Blobs routed per session, commands

Rules == [drop : BOOLEAN, corrupt : BOOLEAN, duplicate : BOOLEAN, window : Nat]
Honest == [drop |-> FALSE, corrupt |-> FALSE, duplicate |-> FALSE, window |-> 0]

ASSUME HostileAssumption ==
    /\ RuleSet \subseteq Rules /\ MaxBlobs \in Nat /\ MaxCommands \in Nat
    /\ {InCap, OutCap, InjectCap, ReplayCap, HistoryCap} \subseteq Nat \ {0}

\* The range of injected ids starts beyond every stored one.
SyntheticBase == MaxBlobs

VARIABLES
    rules,                  \* e.rules: at "exact", the device's own, and at "*"
    sessions,               \* e.sessions[key]
    control, commands,      \* the command being carried out; how many there were
    loop,                   \* each pipe: new, select, send, flush, leave, closed
    todo,                   \* Blobs still to send, and whether history takes them
    held, history,
    injectCh, replayCh,     \* queued Blobs; queued counts, 0 for replayAll's one slot
    fed, read, inClosed,    \* deliverCh: put in, taken out, closed
    out, taken,             \* all ever put on p.out; how many the session took
    ctxDone,
    withheld, told          \* history: ids a drop rule withheld; whether the control
                            \* surface ever asked for anything but honest delivery

engine == <<rules, sessions, control, commands>>
source == <<fed, read, inClosed>>
sink == <<out, taken>>
queues == <<injectCh, replayCh>>
vars == <<engine, loop, todo, held, history, queues, source, sink, ctxDone, withheld, told>>

Stored(i) == [id |-> i, bytes |-> "stored"]
Corrupted(b) == [b EXCEPT !.bytes = "flipped"]
Injected(n) == [id |-> SyntheticBase + n, bytes |-> "injected"]
Ids(blobs) == {blobs[i].id : i \in DOMAIN blobs}
Idle == [op |-> "idle"]
Room(p) == Len(out[p]) - taken[p] < OutCap

Blob == [id : Nat, bytes : {"stored", "flipped", "injected"}]
Sendable == [blob : Blob, record : BOOLEAN]
Commands == [op : {"inject"}, blob : Blob, left : SUBSET Pipes]
              \cup [op : {"replay"}, count : 0 .. 1, left : SUBSET Pipes]

TypeOK ==
    /\ DOMAIN rules \subseteq {"exact", "*"} /\ \A r \in DOMAIN rules : rules[r] \in Rules
    /\ sessions \subseteq Pipes /\ control \in {Idle} \cup Commands
    /\ commands \in 0 .. MaxCommands /\ told \in BOOLEAN
    /\ loop \in [Pipes -> {"new", "select", "send", "flush", "leave", "closed"}]
    /\ todo \in [Pipes -> Seq(Sendable)]
    /\ held \in [Pipes -> Seq(Blob)] /\ history \in [Pipes -> Seq(Blob)]
    /\ injectCh \in [Pipes -> Seq(Blob)] /\ replayCh \in [Pipes -> Seq(0 .. 1)]
    /\ fed \in [Pipes -> Nat] /\ read \in [Pipes -> Nat] /\ inClosed \in [Pipes -> BOOLEAN]
    /\ out \in [Pipes -> Seq(Blob)] /\ taken \in [Pipes -> Nat]
    /\ ctxDone \in [Pipes -> BOOLEAN] /\ withheld \in [Pipes -> SUBSET Nat]
    /\ \A p \in Pipes :
        /\ read[p] <= fed[p] /\ fed[p] <= MaxBlobs
        /\ taken[p] <= Len(out[p]) /\ Len(out[p]) <= taken[p] + OutCap
        /\ Len(history[p]) <= HistoryCap /\ Len(injectCh[p]) <= InjectCap

Init ==
    /\ rules = [s \in {} |-> Honest] /\ sessions = {}
    /\ control = Idle /\ commands = 0
    /\ loop = [p \in Pipes |-> "new"]
    /\ todo = [p \in Pipes |-> <<>>] /\ held = [p \in Pipes |-> <<>>]
    /\ history = [p \in Pipes |-> <<>>] /\ injectCh = [p \in Pipes |-> <<>>]
    /\ replayCh = [p \in Pipes |-> <<>>] /\ fed = [p \in Pipes |-> 0]
    /\ read = [p \in Pipes |-> 0] /\ inClosed = [p \in Pipes |-> FALSE]
    /\ out = [p \in Pipes |-> <<>>] /\ taken = [p \in Pipes |-> 0]
    /\ ctxDone = [p \in Pipes |-> FALSE]
    /\ withheld = [p \in Pipes |-> {}] /\ told = FALSE

-----------------------------------------------------------------------------
(* The control surface.                                                    *)

\* What the device is entitled to under a rule table.
Entitled(table) == IF "exact" \in DOMAIN table THEN table["exact"]
                   ELSE IF "*" \in DOMAIN table THEN table["*"] ELSE Honest

\* Mutant: the wildcard wins.
Bug_rulesFor == IF "*" \in DOMAIN rules THEN rules["*"]
                ELSE IF "exact" \in DOMAIN rules THEN rules["exact"] ELSE Honest
rulesFor == IF "exact" \in DOMAIN rules THEN rules["exact"]
            ELSE IF "*" \in DOMAIN rules THEN rules["*"] ELSE Honest

pipesFrame == <<sessions, loop, todo, held, history, source, sink, ctxDone, withheld>>
Command == control = Idle /\ commands < MaxCommands /\ commands' = commands + 1

SetRules(s, r) ==
    /\ Command
    /\ rules' = [t \in DOMAIN rules \cup {s} |-> IF t = s THEN r ELSE rules[t]]
    /\ told' = (told \/ Entitled(rules') # Honest)
    /\ UNCHANGED <<control, queues, pipesFrame>>

ClearRules(s) ==
    /\ Command
    /\ rules' = [t \in DOMAIN rules \ {s} |-> rules[t]]
    /\ told' = (told \/ Entitled(rules') # Honest)
    /\ UNCHANGED <<control, queues, pipesFrame>>

\* The live pipes are copied under the lock; with none the command is refused.
Copied(c) == control' = IF sessions = {} THEN Idle ELSE c

Inject ==
    /\ Command /\ told' = TRUE
    /\ Copied([op |-> "inject", blob |-> Injected(commands'), left |-> sessions])
    /\ UNCHANGED <<rules, queues, pipesFrame>>

\* count 0 replays everything.
Replay(count) ==
    /\ Command /\ told' = TRUE
    /\ Copied([op |-> "replay", count |-> count, left |-> sessions])
    /\ UNCHANGED <<rules, queues, pipesFrame>>

\* One pipe after the other, in map order, each without waiting; the last
\* answers the command.
Served(p) ==
    LET left == control.left \ {p}
    IN  control' = IF left = {} THEN Idle ELSE [control EXCEPT !.left = left]

InjectInto(p) ==
    /\ control.op = "inject" /\ p \in control.left /\ Len(injectCh[p]) < InjectCap
    /\ injectCh' = [injectCh EXCEPT ![p] = Append(@, control.blob)]
    /\ Served(p)
    /\ UNCHANGED <<rules, commands, replayCh, pipesFrame, told>>

Counts(p) == SelectSeq(replayCh[p], LAMBDA n : n > 0)
\* replayAll has one slot, and a command that finds it taken is merged with it.
ReplayInto(p) ==
    /\ control.op = "replay" /\ p \in control.left
    /\ IF control.count = 0
       THEN replayCh' = [replayCh EXCEPT ![p] = IF Contains(@, 0) THEN @ ELSE Append(@, 0)]
       ELSE /\ Len(Counts(p)) < ReplayCap
            /\ replayCh' = [replayCh EXCEPT ![p] = Append(@, control.count)]
    /\ Served(p)
    /\ UNCHANGED <<rules, commands, injectCh, pipesFrame, told>>

\* A full queue ends the command with an error; pipes served before keep theirs.
QueueFull(p) ==
    /\ control # Idle /\ p \in control.left
    /\ \/ control.op = "inject" /\ Len(injectCh[p]) = InjectCap
       \/ control.op = "replay" /\ control.count > 0 /\ Len(Counts(p)) = ReplayCap
    /\ control' = Idle
    /\ UNCHANGED <<rules, commands, queues, pipesFrame, told>>

ControlNext ==
    \/ \E s \in {"exact", "*"} : ClearRules(s) \/ \E r \in RuleSet : SetRules(s, r)
    \/ Inject \/ \E n \in 0 .. 1 : Replay(n)
    \/ \E p \in Pipes : InjectInto(p) \/ ReplayInto(p) \/ QueueFull(p)

-----------------------------------------------------------------------------
(* A pipe: WrapSession, then run, emit, send and replay.                   *)

Goto(p, s) == loop' = [loop EXCEPT ![p] = s]
pipeFrame == <<rules, control, commands, told>>

WrapSession(p) ==
    /\ loop[p] = "new" /\ Goto(p, "select")
    /\ sessions' = sessions \cup {p}
    /\ UNCHANGED <<pipeFrame, todo, held, history, queues, source, sink, ctxDone, withheld>>

Recorded(blobs) == [i \in DOMAIN blobs |-> [blob |-> blobs[i], record |-> TRUE]]
Repeated(blobs) == [i \in DOMAIN blobs |-> [blob |-> blobs[i], record |-> FALSE]]

\* One Blob of emit's list: sent, or held until the window is full.
Place(r, s, b) ==
    LET window == Append(s.held, b)
    IN  IF r.window <= 1 THEN [s EXCEPT !.send = Append(@, b)]
        ELSE IF Len(window) < r.window THEN [s EXCEPT !.held = window]
        ELSE [held |-> <<>>, send |-> s.send \o Reverse(window)]

\* drop, corrupt, duplicate, reorder, in this order.
Emit(r, h, b) ==
    LET c == IF r.corrupt THEN Corrupted(b) ELSE b
        once == Place(r, [held |-> h, send |-> <<>>], c)
    IN  IF r.drop THEN [held |-> h, send |-> <<>>]
        ELSE IF r.duplicate THEN Place(r, once, c) ELSE once

Sending(p) == Goto(p, IF todo'[p] = <<>> THEN "select" ELSE "send")

\* A Blob from the Router goes through the rules of this moment.
ReadIn(p) ==
    LET b == Stored(read[p] + 1)
        e == Emit(rulesFor, held[p], b)
    IN  /\ loop[p] = "select" /\ read[p] < fed[p]
        /\ read' = [read EXCEPT ![p] = @ + 1]
        /\ held' = [held EXCEPT ![p] = e.held]
        /\ todo' = [todo EXCEPT ![p] = Recorded(e.send)]
        /\ withheld' = [withheld EXCEPT ![p] = @ \cup (IF rulesFor.drop THEN {b.id} ELSE {})]
        /\ Sending(p)
        /\ UNCHANGED <<pipeFrame, sessions, history, queues, fed, inClosed, sink, ctxDone>>

\* deliverCh is closed and empty: the window is flushed. Mutant: it is not.
Bug_Flush(p) ==
    /\ loop[p] = "select" /\ inClosed[p] /\ read[p] = fed[p]
    /\ Goto(p, "leave")
    /\ UNCHANGED <<pipeFrame, sessions, todo, held, history, queues, source, sink, ctxDone,
                   withheld>>
Flush(p) ==
    /\ loop[p] = "select" /\ inClosed[p] /\ read[p] = fed[p]
    /\ todo' = [todo EXCEPT ![p] = Recorded(Reverse(held[p]))]
    /\ held' = [held EXCEPT ![p] = <<>>]
    /\ Goto(p, "flush")
    /\ UNCHANGED <<pipeFrame, sessions, history, queues, source, sink, ctxDone, withheld>>

\* Injected Blobs bypass the rules.
ReadInject(p) ==
    /\ loop[p] = "select" /\ injectCh[p] # <<>>
    /\ injectCh' = [injectCh EXCEPT ![p] = Tail(@)]
    /\ todo' = [todo EXCEPT ![p] = Recorded(<<Head(injectCh[p])>>)]
    /\ Sending(p)
    /\ UNCHANGED <<pipeFrame, sessions, held, history, replayCh, source, sink, ctxDone,
                   withheld>>

\* replayCh and replayAll are two channels: either goes first.
ReadReplay(p) ==
    /\ loop[p] = "select"
    /\ \E k \in DOMAIN replayCh[p] :
        LET n == replayCh[p][k]
            all == Len(history[p])
        IN  /\ n > 0 => \A j \in 1 .. (k - 1) : replayCh[p][j] = 0
            /\ replayCh' = [replayCh EXCEPT ![p] = RemoveAt(@, k)]
            /\ todo' = [todo EXCEPT ![p] =
                   Repeated(SubSeq(history[p], IF n > 0 /\ all > n THEN all - n + 1 ELSE 1, all))]
    /\ Sending(p)
    /\ UNCHANGED <<pipeFrame, sessions, held, history, injectCh, source, sink, ctxDone,
                   withheld>>

Remember(h, b) == LET a == Append(h, b)
                  IN  SubSeq(a, IF Len(a) > HistoryCap THEN Len(a) - HistoryCap + 1 ELSE 1, Len(a))

Send(p) ==
    /\ loop[p] \in {"send", "flush"} /\ todo[p] # <<>> /\ Room(p)
    /\ LET x == Head(todo[p])
       IN  /\ out' = [out EXCEPT ![p] = Append(@, x.blob)]
           /\ history' = [history EXCEPT ![p] = IF x.record THEN Remember(@, x.blob) ELSE @]
    /\ todo' = [todo EXCEPT ![p] = Tail(@)]
    /\ IF loop[p] = "send" THEN Sending(p) ELSE UNCHANGED loop
    /\ UNCHANGED <<pipeFrame, sessions, held, queues, source, taken, ctxDone, withheld>>

\* ctx.Done in a send ends run; the flush goes on with its next Blob. Mutant:
\* sends wait for room only.
Bug_SendGivesUp(p) == FALSE /\ UNCHANGED vars
SendGivesUp(p) ==
    /\ loop[p] \in {"send", "flush"} /\ todo[p] # <<>> /\ ctxDone[p]
    /\ IF loop[p] = "send"
       THEN todo' = [todo EXCEPT ![p] = <<>>] /\ Goto(p, "leave")
       ELSE todo' = [todo EXCEPT ![p] = Tail(@)] /\ UNCHANGED loop
    /\ UNCHANGED <<pipeFrame, sessions, held, history, queues, source, sink, ctxDone, withheld>>

\* ctx.Done in run's select, or the flush is over.
Return(p) ==
    /\ \/ loop[p] = "select" /\ ctxDone[p]
       \/ loop[p] = "flush" /\ todo[p] = <<>>
    /\ Goto(p, "leave")
    /\ UNCHANGED <<pipeFrame, sessions, todo, held, history, queues, source, sink, ctxDone,
                   withheld>>

\* The deferred function: out of the registry under the lock, then close(p.out).
Leave(p) ==
    /\ loop[p] = "leave" /\ Goto(p, "closed")
    /\ sessions' = sessions \ {p}
    /\ UNCHANGED <<pipeFrame, todo, held, history, queues, source, sink, ctxDone, withheld>>

PipeNext(p) ==
    \/ ReadIn(p) \/ Flush(p) \/ ReadInject(p) \/ ReadReplay(p)
    \/ Send(p) \/ SendGivesUp(p) \/ Return(p) \/ Leave(p)

-----------------------------------------------------------------------------
(* The Router before the pipe, the session after it.                       *)

Feed(p) ==
    /\ loop[p] # "new" /\ ~inClosed[p] /\ fed[p] < MaxBlobs /\ fed[p] - read[p] < InCap
    /\ fed' = [fed EXCEPT ![p] = @ + 1]
    /\ UNCHANGED <<engine, told, loop, todo, held, history, queues, read, inClosed, sink,
                   ctxDone, withheld>>

\* The delivery goroutine ends: its context did, or its subscription.
CloseIn(p) ==
    /\ loop[p] # "new" /\ ~inClosed[p] /\ inClosed' = [inClosed EXCEPT ![p] = TRUE]
    /\ UNCHANGED <<engine, told, loop, todo, held, history, queues, fed, read, sink, ctxDone,
                   withheld>>

Take(p) ==
    /\ taken[p] < Len(out[p]) /\ taken' = [taken EXCEPT ![p] = @ + 1]
    /\ UNCHANGED <<engine, told, loop, todo, held, history, queues, source, out, ctxDone,
                   withheld>>

Cancel(p) ==
    /\ loop[p] # "new" /\ ~ctxDone[p] /\ ctxDone' = [ctxDone EXCEPT ![p] = TRUE]
    /\ UNCHANGED <<engine, told, loop, todo, held, history, queues, source, sink, withheld>>

Next ==
    \/ ControlNext
    \/ \E p \in Pipes : \/ WrapSession(p) \/ PipeNext(p)
                        \/ Feed(p) \/ CloseIn(p) \/ Take(p) \/ Cancel(p)

Spec == Init /\ [][Next]_vars

\* The pipe's goroutine runs when it can. The session takes what is on p.out, or
\* its write deadline ends the context; after that it need not take anything.
Fairness ==
    \A p \in Pipes : /\ WF_vars(PipeNext(p))
                     /\ WF_vars(~ctxDone[p] /\ ~Room(p) /\ (Take(p) \/ Cancel(p)))
FairSpec == Spec /\ Fairness

-----------------------------------------------------------------------------
(* Properties.                                                             *)

Blobs(t) == [i \in DOMAIN t |-> t[i].blob]
Stream(n) == [i \in 1 .. n |-> Stored(i)]

\* Until the control surface asks this device for something else (an exact
\* honest entry shields it from the wildcard), the pipe is invisible: what
\* leaves is what came in, in order, byte for byte.
HonestUnlessTold ==
    ~told => \A p \in Pipes :
        /\ IsPrefix(out[p], Stream(read[p]))
        /\ ~ctxDone[p] => out[p] \o Blobs(todo[p]) = Stream(read[p])

\* "a held blob must not be silently lost" (run): while the context lives,
\* every Blob taken from the Router has been sent or is in hand, whatever rules
\* came and went in between, unless a drop rule withheld it; and a withheld Blob
\* is never seen by the client, not even by a later replay.
InHand(p) == IF loop[p] \in {"leave", "closed"} THEN {}
             ELSE Ids(held[p]) \cup Ids(Blobs(todo[p]))
BlobsAccounted ==
    /\ TypeOK
    /\ \A p \in Pipes :
        /\ ~ctxDone[p] => 1 .. read[p] \subseteq withheld[p] \cup Ids(out[p]) \cup InHand(p)
        /\ withheld[p] \cap (Ids(out[p]) \cup InHand(p)) = {}

\* The end of the context, or of the Router's channel, reaches the session: the
\* pipe closes p.out and leaves the registry, even with the session stalled.
TearsDown ==
    \A p \in Pipes : (ctxDone[p] \/ inClosed[p]) ~> (loop[p] = "closed" /\ p \notin sessions)

-----------------------------------------------------------------------------
(* The inductive invariant behind the two invariants above.                *)

\* The ids a pipe may have in hand: of Blobs it read and did not withhold, or
\* synthetic ones.
Synthetic == {n \in Nat : n > SyntheticBase}
Passed(p) == (1 .. read[p] \ withheld[p]) \cup Synthetic

\* Nothing withheld is anywhere, the history that replays draw from included, and
\* what the loop's stages leave empty.
PipeAccounts(p) ==
    /\ withheld[p] \subseteq 1 .. read[p]
    /\ Ids(out[p]) \subseteq Passed(p) /\ Ids(held[p]) \subseteq Passed(p)
    /\ Ids(Blobs(todo[p])) \subseteq Passed(p) /\ Ids(history[p]) \subseteq Passed(p)
    /\ Ids(injectCh[p]) \subseteq Synthetic
    /\ loop[p] \notin {"send", "flush"} => todo[p] = <<>>
    /\ loop[p] = "flush" => held[p] = <<>>
    /\ ~ctxDone[p] => 1 .. read[p] \subseteq withheld[p] \cup Ids(out[p]) \cup InHand(p)
AccountInv ==
    /\ TypeOK
    /\ control.op = "inject" => control.blob.id \in Synthetic
    /\ \A p \in Pipes : PipeAccounts(p)

\* Before the control surface asks for anything: no rule binds the device, nothing
\* is queued or held, and a pipe has sent all it read but the Blob in its hand,
\* or the one the end of the context took out of it.
HonestPipe(p) ==
    /\ injectCh[p] = <<>> /\ replayCh[p] = <<>> /\ held[p] = <<>>
    /\ \/ loop[p] # "send" /\ todo[p] = <<>> /\ out[p] = Stream(read[p])
       \/ /\ loop[p] = "send" /\ read[p] > 0 /\ out[p] = Stream(read[p] - 1)
          /\ todo[p] = <<[blob |-> Stored(read[p]), record |-> TRUE]>>
       \/ /\ loop[p] \in {"leave", "closed"} /\ ctxDone[p] /\ read[p] > 0
          /\ out[p] = Stream(read[p] - 1) /\ todo[p] = <<>>
HonestInv ==
    ~told => /\ Entitled(rules) = Honest /\ control = Idle
             /\ \A p \in Pipes : HonestPipe(p)
============================================================================
