------------------------------- MODULE Server -------------------------------
(***************************************************************************)
(* cmd/trueseal-relay/server.go: the two accept loops with their           *)
(* connection semaphores and WaitGroups, the session goroutines as the     *)
(* server sees them, the Reaper, and shutdown, down to the close of the    *)
(* store by main. The Router's delivery goroutine of a Receive Session is  *)
(* in no WaitGroup and not part of this module. main starts the server     *)
(* with what config.Load returned (Config).                                *)
(***************************************************************************)
EXTENDS Integers, FiniteSets, Config

CONSTANTS Conns,        \* connections, each dialled at most once
          MaxConns,     \* max_connections, 0 disables
          AcceptFaults  \* TRUE: Accept may fail on an open listener

ASSUME ServerAssumption ==
    /\ IsFiniteSet(Conns) /\ MaxConns \in Nat /\ AcceptFaults \in BOOLEAN

VARIABLES
    listener, loop,  \* per kind: the listener, the accept loop
    sem, wg,         \* per kind: slots taken, WaitGroup counter
    ctxDone,         \* per kind: the shutdown-scoped context
    conn, kind,      \* per connection: its stage and kind
    stage,           \* where shutdown is
    reaper, reaperStop, db,
    \* which of shutdown's timers fired: drain budget, hard grace, reaper wait
    fired

vars == <<listener, loop, sem, wg, ctxDone, conn, kind, stage,
          reaper, reaperStop, db, fired>>
accept == <<listener, loop>>
sessions == <<sem, wg, conn, kind>>
background == <<reaper, reaperStop, db>>

Kind == {"push", "recv"}
ConnStage == {"new", "queued", "lost", "held", "refused",
              "serving", "busy", "returned", "freed", "gone"}
\* In acceptFn; busy is inside a store call.
Serving == {"serving", "busy"}
OfKind(k, S) == {c \in Conns : kind[c] = k /\ conn[c] \in S}
Stage == {"up", "health", "closePush", "closeRecv", "acceptWait", "drain",
          "cutRecv", "cutPush", "grace", "stopReaper", "reaperWait",
          "closeStore", "down"}

TypeOK ==
    /\ listener \in [Kind -> {"open", "closed"}]
    /\ loop \in [Kind -> {"accept", "admit", "done"}]
    /\ sem \in [Kind -> Nat] /\ wg \in [Kind -> Nat]
    /\ ctxDone \in [Kind -> BOOLEAN]
    /\ conn \in [Conns -> ConnStage] /\ kind \in [Conns -> Kind \cup {"none"}]
    /\ \A c \in Conns : conn[c] # "new" => kind[c] \in Kind
    /\ stage \in Stage
    /\ reaper \in {"idle", "reaping", "done"} /\ reaperStop \in BOOLEAN
    /\ db \in {"open", "closed"}
    /\ fired \subseteq {"drain", "grace", "reaper"}

\* start: both listeners open, loops and Reaper running.
Init ==
    /\ listener = [k \in Kind |-> "open"] /\ loop = [k \in Kind |-> "accept"]
    /\ sem = [k \in Kind |-> 0] /\ wg = [k \in Kind |-> 0]
    /\ ctxDone = [k \in Kind |-> FALSE]
    /\ conn = [c \in Conns |-> "new"] /\ kind = [c \in Conns |-> "none"]
    /\ stage = "up"
    /\ reaper = "idle" /\ reaperStop = FALSE /\ db = "open"
    /\ fired = {}

Becomes(c, s) == conn' = [conn EXCEPT ![c] = s]
LoopAt(k, s) == loop' = [loop EXCEPT ![k] = s]

-----------------------------------------------------------------------------
(* acceptLoop.                                                             *)

Dial(c, k) ==
    /\ conn[c] = "new" /\ listener[k] = "open"
    /\ Becomes(c, "queued") /\ kind' = [kind EXCEPT ![c] = k]
    /\ UNCHANGED <<accept, sem, wg, ctxDone, stage, background, fired>>

Accept(k) ==
    /\ loop[k] = "accept" /\ listener[k] = "open"
    /\ \E c \in OfKind(k, {"queued"}) : Becomes(c, "held")
    /\ LoopAt(k, "admit")
    /\ UNCHANGED <<listener, sem, wg, ctxDone, kind, stage, background, fired>>

\* Any error ends the loop: a closed listener, or a failure such as running
\* out of file descriptors.
AcceptFails(k) ==
    /\ loop[k] = "accept" /\ (listener[k] = "closed" \/ AcceptFaults)
    /\ LoopAt(k, "done")
    /\ UNCHANGED <<listener, sessions, ctxDone, stage, background, fired>>

Full(k) == MaxConns > 0 /\ sem[k] >= MaxConns

\* Slot and WaitGroup are taken before the goroutine starts.
Admit(k) ==
    /\ loop[k] = "admit" /\ ~Full(k)
    /\ sem' = [sem EXCEPT ![k] = IF MaxConns = 0 THEN @ ELSE @ + 1]
    /\ wg' = [wg EXCEPT ![k] = @ + 1]
    /\ \E c \in OfKind(k, {"held"}) : Becomes(c, "serving")
    /\ LoopAt(k, "accept")
    /\ UNCHANGED <<listener, ctxDone, kind, stage, background, fired>>

\* At the cap the connection is closed. Mutants: the loop waits for a slot; the
\* refused connection gives back a slot it never took.
Bug_RefuseBlocks(k) == loop[k] = "admit" /\ Full(k) /\ UNCHANGED vars
Bug_RefuseFrees(k) ==
    /\ loop[k] = "admit" /\ Full(k)
    /\ \E c \in OfKind(k, {"held"}) : Becomes(c, "refused")
    /\ sem' = [sem EXCEPT ![k] = @ - 1]
    /\ LoopAt(k, "accept")
    /\ UNCHANGED <<listener, wg, ctxDone, kind, stage, background, fired>>
Refuse(k) ==
    /\ loop[k] = "admit" /\ Full(k)
    /\ \E c \in OfKind(k, {"held"}) : Becomes(c, "refused")
    /\ LoopAt(k, "accept")
    /\ UNCHANGED <<listener, sem, wg, ctxDone, kind, stage, background, fired>>

-----------------------------------------------------------------------------
(* A session goroutine. Clients keep a session open for as long as they    *)
(* like; a store call may take arbitrarily long.                           *)

StoreCall(c) ==
    /\ conn[c] = "serving" /\ Becomes(c, "busy")
    /\ UNCHANGED <<accept, sem, wg, ctxDone, kind, stage, background, fired>>

StoreReturns(c) ==
    /\ conn[c] = "busy" /\ Becomes(c, "serving")
    /\ UNCHANGED <<accept, sem, wg, ctxDone, kind, stage, background, fired>>

\* The client closed, a deadline passed, an error, or the context ended.
SessionEnds(c) ==
    /\ conn[c] = "serving" /\ Becomes(c, "returned")
    /\ UNCHANGED <<accept, sem, wg, ctxDone, kind, stage, background, fired>>

\* The defers: the slot, then the WaitGroup.
FreeSlot(c) ==
    /\ conn[c] = "returned" /\ Becomes(c, "freed")
    /\ sem' = [sem EXCEPT ![kind[c]] = IF MaxConns = 0 THEN @ ELSE @ - 1]
    /\ UNCHANGED <<accept, wg, ctxDone, kind, stage, background, fired>>

WaitGroupDone(c) ==
    /\ conn[c] = "freed" /\ Becomes(c, "gone")
    /\ wg' = [wg EXCEPT ![kind[c]] = @ - 1]
    /\ UNCHANGED <<accept, sem, ctxDone, kind, stage, background, fired>>

-----------------------------------------------------------------------------
(* Reaper.Run.                                                             *)

\* The select may take a tick after the cancellation too.
ReaperTick ==
    /\ reaper = "idle" /\ reaper' = "reaping"
    /\ UNCHANGED <<accept, sessions, ctxDone, stage, reaperStop, db, fired>>

ReaperSwept ==
    /\ reaper = "reaping" /\ reaper' = "idle"
    /\ UNCHANGED <<accept, sessions, ctxDone, stage, reaperStop, db, fired>>

ReaperExits ==
    /\ reaper = "idle" /\ reaperStop /\ reaper' = "done"
    /\ UNCHANGED <<accept, sessions, ctxDone, stage, reaperStop, db, fired>>

-----------------------------------------------------------------------------
(* shutdown, one action per step, then the deferred Close of main.         *)

From(s, t) == stage = s /\ stage' = t

\* SIGTERM: serve calls shutdown; the health endpoint stops first.
Signal ==
    /\ From("up", "health")
    /\ UNCHANGED <<accept, sessions, ctxDone, background, fired>>
StopHealth ==
    /\ From("health", "closePush")
    /\ UNCHANGED <<accept, sessions, ctxDone, background, fired>>

\* The kernel drops what is queued; a connection the loop holds stays.
CloseListener(k) ==
    /\ \/ k = "push" /\ From("closePush", "closeRecv")
       \/ k = "recv" /\ From("closeRecv", "acceptWait")
    /\ listener' = [listener EXCEPT ![k] = "closed"]
    /\ conn' = [c \in Conns |-> IF c \in OfKind(k, {"queued"}) THEN "lost" ELSE conn[c]]
    /\ UNCHANGED <<loop, sem, wg, ctxDone, kind, background, fired>>

\* acceptWG.Wait. Mutant: a closed listener is taken for an ended loop.
Bug_LoopsDone == \A k \in Kind : listener[k] = "closed"
LoopsDone == \A k \in Kind : loop[k] = "done"

AcceptWait ==
    /\ From("acceptWait", "drain") /\ LoopsDone
    /\ UNCHANGED <<accept, sessions, ctxDone, background, fired>>

\* select: pushWG.Wait returned, or the drain budget is spent.
Drained ==
    /\ From("drain", "cutRecv") /\ wg["push"] = 0
    /\ UNCHANGED <<accept, sessions, ctxDone, background, fired>>
DrainExpires ==
    /\ From("drain", "cutRecv") /\ fired' = fired \cup {"drain"}
    /\ UNCHANGED <<accept, sessions, ctxDone, background>>

CancelSessions(k) ==
    /\ \/ k = "recv" /\ From("cutRecv", "cutPush")
       \/ k = "push" /\ From("cutPush", "grace")
    /\ ctxDone' = [ctxDone EXCEPT ![k] = TRUE]
    /\ UNCHANGED <<accept, sessions, background, fired>>

\* recvWG.Wait then pushWG.Wait. Mutant: only Receive Sessions are awaited.
Bug_SessionsDone == wg["recv"] = 0
SessionsDone == wg["recv"] = 0 /\ wg["push"] = 0

AllStopped ==
    /\ From("grace", "stopReaper") /\ SessionsDone
    /\ UNCHANGED <<accept, sessions, ctxDone, background, fired>>
GraceExpires ==
    /\ From("grace", "stopReaper") /\ fired' = fired \cup {"grace"}
    /\ UNCHANGED <<accept, sessions, ctxDone, background>>

StopReaper ==
    /\ From("stopReaper", "reaperWait") /\ reaperStop' = TRUE
    /\ UNCHANGED <<accept, sessions, ctxDone, reaper, db, fired>>
ReaperStopped ==
    /\ From("reaperWait", "closeStore") /\ reaper = "done"
    /\ UNCHANGED <<accept, sessions, ctxDone, background, fired>>
ReaperExpires ==
    /\ From("reaperWait", "closeStore") /\ fired' = fired \cup {"reaper"}
    /\ UNCHANGED <<accept, sessions, ctxDone, background>>

CloseStore ==
    /\ From("closeStore", "down") /\ db' = "closed"
    /\ UNCHANGED <<accept, sessions, ctxDone, reaper, reaperStop, fired>>

LoopNext(k) == Accept(k) \/ AcceptFails(k) \/ Admit(k) \/ Refuse(k)
ConnNext(c) ==
    \/ \E k \in Kind : Dial(c, k)
    \/ StoreCall(c) \/ StoreReturns(c) \/ SessionEnds(c) \/ FreeSlot(c) \/ WaitGroupDone(c)
ShutdownNext ==
    \/ StopHealth \/ AcceptWait \/ Drained \/ DrainExpires
    \/ \E k \in Kind : CloseListener(k) \/ CancelSessions(k)
    \/ AllStopped \/ GraceExpires \/ StopReaper \/ ReaperStopped \/ ReaperExpires
    \/ CloseStore

Next ==
    \/ \E k \in Kind : LoopNext(k)
    \/ \E c \in Conns : ConnNext(c)
    \/ ReaperTick \/ ReaperSwept \/ ReaperExits
    \/ Signal \/ ShutdownNext

Spec == Init /\ [][Next]_vars

\* Goroutines run and timers fire. Clients, store calls and the Reaper's passes
\* may take for ever.
Fairness == WF_vars(ShutdownNext) /\ \A k \in Kind : WF_vars(LoopNext(k))
FairSpec == Spec /\ Fairness

-----------------------------------------------------------------------------
(* Properties.                                                             *)

\* The semaphore of a kind counts the sessions that own a slot, on every path
\* through acceptLoop and the session's defers, and never exceeds the cap: a
\* leak would shrink the relay for good, a double release would lift the cap.
SlotsCounted ==
    /\ TypeOK
    /\ MaxConns > 0 => \A k \in Kind :
        /\ sem[k] = Cardinality(OfKind(k, Serving \cup {"returned"}))
        /\ sem[k] <= MaxConns

\* "pushes only after the drain budget" (server.pushCtx): while the budget lasts
\* no session of either kind is cancelled as long as a Push Session runs, one
\* that was accepted just before its listener closed included.
PushNotCutEarly ==
    (\E k \in Kind : ctxDone[k]) /\ "drain" \notin fired => OfKind("push", Serving) = {}

\* "the store closes only after every session has stopped ... (or the drain
\* budget has been force-exited past)", and not under a Reaper's pass unless its
\* wait timed out (server's comment, shutdown step 6).
StoreClosesLast ==
    db = "closed" =>
        /\ "grace" \notin fired => \A c \in Conns : conn[c] \notin Serving \cup {"held"}
        /\ "reaper" \notin fired => reaper = "done"

\* A connection is only ever served under a configuration that respects the ranges
\* and the operator's words (config.Load, called before the server is started).
ConfigSound == (\E c \in Conns : conn[c] \in Serving) => LoadSound

\* "so shutdown always returns" (shutdownHardGrace): whatever clients, store and
\* Reaper do, a signal leads to a closed store.
ShutdownReturns == stage = "health" ~> stage = "down"

-----------------------------------------------------------------------------
(* The inductive invariant behind the three invariants above.              *)

\* A kind's WaitGroup counts the sessions between wg.Add in acceptLoop and the
\* last of their defers.
InGroup == Serving \cup {"returned", "freed"}
GroupsExact == \A k \in Kind : wg[k] = Cardinality(OfKind(k, InGroup))

\* A connection is between Accept and Admit only in the hands of its loop.
HeldByLoop ==
    /\ \A c \in Conns : conn[c] = "held" => loop[kind[c]] = "admit"
    /\ \A c, d \in Conns : conn[c] = "held" /\ conn[d] = "held" /\ kind[c] = kind[d] => c = d

\* What shutdown has behind it at each of its steps.
AtCloseStore == {"closeStore", "down"}
AfterGrace == {"stopReaper", "reaperWait"} \cup AtCloseStore
AfterDrain == {"cutRecv", "cutPush", "grace"} \cup AfterGrace
ShutdownOrder ==
    /\ stage \in {"drain"} \cup AfterDrain => LoopsDone
    /\ \A k \in Kind : ctxDone[k] => stage \in {"cutPush", "grace"} \cup AfterGrace
    /\ stage \in AfterDrain /\ "drain" \notin fired => OfKind("push", InGroup) = {}
    /\ stage \in AfterGrace /\ "grace" \notin fired =>
            \A k \in Kind : OfKind(k, InGroup) = {}
    /\ stage \in AtCloseStore /\ "reaper" \notin fired => reaper = "done"
    /\ db = "closed" => stage = "down"

\* Slots, groups, loops and the order of shutdown together.
ServerInv == SlotsCounted /\ GroupsExact /\ HeldByLoop /\ ShutdownOrder
=============================================================================
