------------------------- MODULE InProcessNotifier -------------------------
(***************************************************************************)
(* internal/notify/inprocess/notifier.go, for one recipient key. The       *)
(* subscribers of a key are a Go slice: a header (backing array, length)   *)
(* in the map, over an array the headers share. Notify copies the header   *)
(* under the mutex and walks the array without it, while Subscribe and the *)
(* unsubscribe goroutines change that array in place.                      *)
(***************************************************************************)
EXTENDS Integers, Sequences, FiniteSets, FiniteSetsExt

CONSTANTS Chans,      \* subscriptions, each made at most once
          Notifiers,  \* concurrent callers of Notify
          Nil

ASSUME NotifierAssumption == IsFiniteSet(Chans) /\ Nil \notin Chans

VARIABLES
    mem,      \* every backing array ever allocated, by index
    subs,     \* the slice header n.subs[k]; length 0 once the key is deleted
    mu,       \* the unsubscribe goroutine that holds the mutex, or Nil
    shift,    \* the array slot it writes next
    state,    \* each subscription's stage
    signal,   \* a signal waits in the subscription's channel
    note,     \* each Notify call: stage, its copy of the header, loop index, ch
    panicked, \* a send on a closed channel ended the process
    \* history of a Notify: the subscriptions registered when it copied the
    \* header, those it tried to signal, and whether a removal overlapped it
    listed, tried, disturbed

vars == <<mem, subs, mu, shift, state, signal, note, panicked,
          listed, tried, disturbed>>
slices == <<mem, subs, mu, shift>>
calls == <<note, panicked, listed, tried>>

NoSlice == [arr |-> 0, len |-> 0]
Elements == {mem[subs.arr][i] : i \in 1 .. subs.len}
Stage == {"new", "live", "cancelled", "removing", "removed", "closed"}
\* In the slice, as far as the mutex's holders go.
Registered == {c \in Chans : state[c] \in {"live", "cancelled"}}

TypeOK ==
    /\ mem \in Seq(Seq(Chans \cup {Nil}))
    /\ subs.arr \in 0 .. Len(mem)
    /\ subs.len \in 0 .. (IF subs.arr = 0 THEN 0 ELSE Len(mem[subs.arr]))
    /\ mu \in Chans \cup {Nil} /\ shift \in Nat
    /\ state \in [Chans -> Stage] /\ signal \in [Chans -> BOOLEAN]
    /\ \A n \in Notifiers :
        /\ note[n].pc \in {"idle", "read", "send", "done"}
        /\ note[n].pc = "send" => note[n].ch \in Chans
    /\ panicked \in BOOLEAN
    /\ listed \in [Notifiers -> SUBSET Chans] /\ tried \in [Notifiers -> SUBSET Chans]
    /\ disturbed \in [Notifiers -> BOOLEAN]

Idle == [pc |-> "idle", arr |-> 0, len |-> 0, i |-> 0, ch |-> Nil]

Init ==
    /\ mem = <<>> /\ subs = NoSlice /\ mu = Nil /\ shift = 0
    /\ state = [c \in Chans |-> "new"]
    /\ signal = [c \in Chans |-> FALSE]
    /\ note = [n \in Notifiers |-> Idle]
    /\ panicked = FALSE
    /\ listed = [n \in Notifiers |-> {}] /\ tried = [n \in Notifiers |-> {}]
    /\ disturbed = [n \in Notifiers |-> FALSE]

-----------------------------------------------------------------------------
(* Subscribe: append, in place while the array has room, else to an array  *)
(* of twice the size. The mutex makes it one step.                         *)

Capacity == IF subs.arr = 0 THEN 0 ELSE Len(mem[subs.arr])

AppendInPlace(c) ==
    /\ subs.len < Capacity
    /\ mem' = [mem EXCEPT ![subs.arr][subs.len + 1] = c]
    /\ subs' = [subs EXCEPT !.len = @ + 1]

AppendGrow(c) ==
    LET cap == Max({1, 2 * Capacity})
        copy == [i \in 1 .. cap |-> IF i <= subs.len THEN mem[subs.arr][i]
                                    ELSE IF i = subs.len + 1 THEN c ELSE Nil]
    IN  /\ subs.len = Capacity
        /\ mem' = Append(mem, copy)
        /\ subs' = [arr |-> Len(mem) + 1, len |-> subs.len + 1]

Subscribe(c) ==
    /\ state[c] = "new" /\ mu = Nil /\ ~panicked
    /\ AppendInPlace(c) \/ AppendGrow(c)
    /\ state' = [state EXCEPT ![c] = "live"]
    /\ UNCHANGED <<mu, shift, signal, calls, disturbed>>

\* The Receive Session's context is cancelled.
Cancel(c) ==
    /\ state[c] = "live" /\ ~panicked
    /\ state' = [state EXCEPT ![c] = "cancelled"]
    /\ UNCHANGED <<slices, signal, calls, disturbed>>

-----------------------------------------------------------------------------
(* The unsubscribe goroutine: append(chs[:i], chs[i+1:]...) moves the tail *)
(* of the shared array down, one slot after the other.                     *)

IndexOf(c) == CHOOSE i \in 1 .. subs.len : mem[subs.arr][i] = c

\* Mutant: the slice is cut at its end, whichever element was meant.
Bug_UnsubLock(c) ==
    /\ state[c] = "cancelled" /\ mu = Nil /\ ~panicked
    /\ mu' = c /\ shift' = subs.len
    /\ state' = [state EXCEPT ![c] = "removing"]
    /\ disturbed' = [n \in Notifiers |-> TRUE]
    /\ UNCHANGED <<mem, subs, signal, calls>>
UnsubLock(c) ==
    /\ state[c] = "cancelled" /\ mu = Nil /\ ~panicked
    /\ mu' = c /\ shift' = IndexOf(c)
    /\ state' = [state EXCEPT ![c] = "removing"]
    /\ disturbed' = [n \in Notifiers |-> TRUE]
    /\ UNCHANGED <<mem, subs, signal, calls>>

UnsubShift(c) ==
    /\ mu = c /\ shift < subs.len /\ ~panicked
    /\ mem' = [mem EXCEPT ![subs.arr][shift] = mem[subs.arr][shift + 1]]
    /\ shift' = shift + 1
    /\ UNCHANGED <<subs, mu, state, signal, calls, disturbed>>

\* Mutant: the path that leaves other subscribers keeps the mutex.
Bug_UnsubUnlock(c) ==
    /\ state[c] = "removing" /\ shift = subs.len /\ ~panicked
    /\ subs' = IF subs.len = 1 THEN NoSlice ELSE [subs EXCEPT !.len = @ - 1]
    /\ IF subs.len = 1 THEN mu' = Nil /\ shift' = 0 ELSE UNCHANGED <<mu, shift>>
    /\ state' = [state EXCEPT ![c] = "removed"]
    /\ UNCHANGED <<mem, signal, calls, disturbed>>
UnsubUnlock(c) ==
    /\ mu = c /\ shift = subs.len /\ ~panicked
    /\ subs' = IF subs.len = 1 THEN NoSlice ELSE [subs EXCEPT !.len = @ - 1]
    /\ mu' = Nil /\ shift' = 0
    /\ state' = [state EXCEPT ![c] = "removed"]
    /\ UNCHANGED <<mem, signal, calls, disturbed>>

\* close(ch), after the unlock.
CloseChan(c) ==
    /\ state[c] = "removed" /\ ~panicked
    /\ state' = [state EXCEPT ![c] = "closed"]
    /\ UNCHANGED <<slices, signal, calls, disturbed>>

Unsubscribe(c) == UnsubLock(c) \/ UnsubShift(c) \/ UnsubUnlock(c) \/ CloseChan(c)

-----------------------------------------------------------------------------
(* Notify.                                                                 *)

\* The header is copied under the mutex.
NotifyCopy(n) ==
    /\ note[n].pc = "idle" /\ mu = Nil /\ ~panicked
    /\ note' = [note EXCEPT ![n] = [pc |-> "read", arr |-> subs.arr,
                                    len |-> subs.len, i |-> 1, ch |-> Nil]]
    /\ listed' = [listed EXCEPT ![n] = Registered]
    /\ tried' = [tried EXCEPT ![n] = {}]
    /\ disturbed' = [disturbed EXCEPT ![n] = FALSE]
    /\ UNCHANGED <<slices, state, signal, panicked>>

\* One iteration reads the array as it is now, then sends.
NotifyRead(n) ==
    /\ note[n].pc = "read" /\ note[n].i <= note[n].len /\ ~panicked
    /\ note' = [note EXCEPT ![n].pc = "send",
                            ![n].ch = mem[note[n].arr][note[n].i]]
    /\ UNCHANGED <<slices, state, signal, panicked, listed, tried, disturbed>>

\* A pending signal makes the send take the default branch; a closed channel
\* makes it panic.
NotifySend(n) ==
    LET c == note[n].ch
    IN  /\ note[n].pc = "send" /\ ~panicked
        /\ IF state[c] = "closed"
           THEN panicked' = TRUE /\ UNCHANGED <<signal, tried>>
           ELSE /\ signal' = [signal EXCEPT ![c] = TRUE]
                /\ tried' = [tried EXCEPT ![n] = @ \cup {c}]
                /\ UNCHANGED panicked
        /\ note' = [note EXCEPT ![n].pc = "read", ![n].i = @ + 1]
        /\ UNCHANGED <<slices, state, listed, disturbed>>

\* Mutant: the walk stops one short.
Bug_Walked(n) == note[n].i >= note[n].len
Walked(n) == note[n].i > note[n].len

NotifyEnd(n) ==
    /\ note[n].pc = "read" /\ Walked(n) /\ ~panicked
    /\ note' = [note EXCEPT ![n].pc = "done"]
    /\ UNCHANGED <<slices, state, signal, panicked, listed, tried, disturbed>>

NotifyAgain(n) ==
    /\ note[n].pc = "done" /\ ~panicked
    /\ note' = [note EXCEPT ![n] = Idle]
    /\ listed' = [listed EXCEPT ![n] = {}] /\ tried' = [tried EXCEPT ![n] = {}]
    /\ disturbed' = [disturbed EXCEPT ![n] = FALSE]
    /\ UNCHANGED <<slices, state, signal, panicked>>

\* The delivery goroutine takes its signal.
Drain(c) ==
    /\ signal[c] /\ ~panicked
    /\ signal' = [signal EXCEPT ![c] = FALSE]
    /\ UNCHANGED <<slices, state, calls, disturbed>>

Next ==
    \/ \E c \in Chans : Subscribe(c) \/ Cancel(c) \/ Unsubscribe(c) \/ Drain(c)
    \/ \E n \in Notifiers : \/ NotifyCopy(n) \/ NotifyRead(n) \/ NotifySend(n)
                            \/ NotifyEnd(n) \/ NotifyAgain(n)

Spec == Init /\ [][Next]_vars

\* Goroutines that can run do. Weak fairness is enough for the mutex: it is
\* held a bounded number of times, as each subscription is made once.
Fairness == \A c \in Chans : WF_vars(Unsubscribe(c))
FairSpec == Spec /\ Fairness

-----------------------------------------------------------------------------
(* Properties.                                                             *)

\* Whenever the mutex is free the slice holds exactly the registered channels,
\* each once: appends and removals in one shared array never lose, resurrect
\* or duplicate a subscriber.
RegistryExact ==
    /\ TypeOK
    /\ mu = Nil => Elements = Registered /\ subs.len = Cardinality(Registered)

\* A Notify that no removal overlaps tries every subscriber it found that is
\* still live, whatever Subscribe appends to the array meanwhile.
UndisturbedNotifyReachesAll ==
    \A n \in Notifiers :
        note[n].pc = "done" /\ ~disturbed[n] => listed[n] \subseteq tried[n]

\* "The channel is closed when ctx is cancelled" (Subscribe's comment): every
\* unsubscribe goroutine gets through the mutex and closes its channel.
CancelledChannelCloses ==
    \A c \in Chans : state[c] = "cancelled" ~> state[c] = "closed" \/ panicked

\* "Notify signals all active subscribers for recipientKey" (Notify's comment):
\* a subscriber registered before the call and still live after it was tried.
NotifyReachesAll ==
    \A n \in Notifiers : note[n].pc = "done" =>
        \A c \in listed[n] : state[c] = "live" => c \in tried[n]

-----------------------------------------------------------------------------
(* The inductive invariant behind the safety properties.                   *)

\* The list the slice stands for while a removal moves its tail down: the array
\* without the slot that is written next.
ListLen == IF mu = Nil THEN subs.len ELSE subs.len - 1
Listed(j) == mem[subs.arr][IF mu # Nil /\ j >= shift THEN j + 1 ELSE j]

\* It holds each registered channel once, in the middle of a removal too, and the
\* mutex is held by the one goroutine that is removing.
ListExact ==
    /\ \A j \in 1 .. ListLen : Listed(j) \in Registered
    /\ \A c \in Registered : \E j \in 1 .. ListLen : Listed(j) = c
    /\ \A i, j \in 1 .. ListLen : Listed(i) = Listed(j) => i = j
    /\ \A c \in Chans : state[c] = "removing" <=> mu = c
    /\ mu # Nil => shift \in 1 .. subs.len

\* A header, the map's or a copy of it, covers slots of its array that hold channels.
Covers(h) ==
    /\ h.arr \in 0 .. Len(mem)
    /\ h.len \in 0 .. (IF h.arr = 0 THEN 0 ELSE Len(mem[h.arr]))
    /\ \A i \in 1 .. h.len : mem[h.arr][i] \in Chans
HeadersCover ==
    /\ subs \in [arr : Nat, len : Nat] /\ Covers(subs)
    /\ note \in [Notifiers -> [pc : {"idle", "read", "send", "done"}, arr : Nat,
                               len : Nat, i : Nat, ch : Chans \cup {Nil}]]
    /\ \A n \in Notifiers : Covers(note[n]) /\ (note[n].pc # "idle" => note[n].i >= 1)

\* Until a removal overlaps it, a Notify walks the list it found: Subscribe writes
\* behind its copy of the header or to another array.
Walking == {n \in Notifiers : note[n].pc # "idle" /\ ~disturbed[n]}
WalkSteady ==
    \A n \in Walking :
        /\ mu = Nil /\ (subs.arr = note[n].arr => note[n].len <= subs.len)
        /\ \A c \in listed[n] : \E i \in 1 .. note[n].len : mem[note[n].arr][i] = c
        /\ ~panicked => \A i \in 1 .. note[n].len :
                           i < note[n].i => mem[note[n].arr][i] \in tried[n]
        /\ note[n].pc = "send" => /\ note[n].i \in 1 .. note[n].len
                                  /\ note[n].ch = mem[note[n].arr][note[n].i]

NotifierInv ==
    /\ TypeOK /\ UndisturbedNotifyReachesAll
    /\ ListExact /\ HeadersCover /\ WalkSteady
=============================================================================
