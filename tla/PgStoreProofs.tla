---------------------------- MODULE PgStoreProofs ----------------------------
(***************************************************************************)
(* Proofs about PgStore, for every finite set of subscriptions and pushes, *)
(* every capacity of cmdCh and every quota.                                *)
(***************************************************************************)
EXTENDS PgStore, FiniteSetTheorems, TLAPS

-----------------------------------------------------------------------------
(* Commands and the count.                                                 *)

\* Whose commands wait in cmdCh.
LEMMA CommandFacts ==
    ASSUME PgInv
    PROVE  /\ Len(cmds) \in Nat
           /\ \A i \in 1 .. Len(cmds) :
                 /\ cmds[i].by \in Chans /\ cmds[i].op \in {"LISTEN", "UNLISTEN"}
                 /\ stage[cmds[i].by] \in {"queued", "unqueued"}
<1> DEFINE C == [op : {"LISTEN", "UNLISTEN"}, by : Chans]
<1>1. cmds \in Seq(C)
  BY DEF PgInv, OvershootBounded, TypeOK
<1>2. Len(cmds) \in Nat /\ \A i \in 1 .. Len(cmds) : cmds[i] \in C
  <2> HIDE DEF C
  <2> QED
    BY <1>1
<1>3. \A i \in 1 .. Len(cmds) : cmds[i].by \in Chans /\ cmds[i].op \in {"LISTEN", "UNLISTEN"}
  BY <1>2
<1> QED
  BY <1>2, <1>3 DEF PgInv, CommandsKnown

\* A queue grows by one at its end.
LEMMA Enqueued ==
    ASSUME NEW C, NEW q \in Seq(C), NEW x \in C
    PROVE  Append(q, x) \in Seq(C) /\ Len(Append(q, x)) = Len(q) + 1 /\ Len(q) \in Nat
OBVIOUS

\* The command the loop is about to answer, and the ones behind it.
LEMMA HeadCommand ==
    ASSUME PgInv, cmds # <<>>
    PROVE  /\ Head(cmds).by \in Chans
           /\ Head(cmds).op = "LISTEN" => stage[Head(cmds).by] = "queued"
           /\ Head(cmds).op = "UNLISTEN" => stage[Head(cmds).by] = "unqueued"
           /\ Head(cmds).op \in {"LISTEN", "UNLISTEN"}
           /\ Tail(cmds) \in Seq([op : {"LISTEN", "UNLISTEN"}, by : Chans])
           /\ Len(Tail(cmds)) <= CmdCap
           /\ \A i \in 1 .. Len(Tail(cmds)) :
                 /\ Tail(cmds)[i] = cmds[i + 1] /\ i + 1 \in 1 .. Len(cmds)
                 /\ Tail(cmds)[i].by # Head(cmds).by
<1> DEFINE C == [op : {"LISTEN", "UNLISTEN"}, by : Chans]
<1>1. cmds \in Seq(C) /\ Len(cmds) <= CmdCap /\ CmdCap \in Nat
  BY PgAssumption DEF PgInv, OvershootBounded, TypeOK
<1> HIDE DEF C
<1>2. /\ Len(cmds) \in Nat /\ 1 \in 1 .. Len(cmds) /\ Head(cmds) = cmds[1]
      /\ Head(cmds) \in C /\ Tail(cmds) \in Seq(C) /\ Len(Tail(cmds)) = Len(cmds) - 1
      /\ \A i \in 1 .. Len(Tail(cmds)) : Tail(cmds)[i] = cmds[i + 1]
  BY <1>1
<1>3. \A i \in 1 .. Len(Tail(cmds)) : i + 1 \in 1 .. Len(cmds) /\ i + 1 # 1
  BY <1>2
<1>4. \A i \in 1 .. Len(Tail(cmds)) : Tail(cmds)[i].by # Head(cmds).by
  BY <1>2, <1>3 DEF PgInv, CommandsKnown
<1>5. /\ Head(cmds).by \in Chans /\ Head(cmds).op \in {"LISTEN", "UNLISTEN"}
      /\ Head(cmds).op = "LISTEN" => stage[Head(cmds).by] = "queued"
      /\ Head(cmds).op = "UNLISTEN" => stage[Head(cmds).by] = "unqueued"
  BY <1>2 DEF PgInv, CommandsKnown, C
<1>6. Len(Tail(cmds)) <= CmdCap
  BY <1>1, <1>2
<1> QED
  BY <1>2, <1>3, <1>4, <1>5, <1>6 DEF C

\* The registry's count goes up by one for a new channel and down by one for a
\* registered one, and is 0 exactly when nobody is registered.
LEMMA RefcountStep ==
    ASSUME PgInv, NEW c \in Chans
    PROVE  /\ refcount \in Nat /\ (refcount = 0 <=> subs = {})
           /\ refcount = 1 /\ c \in subs => subs = {c}
           /\ c \notin subs => refcount + 1 = Cardinality(subs \cup {c})
           /\ c \in subs => refcount - 1 = Cardinality(subs \ {c})
<1>1. IsFiniteSet(subs) /\ refcount = Cardinality(subs)
  BY PgAssumption, FS_Subset DEF PgInv, OvershootBounded, TypeOK
<1>2. refcount \in Nat /\ (refcount = 0 <=> subs = {})
  BY <1>1, FS_CardinalityType, FS_EmptySet
<1>3. c \notin subs => refcount + 1 = Cardinality(subs \cup {c})
  BY <1>1, FS_AddElement
<1>4. c \in subs => refcount - 1 = Cardinality(subs \ {c})
  BY <1>1, FS_RemoveElement
<1>5. ASSUME refcount = 1, c \in subs PROVE subs = {c}
  <2>1. Cardinality(subs \ {c}) = 0 /\ IsFiniteSet(subs \ {c})
    BY <1>1, <1>4, <1>5, FS_RemoveElement
  <2>2. subs \ {c} = {}
    BY <2>1, FS_EmptySet
  <2> QED
    BY <1>5, <2>2
<1> QED
  BY <1>2, <1>3, <1>4, <1>5

-----------------------------------------------------------------------------
(* Each part of the invariant is kept by every step.                       *)

\* A channel is in the registry exactly as long as its subscription counts.
LEMMA RegistryStep == PgInv /\ [Next]_vars => RegistryExact'
<1> SUFFICES ASSUME PgInv, [Next]_vars PROVE RegistryExact'
  OBVIOUS
<1> USE DEF PgInv, OvershootBounded, TypeOK, RegistryExact, Registered
<1>1. ASSUME NEW c \in Chans, Subscribe(c) PROVE RegistryExact'
  BY <1>1 DEF Subscribe, Opened, cursor, inbox, listener, postgres
<1>2. ASSUME NEW c \in Chans, Cancel(c) PROVE RegistryExact'
  BY <1>2 DEF Cancel, GoroutineStep, registry, inbox, listener, postgres
<1>3. ASSUME NEW c \in Chans, SendListen(c) PROVE RegistryExact'
  BY <1>3 DEF SendListen, Enqueue, GoroutineStep, registry, reading, cursor, inbox,
     listener, postgres
<1>4. ASSUME NEW c \in Chans, SubscribeReturns(c) PROVE RegistryExact'
  BY <1>4 DEF SubscribeReturns, GoroutineStep, Opened, cursor, registry, inbox, listener,
     postgres
<1>5. ASSUME NEW c \in Chans, SubscribeFails(c) PROVE RegistryExact'
  BY <1>5 DEF SubscribeFails, Removed, GoroutineStep, reading, cursor, inbox, listener,
     postgres
<1>6. ASSUME NEW c \in Chans, Unsubscribe(c) PROVE RegistryExact'
  BY <1>6 DEF Unsubscribe, Removed, GoroutineStep, reading, cursor, inbox, listener,
     postgres
<1>7. ASSUME NEW c \in Chans, SendUnlisten(c) PROVE RegistryExact'
  BY <1>7 DEF SendUnlisten, Enqueue, GoroutineStep, registry, reading, cursor, inbox,
     listener, postgres
<1>8. CASE ConnectionLost \/ SendPanics
  BY <1>8 DEF ConnectionLost, SendPanics, Restarted, inbox
<1>9. CASE DrainListen \/ DrainUnlisten \/ DrainFails
  BY <1>9, HeadCommand DEF DrainListen, DrainUnlisten, DrainFails, Answer,
     loopFrame, listener, postgres, inbox, registry, reading, cursor
<1>10. ASSUME NEW p \in Pushers, Probe(p) \/ Insert(p) \/ Commit(p) \/
      CommitUnknown(p) \/ PutFails(p) \/ Notify(p) \/ NotifyFails(p) PROVE
      UNCHANGED <<subs, stage>>
  BY <1>10 DEF Probe, Insert, Commit, CommitUnknown, PutFails, Notify,
     NotifyFails, Fits, PushStep, notifierVars, postgres, Overtaken, PushEnds, TransactionEnds,
     registry, listener, reading, cursor
<1>11. ASSUME NEW c \in Chans, Peek(c) \/ PeekFails(c) \/ SendBlob(c) \/ Wake(c) \/ DeleteForRecipient(c)
      \/ SendSignal(c) PROVE UNCHANGED <<subs, stage>>
  BY <1>11 DEF Peek, PeekFails, SendBlob, Wake, DeleteForRecipient, SendSignal, sessionFrame,
     DeleteRows, rowFrame, inbox, registry, postgres, reading, cursor, listener,
     notifierVars
<1>12. ASSUME CloseBegins \/ Reap \/ DrainEnds \/ WaitTimeout \/ LoopEnds \/
      Notified \/ SendEnds \/ CloseEnds PROVE UNCHANGED <<subs, stage>>
  BY <1>12 DEF CloseBegins, Reap, DrainEnds, WaitTimeout, LoopEnds, Notified,
     SendEnds, CloseEnds, inbox, registry, listener, postgres, reading, cursor,
     DeleteRows, rowFrame, loopFrame, notifierVars
<1>13. CASE UNCHANGED <<subs, stage>>
  BY <1>13
<1>14. UNCHANGED vars => UNCHANGED <<subs, stage>>
  BY DEF vars, inbox, registry, postgres, listener, reading, cursor
<1> QED
  BY <1>1, <1>2, <1>3, <1>4, <1>5, <1>6, <1>7, <1>8, <1>9, <1>10, <1>11, <1>12,
     <1>13, <1>14 DEF Next, EnvironmentNext, SubscriptionNext, LoopNext

\* A command stays in step with the goroutine that sent it.
LEMMA CommandsStep == PgInv /\ [Next]_vars => CommandsKnown'
<1> SUFFICES ASSUME PgInv, [Next]_vars PROVE CommandsKnown'
  OBVIOUS
<1> USE DEF CommandsKnown
<1>a. /\ CommandsKnown /\ stage \in [Chans -> Stage]
      /\ cmds \in Seq([op : {"LISTEN", "UNLISTEN"}, by : Chans])
  BY DEF PgInv, OvershootBounded, TypeOK
<1>1. ASSUME NEW c \in Chans, Subscribe(c) \/ Cancel(c) \/ SubscribeReturns(c) \/
      SubscribeFails(c) \/ Unsubscribe(c) PROVE CommandsKnown'
  <2>1. cmds' = cmds /\ stage[c] \notin {"queued", "unqueued"}
    BY <1>a, <1>1 DEF Subscribe, Cancel, SubscribeReturns, SubscribeFails, Unsubscribe
  <2>2. \A d \in Chans : d # c => stage'[d] = stage[d]
    BY <1>a, <1>1 DEF Subscribe, Cancel, SubscribeReturns, SubscribeFails, Unsubscribe,
       GoroutineStep
  <2>3. \A i \in 1 .. Len(cmds) : stage'[cmds[i].by] = stage[cmds[i].by]
    BY <2>1, <2>2, CommandFacts
  <2> QED
    BY <1>a, <2>1, <2>3
<1>2. ASSUME NEW c \in Chans, SendListen(c) PROVE CommandsKnown'
  <2>1. stage[c] = "counted" /\ \A i \in 1 .. Len(cmds) : cmds[i].by # c
    BY <1>2, CommandFacts DEF SendListen
  <2>5. CASE Len(cmds) < CmdCap
    <3>1. /\ cmds' = Append(cmds, [op |-> "LISTEN", by |-> c])
          /\ stage' = [stage EXCEPT ![c] = "queued"]
      BY <1>a, <1>2, <2>5 DEF SendListen, Enqueue, GoroutineStep
    <3>2. /\ Len(cmds') = Len(cmds) + 1 /\ cmds'[Len(cmds) + 1].op = "LISTEN"
          /\ cmds'[Len(cmds) + 1].by = c
          /\ \A i \in 1 .. Len(cmds) : cmds'[i] = cmds[i]
      BY <1>a, <3>1
    <3>3. \A i \in 1 .. Len(cmds') : i \in 1 .. Len(cmds) \/ i = Len(cmds) + 1
      BY <3>2, CommandFacts
    <3>4. stage'[c] = "queued" /\ \A i \in 1 .. Len(cmds) : stage'[cmds[i].by] = stage[cmds[i].by]
      BY <1>a, <2>1, <3>1, CommandFacts
    <3>5. \A i \in 1 .. Len(cmds') :
              /\ cmds'[i].op = "LISTEN" => stage'[cmds'[i].by] = "queued"
              /\ cmds'[i].op = "UNLISTEN" => stage'[cmds'[i].by] = "unqueued"
      BY <1>a, <3>2, <3>3, <3>4, CommandFacts
    <3>6. \A i, j \in 1 .. Len(cmds') : cmds'[i].by = cmds'[j].by => i = j
      BY <1>a, <2>1, <3>2, <3>3
    <3> QED
      BY <3>5, <3>6
  <2> QED
    BY <1>2, <2>5 DEF SendListen
<1>3. ASSUME NEW c \in Chans, SendUnlisten(c) PROVE CommandsKnown'
  <2>1. stage[c] = "owes" /\ \A i \in 1 .. Len(cmds) : cmds[i].by # c
    BY <1>3, CommandFacts DEF SendUnlisten
  <2>5. CASE Len(cmds) < CmdCap
    <3>1. /\ cmds' = Append(cmds, [op |-> "UNLISTEN", by |-> c])
          /\ stage' = [stage EXCEPT ![c] = "unqueued"]
      BY <1>a, <1>3, <2>5 DEF SendUnlisten, Enqueue, GoroutineStep
    <3>2. /\ Len(cmds') = Len(cmds) + 1 /\ cmds'[Len(cmds) + 1].op = "UNLISTEN"
          /\ cmds'[Len(cmds) + 1].by = c
          /\ \A i \in 1 .. Len(cmds) : cmds'[i] = cmds[i]
      BY <1>a, <3>1
    <3>3. \A i \in 1 .. Len(cmds') : i \in 1 .. Len(cmds) \/ i = Len(cmds) + 1
      BY <3>2, CommandFacts
    <3>4. stage'[c] = "unqueued" /\ \A i \in 1 .. Len(cmds) : stage'[cmds[i].by] = stage[cmds[i].by]
      BY <1>a, <2>1, <3>1, CommandFacts
    <3>5. \A i \in 1 .. Len(cmds') :
              /\ cmds'[i].op = "LISTEN" => stage'[cmds'[i].by] = "queued"
              /\ cmds'[i].op = "UNLISTEN" => stage'[cmds'[i].by] = "unqueued"
      BY <1>a, <3>2, <3>3, <3>4, CommandFacts
    <3>6. \A i, j \in 1 .. Len(cmds') : cmds'[i].by = cmds'[j].by => i = j
      BY <1>a, <2>1, <3>2, <3>3
    <3> QED
      BY <3>5, <3>6
  <2>6. CASE Len(cmds) = CmdCap
    <3>1. cmds' = cmds /\ \A d \in Chans : d # c => stage'[d] = stage[d]
      BY <1>a, <1>3, <2>6 DEF SendUnlisten, GoroutineStep
    <3> QED
      BY <1>a, <2>1, <3>1, CommandFacts
  <2> QED
    BY <1>3, <2>5, <2>6 DEF SendUnlisten
<1>4. CASE ConnectionLost \/ SendPanics
  BY <1>4 DEF ConnectionLost, SendPanics, Restarted, inbox
<1>5. CASE DrainListen \/ DrainUnlisten \/ DrainFails
  <2>1. cmds # <<>> /\ cmds' = Tail(cmds)
    BY <1>a, <1>5 DEF DrainListen, DrainUnlisten, DrainFails, Answer
  <2>2. \A d \in Chans : d # Head(cmds).by => stage'[d] = stage[d]
    BY <1>a, <1>5 DEF DrainListen, DrainUnlisten, DrainFails, Answer
  <2>3. \A i \in 1 .. Len(cmds') :
            /\ i + 1 \in 1 .. Len(cmds) /\ cmds'[i] = cmds[i + 1]
            /\ cmds'[i].by # Head(cmds).by
    BY <2>1, HeadCommand
  <2>4. \A i \in 1 .. Len(cmds') : stage'[cmds'[i].by] = stage[cmds[i + 1].by]
    BY <2>2, <2>3, CommandFacts
  <2>5. \A i, j \in 1 .. Len(cmds') : i + 1 = j + 1 => i = j
    OBVIOUS
  <2>6. \A i, j \in 1 .. Len(cmds') : cmds'[i].by = cmds'[j].by => i = j
    BY <1>a, <2>3, <2>5
  <2>7. \A i \in 1 .. Len(cmds') :
            /\ cmds'[i].op = "LISTEN" => stage'[cmds'[i].by] = "queued"
            /\ cmds'[i].op = "UNLISTEN" => stage'[cmds'[i].by] = "unqueued"
    BY <1>a, <2>3, <2>4
  <2> QED
    BY <2>6, <2>7
<1>6. ASSUME NEW p \in Pushers, Probe(p) \/ Insert(p) \/ Commit(p) \/
      CommitUnknown(p) \/ PutFails(p) \/ Notify(p) \/ NotifyFails(p) PROVE
      UNCHANGED <<cmds, stage>>
  BY <1>6 DEF Probe, Insert, Commit, CommitUnknown, PutFails, Notify, NotifyFails,
     Fits, PushStep, notifierVars, postgres, Overtaken, PushEnds, TransactionEnds, registry,
     listener, reading, cursor
<1>7. ASSUME NEW c \in Chans, Peek(c) \/ PeekFails(c) \/ SendBlob(c) \/ Wake(c) \/ DeleteForRecipient(c) \/
      SendSignal(c) PROVE UNCHANGED <<cmds, stage>>
  BY <1>7 DEF Peek, PeekFails, SendBlob, Wake, DeleteForRecipient, SendSignal, sessionFrame,
     DeleteRows, rowFrame, inbox, registry, postgres, reading, cursor, listener,
     notifierVars
<1>8. ASSUME CloseBegins \/ Reap \/ DrainEnds \/ WaitTimeout \/ LoopEnds \/
      Notified \/ SendEnds \/ CloseEnds PROVE UNCHANGED <<cmds, stage>>
  BY <1>8 DEF CloseBegins, Reap, DrainEnds, WaitTimeout, LoopEnds, Notified,
     SendEnds, CloseEnds, inbox, registry, listener, postgres, reading, cursor,
     DeleteRows, rowFrame, loopFrame, notifierVars
<1>9. CASE UNCHANGED <<cmds, stage>>
  BY <1>9, <1>a
<1>10. UNCHANGED vars => UNCHANGED <<cmds, stage>>
  BY DEF vars, inbox, registry, postgres, listener, reading, cursor
<1> QED
  BY <1>1, <1>2, <1>3, <1>4, <1>5, <1>6, <1>7, <1>8, <1>9, <1>10 DEF Next,
     EnvironmentNext, SubscriptionNext, LoopNext

\* TypeOK by what the state belongs to.
InboxType ==
    /\ rows \subseteq 1 .. seq /\ seq \in 0 .. MaxId
    /\ ppc \in [Pushers -> {"idle", "insert", "commit", "notify"}]
    /\ pid \in [Pushers -> 0 .. MaxId]
HistoryType == overtaken \in [Chans -> SUBSET (1 .. MaxId)]
CountType == subs \subseteq Chans /\ refcount = Cardinality(subs)
StageType == stage \in [Chans -> Stage] /\ deaf \subseteq Chans /\ overlap \in BOOLEAN
QueueType ==
    cmds \in Seq([op : {"LISTEN", "UNLISTEN"}, by : Chans]) /\ Len(cmds) <= CmdCap
LoopType ==
    /\ store \in {"open", "cancelled", "closed"}
    /\ loop \in {"drain", "wait", "send", "ended"} /\ snapshot \subseteq Chans
    /\ listening \in BOOLEAN /\ mail \in Nat
ReadType ==
    /\ signal \in [Chans -> BOOLEAN] /\ task \in [Chans -> {"peek", "send", "wait"}]
    /\ lastID \in [Chans -> 0 .. MaxId] /\ batch \in [Chans -> SUBSET (1 .. MaxId)]
    /\ delivered \in [Chans -> SUBSET (1 .. MaxId)] /\ missed \in [Chans -> SUBSET (1 .. MaxId)]

\* Rows carry ids the sequence has handed out.
LEMMA InboxTypeStep == PgInv /\ [Next]_vars => InboxType'
<1> SUFFICES ASSUME PgInv, [Next]_vars PROVE InboxType'
  OBVIOUS
<1> USE PgAssumption DEF PgInv, OvershootBounded, TypeOK, InboxType
<1>a. 0 \in 0 .. MaxId /\ seq \in Nat /\ MaxId \in Nat /\ seq <= MaxId
  OBVIOUS
<1>1. ASSUME NEW p \in Pushers, Probe(p) PROVE InboxType'
  BY <1>1 DEF Probe, Fits, PushStep, notifierVars, postgres, registry, listener,
     reading, cursor
<1>2. ASSUME NEW p \in Pushers, Insert(p) PROVE InboxType'
  BY <1>2 DEF Insert, PushStep, notifierVars, postgres, registry, listener,
     reading, cursor
<1>3. ASSUME NEW p \in Pushers, Commit(p) \/ CommitUnknown(p) PROVE InboxType'
  <2>1. /\ pid[p] \in 1 .. seq /\ rows \subseteq 1 .. seq
        /\ rows' = rows \cup {pid[p]} /\ seq' = seq /\ seq \in 0 .. MaxId
    BY <1>3 DEF Commit, CommitUnknown, IdsUnused, Committing
  <2>2. rows' \subseteq 1 .. seq'
    BY <2>1
  <2>3. ppc' \in [Pushers -> {"idle", "insert", "commit", "notify"}]
    BY <1>3 DEF Commit, CommitUnknown, PushStep, PushEnds, TransactionEnds
  <2>4. pid' \in [Pushers -> 0 .. MaxId]
    BY <1>3, <1>a DEF Commit, CommitUnknown, PushEnds, TransactionEnds
  <2> QED
    BY <2>1, <2>2, <2>3, <2>4
<1>4. ASSUME NEW p \in Pushers, PutFails(p) \/ Notify(p) \/ NotifyFails(p) PROVE
      InboxType'
  BY <1>4, <1>a DEF PutFails, Notify, NotifyFails, PushEnds, TransactionEnds, notifierVars,
     postgres, PushStep, registry, listener, reading, cursor
<1>5. ASSUME NEW c \in Chans, DeleteForRecipient(c) PROVE InboxType'
  BY <1>5 DEF DeleteForRecipient, DeleteRows, rowFrame, notifierVars, postgres,
     registry, listener, reading, cursor
<1>6. CASE Reap
  BY <1>6 DEF Reap, DeleteRows, rowFrame, notifierVars, postgres, registry,
     listener, reading, cursor
<1>7. ASSUME NEW c \in Chans, Subscribe(c) \/ Cancel(c) \/ Peek(c) \/ PeekFails(c) \/
      SendBlob(c) \/ Wake(c) \/ SendListen(c) \/ SubscribeReturns(c) \/ SubscribeFails(c) \/
      Unsubscribe(c) \/ SendUnlisten(c) \/ SendSignal(c) PROVE UNCHANGED <<rows, seq, ppc, pid>>
  BY <1>7 DEF Subscribe, Cancel, Peek, PeekFails, SendBlob, Wake, SendListen, SubscribeReturns,
     SubscribeFails, Unsubscribe, SendUnlisten, SendSignal, Opened, inbox,
     listener, postgres, GoroutineStep, registry, sessionFrame, Enqueue, reading, cursor,
     Removed
<1>8. ASSUME ConnectionLost \/ CloseBegins \/ DrainListen \/ DrainUnlisten \/
      DrainFails \/ DrainEnds \/ WaitTimeout \/ LoopEnds \/ Notified \/ SendPanics
      \/ SendEnds \/ CloseEnds PROVE UNCHANGED <<rows, seq, ppc, pid>>
  BY <1>8 DEF ConnectionLost, CloseBegins, DrainListen, DrainUnlisten, DrainFails,
     DrainEnds, WaitTimeout, LoopEnds, Notified, SendPanics, SendEnds, CloseEnds,
     Restarted, inbox, registry, listener, postgres, reading, cursor, Answer, loopFrame
<1>9. CASE UNCHANGED <<rows, seq, ppc, pid>>
  BY <1>9
<1>10. UNCHANGED vars => UNCHANGED <<rows, seq, ppc, pid>>
  BY DEF vars, inbox, registry, postgres, listener, reading, cursor
<1> QED
  BY <1>1, <1>2, <1>3, <1>4, <1>5, <1>6, <1>7, <1>8, <1>9, <1>10 DEF Next,
     EnvironmentNext, SubscriptionNext, LoopNext

\* What is committed late, or forgotten, is an id.
LEMMA HistoryTypeStep == PgInv /\ [Next]_vars => HistoryType'
<1> SUFFICES ASSUME PgInv, [Next]_vars PROVE HistoryType'
  OBVIOUS
<1>a. overtaken \in [Chans -> SUBSET (1 .. MaxId)]
  BY DEF PgInv, OvershootBounded, TypeOK
<1>1. ASSUME NEW p \in Pushers, Commit(p) \/ CommitUnknown(p) PROVE HistoryType'
  <2>1. pid[p] \in 1 .. MaxId
    <3>1. pid[p] \in 1 .. seq /\ seq \in 0 .. MaxId /\ MaxId \in Nat
      BY <1>1, PgAssumption DEF Commit, CommitUnknown, PgInv, OvershootBounded, TypeOK,
         IdsUnused, Committing
    <3> QED
      BY <3>1
  <2> QED
    BY <1>a, <1>1, <2>1 DEF Commit, CommitUnknown, Overtaken, HistoryType
<1>2. ASSUME NEW c \in Chans, Cancel(c) PROVE HistoryType'
  BY <1>a, <1>2 DEF Cancel, HistoryType
<1>3. ASSUME NEW S, DeleteRows(S) PROVE HistoryType'
  BY <1>a, <1>3 DEF DeleteRows, HistoryType
<1>4. ASSUME NEW c \in Chans, DeleteForRecipient(c) PROVE HistoryType'
  BY <1>3, <1>4 DEF DeleteForRecipient
<1>5. CASE Reap
  BY <1>3, <1>5 DEF Reap
<1>6. CASE ConnectionLost \/ SendPanics
  BY <1>6 DEF ConnectionLost, SendPanics, Restarted, HistoryType
<1>7. ASSUME NEW p \in Pushers, Probe(p) \/ Insert(p) \/ PutFails(p) \/ Notify(p) \/
      NotifyFails(p) PROVE overtaken' = overtaken
  BY <1>7 DEF Probe, Insert, PutFails, Notify, NotifyFails
<1>8. ASSUME NEW c \in Chans, Subscribe(c) \/ Peek(c) \/ PeekFails(c) \/ SendBlob(c) \/
      Wake(c) \/ SendListen(c) \/ SubscribeReturns(c) \/ SubscribeFails(c) \/
      Unsubscribe(c) \/ SendUnlisten(c) \/ SendSignal(c) PROVE overtaken' = overtaken
  BY <1>8 DEF Subscribe, Peek, PeekFails, SendBlob, Wake, SendListen, SubscribeReturns,
     SubscribeFails, Unsubscribe, SendUnlisten, SendSignal, sessionFrame
<1>9. ASSUME CloseBegins \/ DrainListen \/ DrainUnlisten \/ DrainFails \/ DrainEnds \/
      WaitTimeout \/ LoopEnds \/ Notified \/ SendEnds \/ CloseEnds
      PROVE overtaken' = overtaken
  BY <1>9 DEF CloseBegins, DrainListen, DrainUnlisten, DrainFails, DrainEnds, WaitTimeout,
     LoopEnds, Notified, SendEnds, CloseEnds, loopFrame
<1>10. CASE overtaken' = overtaken
  BY <1>a, <1>10 DEF HistoryType
<1>11. UNCHANGED vars => overtaken' = overtaken
  BY DEF vars
<1> QED
  BY <1>1, <1>2, <1>4, <1>5, <1>6, <1>7, <1>8, <1>9, <1>10, <1>11 DEF Next,
     EnvironmentNext, SubscriptionNext, LoopNext

\* The reference count is the number of registered channels.
LEMMA CountTypeStep == PgInv /\ [Next]_vars => CountType'
<1> SUFFICES ASSUME PgInv, [Next]_vars PROVE CountType'
  OBVIOUS
<1> USE PgAssumption DEF PgInv, OvershootBounded, TypeOK, CountType
<1>1. ASSUME NEW c \in Chans, Subscribe(c) PROVE CountType'
  BY <1>1, RefcountStep DEF Subscribe, Opened, cursor, inbox, listener, postgres,
     RegistryExact, Registered
<1>2. ASSUME NEW c \in Chans, SubscribeFails(c) PROVE CountType'
  BY <1>2, RefcountStep DEF SubscribeFails, Removed, GoroutineStep, reading, cursor,
     inbox, listener, postgres, RegistryExact, Registered
<1>3. ASSUME NEW c \in Chans, Unsubscribe(c) PROVE CountType'
  BY <1>3, RefcountStep DEF Unsubscribe, Removed, GoroutineStep, reading, cursor, inbox,
     listener, postgres, RegistryExact, Registered
<1>4. CASE ConnectionLost \/ SendPanics
  BY <1>4, FS_EmptySet DEF ConnectionLost, SendPanics, Restarted, inbox
<1>5. ASSUME NEW p \in Pushers, Probe(p) \/ Insert(p) \/ Commit(p) \/
      CommitUnknown(p) \/ PutFails(p) \/ Notify(p) \/ NotifyFails(p) PROVE
      UNCHANGED <<subs, refcount>>
  BY <1>5 DEF Probe, Insert, Commit, CommitUnknown, PutFails, Notify, NotifyFails,
     Fits, PushStep, notifierVars, postgres, Overtaken, PushEnds, TransactionEnds, registry,
     listener, reading, cursor
<1>6. ASSUME NEW c \in Chans, Cancel(c) \/ Peek(c) \/ PeekFails(c) \/ SendBlob(c) \/ Wake(c) \/
      DeleteForRecipient(c) \/ SendListen(c) \/ SubscribeReturns(c) \/
      SendUnlisten(c) \/ SendSignal(c) PROVE UNCHANGED <<subs, refcount>>
  BY <1>6 DEF Cancel, Peek, PeekFails, SendBlob, Wake, DeleteForRecipient, SendListen,
     SubscribeReturns, SendUnlisten, SendSignal, GoroutineStep, registry,
     sessionFrame, DeleteRows, rowFrame, Enqueue, reading, cursor, Opened, inbox,
     postgres, listener, notifierVars
<1>7. ASSUME CloseBegins \/ Reap \/ DrainListen \/ DrainUnlisten \/ DrainFails \/
      DrainEnds \/ WaitTimeout \/ LoopEnds \/ Notified \/ SendEnds \/ CloseEnds
      PROVE UNCHANGED <<subs, refcount>>
  BY <1>7 DEF CloseBegins, Reap, DrainListen, DrainUnlisten, DrainFails,
     DrainEnds, WaitTimeout, LoopEnds, Notified, SendEnds, CloseEnds, inbox,
     registry, listener, postgres, reading, cursor, DeleteRows, rowFrame, Answer,
     loopFrame, notifierVars
<1>8. CASE UNCHANGED <<subs, refcount>>
  BY <1>8
<1>9. UNCHANGED vars => UNCHANGED <<subs, refcount>>
  BY DEF vars, inbox, registry, postgres, listener, reading, cursor
<1> QED
  BY <1>1, <1>2, <1>3, <1>4, <1>5, <1>6, <1>7, <1>8, <1>9 DEF Next,
     EnvironmentNext, SubscriptionNext, LoopNext

\* A goroutine's stage is one of those listed.
LEMMA StageTypeStep == PgInv /\ [Next]_vars => StageType'
<1> SUFFICES ASSUME PgInv, [Next]_vars PROVE StageType'
  OBVIOUS
<1> USE DEF PgInv, OvershootBounded, TypeOK, StageType, Stage, Outstanding, Open
<1>1. ASSUME NEW p \in Pushers, CommitUnknown(p) \/ NotifyFails(p) PROVE
      StageType'
  BY <1>1 DEF CommitUnknown, NotifyFails, Overtaken, PushEnds, TransactionEnds, notifierVars,
     postgres, PushStep, registry, listener, reading, cursor
<1>2. ASSUME NEW c \in Chans, Subscribe(c) PROVE StageType'
  BY <1>2 DEF Subscribe, Opened, cursor, inbox, listener, postgres, Idle
<1>3. ASSUME NEW c \in Chans, Cancel(c) PROVE StageType'
  BY <1>3 DEF Cancel, GoroutineStep, registry, inbox, listener, postgres
<1>4. ASSUME NEW c \in Chans, SubscribeReturns(c) PROVE StageType'
  BY <1>4 DEF SubscribeReturns, GoroutineStep, Opened, cursor, registry, inbox, listener,
     postgres
<1>5. ASSUME NEW c \in Chans, SendListen(c) \/ SubscribeFails(c) \/ Unsubscribe(c)
      \/ SendUnlisten(c) PROVE StageType'
  BY <1>5 DEF SendListen, SubscribeFails, Unsubscribe, SendUnlisten, Enqueue,
     GoroutineStep, registry, reading, cursor, Removed, inbox, listener, postgres
<1>6. CASE ConnectionLost \/ SendPanics
  <2>1. deaf' = {} /\ overlap' = FALSE /\ stage \in [Chans -> Stage]
        /\ stage' = [c \in Chans |-> IF stage[c] = "new" THEN "new" ELSE "gone"]
    BY <1>6 DEF ConnectionLost, SendPanics, Restarted
  <2>2. stage' \in [Chans -> Stage] /\ deaf' \subseteq Chans
    BY <2>1
  <2>3. overlap' \in BOOLEAN
    BY <2>1
  <2> QED
    BY <2>2, <2>3
<1>7. CASE CloseEnds
  BY <1>7 DEF CloseEnds, inbox, registry, listener, reading, cursor
<1>8. CASE DrainListen \/ DrainUnlisten \/ DrainFails
  BY <1>8, HeadCommand DEF DrainListen, DrainUnlisten, DrainFails, Answer,
     loopFrame, listener, postgres, inbox, registry, reading, cursor
<1>9. ASSUME NEW p \in Pushers, Probe(p) \/ Insert(p) \/ Commit(p) \/ PutFails(p)
      \/ Notify(p) PROVE UNCHANGED <<stage, deaf, overlap>>
  BY <1>9 DEF Probe, Insert, Commit, PutFails, Notify, Fits, PushStep,
     notifierVars, postgres, Overtaken, PushEnds, TransactionEnds, registry, listener, reading, cursor
<1>10. ASSUME NEW c \in Chans, Peek(c) \/ PeekFails(c) \/ SendBlob(c) \/ Wake(c) \/ DeleteForRecipient(c)
      \/ SendSignal(c) PROVE UNCHANGED <<stage, deaf, overlap>>
  BY <1>10 DEF Peek, PeekFails, SendBlob, Wake, DeleteForRecipient, SendSignal, sessionFrame,
     DeleteRows, rowFrame, inbox, registry, postgres, reading, cursor, listener,
     notifierVars
<1>11. ASSUME CloseBegins \/ Reap \/ DrainEnds \/ WaitTimeout \/ LoopEnds \/
      Notified \/ SendEnds PROVE UNCHANGED <<stage, deaf, overlap>>
  BY <1>11 DEF CloseBegins, Reap, DrainEnds, WaitTimeout, LoopEnds, Notified,
     SendEnds, inbox, registry, listener, postgres, reading, cursor, DeleteRows, rowFrame,
     loopFrame, notifierVars
<1>12. CASE UNCHANGED <<stage, deaf, overlap>>
  BY <1>12
<1>13. UNCHANGED vars => UNCHANGED <<stage, deaf, overlap>>
  BY DEF vars, inbox, registry, postgres, listener, reading, cursor
<1> QED
  BY <1>1, <1>2, <1>3, <1>4, <1>5, <1>6, <1>7, <1>8, <1>9, <1>10, <1>11, <1>12,
     <1>13 DEF Next, EnvironmentNext, SubscriptionNext, LoopNext

\* cmdCh never holds more than its capacity.
LEMMA QueueTypeStep == PgInv /\ [Next]_vars => QueueType'
<1> SUFFICES ASSUME PgInv, [Next]_vars PROVE QueueType'
  OBVIOUS
<1> USE PgAssumption DEF PgInv, OvershootBounded, TypeOK, QueueType
<1>1. ASSUME NEW c \in Chans, SendListen(c) PROVE QueueType'
  BY <1>1 DEF SendListen, Enqueue, GoroutineStep, registry, reading, cursor, inbox,
     listener, postgres
<1>2. ASSUME NEW c \in Chans, SendUnlisten(c) PROVE QueueType'
  <2> DEFINE C == [op : {"LISTEN", "UNLISTEN"}, by : Chans]
             x == [op |-> "UNLISTEN", by |-> c]
  <2>1. cmds' = cmds \/ (cmds' = Append(cmds, x) /\ Len(cmds) < CmdCap)
    BY <1>2 DEF SendUnlisten, Enqueue
  <2>2. x \in C /\ cmds \in Seq(C) /\ Len(cmds) <= CmdCap
    OBVIOUS
  <2> HIDE DEF C, x
  <2>3. Append(cmds, x) \in Seq(C) /\ Len(Append(cmds, x)) = Len(cmds) + 1 /\ Len(cmds) \in Nat
    BY <2>2, Enqueued
  <2>4. CmdCap \in Nat
    OBVIOUS
  <2> HIDE PgAssumption DEF PgInv, OvershootBounded, TypeOK, QueueType
  <2>5. cmds' \in Seq(C)
    BY <2>1, <2>2, <2>3
  <2>6. Len(cmds') <= CmdCap
    BY <2>1, <2>2, <2>3, <2>4
  <2> QED
    BY <2>5, <2>6 DEF C, QueueType
<1>3. CASE ConnectionLost \/ SendPanics
  <2>1. cmds' = <<>> /\ Len(<<>>) = 0
    BY <1>3 DEF ConnectionLost, SendPanics, Restarted
  <2> QED
    BY <2>1
<1>4. CASE DrainListen \/ DrainUnlisten \/ DrainFails
  BY <1>4, HeadCommand DEF DrainListen, DrainUnlisten, DrainFails, Answer,
     loopFrame, listener, postgres, inbox, registry, reading, cursor
<1>5. ASSUME NEW p \in Pushers, Probe(p) \/ Insert(p) \/ Commit(p) \/
      CommitUnknown(p) \/ PutFails(p) \/ Notify(p) \/ NotifyFails(p) PROVE
      UNCHANGED <<cmds>>
  BY <1>5 DEF Probe, Insert, Commit, CommitUnknown, PutFails, Notify, NotifyFails,
     Fits, PushStep, notifierVars, postgres, Overtaken, PushEnds, TransactionEnds, registry,
     listener, reading, cursor
<1>6. ASSUME NEW c \in Chans, Subscribe(c) \/ Cancel(c) \/ Peek(c) \/ PeekFails(c) \/
      SendBlob(c) \/ Wake(c) \/ DeleteForRecipient(c) \/ SubscribeReturns(c) \/ SubscribeFails(c)
      \/ Unsubscribe(c) \/ SendSignal(c) PROVE UNCHANGED <<cmds>>
  BY <1>6 DEF Subscribe, Cancel, Peek, PeekFails, SendBlob, Wake, DeleteForRecipient,
     SubscribeReturns, SubscribeFails, Unsubscribe, SendSignal, Opened, inbox,
     listener, postgres, GoroutineStep, registry, sessionFrame, DeleteRows,
     rowFrame, Removed, reading, cursor, notifierVars
<1>7. ASSUME CloseBegins \/ Reap \/ DrainEnds \/ WaitTimeout \/ LoopEnds \/
      Notified \/ SendEnds \/ CloseEnds PROVE UNCHANGED <<cmds>>
  BY <1>7 DEF CloseBegins, Reap, DrainEnds, WaitTimeout, LoopEnds, Notified,
     SendEnds, CloseEnds, inbox, registry, listener, postgres, reading, cursor,
     DeleteRows, rowFrame, loopFrame, notifierVars
<1>8. CASE UNCHANGED <<cmds>>
  BY <1>8
<1>9. UNCHANGED vars => UNCHANGED <<cmds>>
  BY DEF vars, inbox, registry, postgres, listener, reading, cursor
<1> QED
  BY <1>1, <1>2, <1>3, <1>4, <1>5, <1>6, <1>7, <1>8, <1>9 DEF Next,
     EnvironmentNext, SubscriptionNext, LoopNext

\* The loop copies registered channels only, and reads no notification twice.
LEMMA LoopTypeStep == PgInv /\ [Next]_vars => LoopType'
<1> SUFFICES ASSUME PgInv, [Next]_vars PROVE LoopType'
  OBVIOUS
<1> USE DEF PgInv, OvershootBounded, TypeOK, LoopType
<1>1. ASSUME NEW p \in Pushers, Notify(p) PROVE LoopType'
  BY <1>1 DEF Notify, PushEnds, TransactionEnds, notifierVars, PushStep, registry, listener,
     reading, cursor
<1>2. CASE ConnectionLost \/ SendPanics
  <2>1. listening' \in BOOLEAN
    BY <1>2 DEF ConnectionLost, SendPanics, Restarted
  <2>2. store' = "open" /\ loop' = "drain" /\ snapshot' = {} /\ mail' = 0
    BY <1>2 DEF ConnectionLost, SendPanics, Restarted
  <2> QED
    BY <2>1, <2>2
<1>3. CASE CloseBegins \/ CloseEnds
  BY <1>3 DEF CloseBegins, CloseEnds, inbox, registry, listener, postgres, reading, cursor
<1>4. CASE DrainListen \/ DrainUnlisten
  BY <1>4 DEF DrainListen, DrainUnlisten, Answer, loopFrame, listener, inbox,
     registry, reading, cursor
<1>5. CASE DrainEnds \/ WaitTimeout \/ LoopEnds \/ SendEnds
  BY <1>5 DEF DrainEnds, WaitTimeout, LoopEnds, SendEnds, loopFrame, postgres,
     inbox, registry, reading, cursor
<1>6. CASE Notified
  BY <1>6 DEF Notified, loopFrame, inbox, registry, reading, cursor
<1>7. ASSUME NEW c \in Chans, SendSignal(c) PROVE LoopType'
  BY <1>7 DEF SendSignal, inbox, registry, postgres, reading, cursor
<1>8. ASSUME NEW p \in Pushers, Probe(p) \/ Insert(p) \/ Commit(p) \/
      CommitUnknown(p) \/ PutFails(p) \/ NotifyFails(p) PROVE UNCHANGED <<store,
      loop, snapshot, listening, mail>>
  BY <1>8 DEF Probe, Insert, Commit, CommitUnknown, PutFails, NotifyFails, Fits,
     PushStep, notifierVars, postgres, Overtaken, PushEnds, TransactionEnds, registry, listener,
     reading, cursor
<1>9. ASSUME NEW c \in Chans, Subscribe(c) \/ Cancel(c) \/ Peek(c) \/ PeekFails(c) \/
      SendBlob(c) \/ Wake(c) \/ DeleteForRecipient(c) \/ SendListen(c) \/ SubscribeReturns(c) \/
      SubscribeFails(c) \/ Unsubscribe(c) \/ SendUnlisten(c) PROVE UNCHANGED
      <<store, loop, snapshot, listening, mail>>
  BY <1>9 DEF Subscribe, Cancel, Peek, PeekFails, SendBlob, Wake, DeleteForRecipient, SendListen,
     SubscribeReturns, SubscribeFails, Unsubscribe, SendUnlisten, Opened, inbox,
     listener, postgres, GoroutineStep, registry, sessionFrame, DeleteRows,
     rowFrame, Enqueue, reading, cursor, Removed, notifierVars
<1>10. ASSUME Reap \/ DrainFails PROVE UNCHANGED <<store, loop, snapshot,
      listening, mail>>
  BY <1>10 DEF Reap, DrainFails, DeleteRows, rowFrame, Answer, loopFrame,
     listener, postgres, notifierVars, inbox, registry, reading, cursor
<1>11. CASE UNCHANGED <<store, loop, snapshot, listening, mail>>
  BY <1>11
<1>12. UNCHANGED vars => UNCHANGED <<store, loop, snapshot, listening, mail>>
  BY DEF vars, inbox, registry, postgres, listener, reading, cursor
<1> QED
  BY <1>1, <1>2, <1>3, <1>4, <1>5, <1>6, <1>7, <1>8, <1>9, <1>10, <1>11, <1>12 DEF
     Next, EnvironmentNext, SubscriptionNext, LoopNext

\* A read returns ids that were handed out.
LEMMA PeekFacts ==
    ASSUME PgInv, NEW c \in Chans
    PROVE  /\ PeekAfter(c) \subseteq 1 .. seq /\ PeekAfter(c) \subseteq 1 .. MaxId
           /\ \A i \in PeekAfter(c) : i \in rows /\ lastID[c] < i /\ i <= seq
<1>1. /\ seq \in Nat /\ MaxId \in Nat /\ seq <= MaxId /\ rows \subseteq 1 .. seq
      /\ lastID[c] \in 0 .. MaxId
  BY PgAssumption DEF PgInv, OvershootBounded, TypeOK
<1>2. PeekAfter(c) \subseteq rows /\ \A i \in PeekAfter(c) : i > lastID[c]
  BY DEF PeekAfter
<1>3. ASSUME NEW i \in PeekAfter(c)
      PROVE  i \in 1 .. seq /\ i \in 1 .. MaxId /\ lastID[c] < i /\ i <= seq
  <2>1. i \in 1 .. seq /\ i > lastID[c]
    BY <1>1, <1>2
  <2> QED
    BY <1>1, <2>1
<1> QED
  BY <1>2, <1>3

\* The least id of the batch is sent.
SendsOne(c, i) ==
    /\ \A j \in batch[c] : i <= j
    /\ lastID[c] < i /\ i <= seq
    /\ lastID' = [lastID EXCEPT ![c] = i]
    /\ batch' = [batch EXCEPT ![c] = batch[c] \ {i}]
    /\ delivered' = [delivered EXCEPT ![c] = delivered[c] \cup {i}]
    /\ task' = [task EXCEPT ![c] = IF batch[c] = {i} THEN "wait" ELSE "send"]

\* An iteration of deliverNew's loop sends the least id of the batch.
LEMMA SendFacts ==
    ASSUME PgInv, NEW c \in Chans, SendBlob(c)
    PROVE  \E i \in batch[c] : SendsOne(c, i)
BY DEF SendBlob, SendsOne, PgInv, OvershootBounded, TypeOK, CursorsBehind

\* A session sends ids of rows and its cursor is one of them.
LEMMA ReadTypeStep == PgInv /\ [Next]_vars => ReadType'
<1> SUFFICES ASSUME PgInv, [Next]_vars PROVE ReadType'
  OBVIOUS
<1> USE PgAssumption DEF PgInv, OvershootBounded, TypeOK, ReadType
<1>a. 0 \in 0 .. MaxId /\ seq \in Nat /\ MaxId \in Nat /\ seq <= MaxId
  OBVIOUS
<1>1. ASSUME NEW c \in Chans, Subscribe(c) \/ SubscribeReturns(c) PROVE ReadType'
  BY <1>1 DEF Subscribe, SubscribeReturns, Opened, cursor, inbox, listener, postgres,
     GoroutineStep, registry
<1>2. ASSUME NEW c \in Chans, Cancel(c) PROVE ReadType'
  BY <1>2 DEF Cancel, GoroutineStep, registry, inbox, listener, postgres
<1>3. ASSUME NEW c \in Chans, Peek(c) \/ PeekFails(c) PROVE ReadType'
  <2>1. PeekAfter(c) \in SUBSET (1 .. MaxId)
    BY PeekFacts
  <2>2. UNCHANGED <<signal, lastID, delivered>>
    BY <1>3 DEF Peek, PeekFails
  <2>3. batch' \in [Chans -> SUBSET (1 .. MaxId)] /\ missed' \in [Chans -> SUBSET (1 .. MaxId)]
    <3>1. /\ batch' = batch \/ batch' = [batch EXCEPT ![c] = PeekAfter(c)]
          /\ missed' = missed \/ missed' = [missed EXCEPT ![c] = PeekAfter(c)]
      BY <1>3 DEF Peek, PeekFails
    <3> QED
      BY <2>1, <3>1
  <2>4. task' \in [Chans -> {"peek", "send", "wait"}]
    BY <1>3 DEF Peek, PeekFails
  <2> QED
    BY <2>2, <2>3, <2>4
<1>b. ASSUME NEW c \in Chans, SendBlob(c) PROVE ReadType'
  <2>1. PICK i \in batch[c] : SendsOne(c, i)
    BY <1>b, SendFacts
  <2>2. i \in 1 .. MaxId /\ i \in 0 .. MaxId
    BY <1>a
  <2>3. UNCHANGED <<signal, missed>>
    BY <1>b DEF SendBlob
  <2> QED
    BY <2>1, <2>2, <2>3 DEF SendsOne
<1>4. ASSUME NEW c \in Chans, Wake(c) PROVE ReadType'
  BY <1>4 DEF Wake, sessionFrame, inbox, registry, listener, postgres
<1>5. ASSUME NEW c \in Chans, SendSignal(c) PROVE ReadType'
  BY <1>5 DEF SendSignal, inbox, registry, postgres, reading, cursor
<1>6. ASSUME NEW c \in Chans, SubscribeFails(c) \/ Unsubscribe(c) PROVE ReadType'
  BY <1>6 DEF SubscribeFails, Unsubscribe, Removed, GoroutineStep, reading, cursor, inbox,
     listener, postgres
<1>7. CASE ConnectionLost \/ SendPanics
  <2>1. signal' \in [Chans -> BOOLEAN] /\ task' \in [Chans -> {"peek", "send", "wait"}]
    BY <1>7 DEF ConnectionLost, SendPanics, Restarted
  <2>2. /\ lastID' = [c \in Chans |-> 0] /\ delivered' = [c \in Chans |-> {}]
        /\ batch' = [c \in Chans |-> {}] /\ missed' = [c \in Chans |-> {}]
    BY <1>7 DEF ConnectionLost, SendPanics, Restarted
  <2>3. lastID' \in [Chans -> 0 .. MaxId]
    BY <2>2, <1>a
  <2> QED
    BY <2>1, <2>2, <2>3
<1>8. ASSUME NEW p \in Pushers, Probe(p) \/ Insert(p) \/ Commit(p) \/
      CommitUnknown(p) \/ PutFails(p) \/ Notify(p) \/ NotifyFails(p) PROVE
      UNCHANGED <<signal, task, lastID, batch, delivered, missed>>
  BY <1>8 DEF Probe, Insert, Commit, CommitUnknown, PutFails, Notify, NotifyFails,
     Fits, PushStep, notifierVars, postgres, Overtaken, PushEnds, TransactionEnds, registry,
     listener, reading, cursor
<1>9. ASSUME NEW c \in Chans, DeleteForRecipient(c) \/ SendListen(c) \/
      SendUnlisten(c) PROVE UNCHANGED <<signal, task, lastID, batch, delivered, missed>>
  BY <1>9 DEF DeleteForRecipient, SendListen, SendUnlisten, DeleteRows, rowFrame,
     Enqueue, GoroutineStep, registry, reading, cursor, notifierVars, postgres, inbox,
     listener
<1>10. ASSUME CloseBegins \/ Reap \/ DrainListen \/ DrainUnlisten \/ DrainFails \/
      DrainEnds \/ WaitTimeout \/ LoopEnds \/ Notified \/ SendEnds \/ CloseEnds
      PROVE UNCHANGED <<signal, task, lastID, batch, delivered, missed>>
  BY <1>10 DEF CloseBegins, Reap, DrainListen, DrainUnlisten, DrainFails,
     DrainEnds, WaitTimeout, LoopEnds, Notified, SendEnds, CloseEnds, inbox,
     registry, listener, postgres, reading, cursor, DeleteRows, rowFrame, Answer,
     loopFrame, notifierVars
<1>11. CASE UNCHANGED <<signal, task, lastID, batch, delivered, missed>>
  BY <1>11
<1>12. UNCHANGED vars => UNCHANGED <<signal, task, lastID, batch, delivered, missed>>
  BY DEF vars, inbox, registry, postgres, listener, reading, cursor
<1> QED
  BY <1>1, <1>2, <1>3, <1>b, <1>4, <1>5, <1>6, <1>7, <1>8, <1>9, <1>10, <1>11, <1>12 DEF
     Next, EnvironmentNext, SubscriptionNext, LoopNext

\* State keeps its type.
LEMMA TypeStep == PgInv /\ [Next]_vars => TypeOK'
BY InboxTypeStep, CountTypeStep, StageTypeStep, QueueTypeStep, LoopTypeStep, ReadTypeStep,
   HistoryTypeStep DEF TypeOK, HistoryType, InboxType, CountType, StageType, QueueType, LoopType, ReadType

\* The sequence hands an id out once, whatever becomes of its transaction.
LEMMA IdsStep == PgInv /\ [Next]_vars => IdsUnused'
<1> SUFFICES ASSUME PgInv, [Next]_vars PROVE IdsUnused'
  OBVIOUS
<1> USE PgAssumption DEF PgInv, OvershootBounded, TypeOK, IdsUnused, Committing,
     CursorsBehind, ReadIds
<1>1. ASSUME NEW p \in Pushers, Probe(p) PROVE IdsUnused'
  BY <1>1 DEF Probe, Fits, PushStep, notifierVars, postgres, registry, listener,
     reading, cursor
<1>2. ASSUME NEW p \in Pushers, Insert(p) PROVE IdsUnused'
  BY <1>2 DEF Insert, PushStep, notifierVars, postgres, registry, listener,
     reading, cursor
<1>3. ASSUME NEW p \in Pushers, Commit(p) \/ CommitUnknown(p) PROVE IdsUnused'
  <2>1. /\ p \in Committing /\ rows' = rows \cup {pid[p]} /\ seq' = seq
        /\ UNCHANGED <<lastID, batch>>
        /\ \A q \in Pushers : q # p => ppc'[q] = ppc[q] /\ pid'[q] = pid[q]
        /\ ppc'[p] # "commit"
    BY <1>3 DEF Commit, CommitUnknown, PushStep, PushEnds, TransactionEnds, notifierVars, reading, cursor
  <2>2. \A q \in Pushers : ppc'[q] = "commit" =>
           q # p /\ q \in Committing /\ pid'[q] = pid[q] /\ pid[q] # pid[p]
    BY <2>1
  <2> QED
    BY <2>1, <2>2
<1>4. ASSUME NEW p \in Pushers, PutFails(p) \/ Notify(p) \/ NotifyFails(p)
      PROVE  IdsUnused'
  <2>1. UNCHANGED <<rows, seq, lastID, batch>>
    BY <1>4 DEF PutFails, Notify, NotifyFails, notifierVars, reading, cursor
  <2>2. /\ ppc' = [ppc EXCEPT ![p] = "idle"] /\ pid' = [pid EXCEPT ![p] = 0]
    BY <1>4 DEF PutFails, Notify, NotifyFails, PushEnds, TransactionEnds, PushStep
  <2>3. \A q \in Committing' : q \in Committing /\ pid'[q] = pid[q]
    BY <2>2
  <2> QED
    BY <2>1, <2>3
<1>5. ASSUME NEW c \in Chans, Cancel(c) PROVE IdsUnused'
  BY <1>5 DEF Cancel, GoroutineStep, registry, inbox, listener, postgres
<1>6. ASSUME NEW c \in Chans, Peek(c) \/ SendBlob(c) PROVE IdsUnused'
  <2>1. UNCHANGED <<rows, seq, ppc, pid>>
    BY <1>6 DEF Peek, SendBlob, sessionFrame, inbox
  <2>2. \A d \in Chans : ReadIds(d)' \subseteq ReadIds(d) \cup rows
    <3>1. CASE Peek(c)
      BY <3>1, PeekFacts DEF Peek
    <3>2. CASE SendBlob(c)
      BY <3>2, SendFacts DEF SendsOne
    <3> QED
      BY <1>6, <3>1, <3>2
  <2> QED
    BY <2>1, <2>2
<1>7. ASSUME NEW c \in Chans, DeleteForRecipient(c) PROVE IdsUnused'
  BY <1>7 DEF DeleteForRecipient, DeleteRows, rowFrame, notifierVars, postgres,
     registry, listener, reading, cursor
<1>8. CASE Reap
  BY <1>8 DEF Reap, DeleteRows, rowFrame, notifierVars, postgres, registry,
     listener, reading, cursor
<1>9. CASE ConnectionLost \/ SendPanics
  BY <1>9 DEF ConnectionLost, SendPanics, Restarted, inbox
<1>10. ASSUME NEW c \in Chans, Subscribe(c) \/ PeekFails(c) \/ Wake(c) \/ SendListen(c) \/
      SubscribeReturns(c) \/ SubscribeFails(c) \/ Unsubscribe(c) \/
      SendUnlisten(c) \/ SendSignal(c) PROVE UNCHANGED <<rows, seq, ppc, pid, lastID, batch>>
  BY <1>10 DEF Subscribe, PeekFails, Wake, SendListen, SubscribeReturns, SubscribeFails,
     Unsubscribe, SendUnlisten, SendSignal, Opened, inbox, listener, postgres,
     sessionFrame, Enqueue, GoroutineStep, registry, reading, cursor, Removed
<1>11. ASSUME CloseBegins \/ DrainListen \/ DrainUnlisten \/ DrainFails \/
      DrainEnds \/ WaitTimeout \/ LoopEnds \/ Notified \/ SendEnds \/ CloseEnds
      PROVE UNCHANGED <<rows, seq, ppc, pid, lastID, batch>>
  BY <1>11 DEF CloseBegins, DrainListen, DrainUnlisten, DrainFails, DrainEnds,
     WaitTimeout, LoopEnds, Notified, SendEnds, CloseEnds, inbox, registry,
     listener, postgres, reading, cursor, Answer, loopFrame
<1>12. CASE UNCHANGED <<rows, seq, ppc, pid, lastID, batch>>
  BY <1>12
<1>13. UNCHANGED vars => UNCHANGED <<rows, seq, ppc, pid, lastID, batch>>
  BY DEF vars, inbox, registry, postgres, listener, reading, cursor
<1> QED
  BY <1>1, <1>2, <1>3, <1>4, <1>5, <1>6, <1>7, <1>8, <1>9, <1>10, <1>11, <1>12,
     <1>13 DEF Next, EnvironmentNext, SubscriptionNext, LoopNext

\* A cursor only ever stands on an id that was handed out, before what is still to
\* be sent.
LEMMA CursorStep == PgInv /\ [Next]_vars => CursorsBehind'
<1> SUFFICES ASSUME PgInv, [Next]_vars PROVE CursorsBehind'
  OBVIOUS
<1> USE PgAssumption DEF PgInv, OvershootBounded, TypeOK, CursorsBehind
<1>1. ASSUME NEW p \in Pushers, Insert(p) PROVE CursorsBehind'
  BY <1>1 DEF Insert, PushStep, notifierVars, postgres, registry, listener,
     reading, cursor
<1>2. ASSUME NEW c \in Chans, Subscribe(c) PROVE CursorsBehind'
  BY <1>2 DEF Subscribe, Opened, cursor, inbox, listener, postgres
<1>3. ASSUME NEW c \in Chans, Cancel(c) PROVE CursorsBehind'
  BY <1>3 DEF Cancel, GoroutineStep, registry, inbox, listener, postgres
<1>4. ASSUME NEW c \in Chans, Peek(c) \/ PeekFails(c) \/ Wake(c) PROVE CursorsBehind'
  <2>1. /\ UNCHANGED <<seq, stage, lastID>> /\ stage[c] = "open" /\ batch[c] = {}
        /\ \A d \in Chans : d # c => batch'[d] = batch[d] /\ task'[d] = task[d]
    BY <1>4 DEF Peek, PeekFails, Wake, sessionFrame, inbox
  <2>2. batch'[c] = {} \/ (batch'[c] = PeekAfter(c) /\ task'[c] = "send")
    BY <1>4, <2>1 DEF Peek, PeekFails, Wake
  <2>3. \A i \in batch'[c] : lastID[c] < i /\ i <= seq
    BY <2>2, PeekFacts
  <2> QED
    BY <2>1, <2>2, <2>3
<1>b. ASSUME NEW c \in Chans, SendBlob(c) PROVE CursorsBehind'
  <2>1. PICK i \in batch[c] : SendsOne(c, i)
    BY <1>b, SendFacts
  <2>2. UNCHANGED <<seq, stage>> /\ stage[c] = "open"
    BY <1>b DEF SendBlob, sessionFrame, inbox
  <2>3. \A j \in batch[c] \ {i} : i < j /\ j <= seq
    BY <2>1 DEF SendsOne
  <2> QED
    BY <2>1, <2>2, <2>3 DEF SendsOne
<1>5. ASSUME NEW c \in Chans, SendListen(c) \/ SubscribeReturns(c) \/
      SubscribeFails(c) \/ Unsubscribe(c) \/ SendUnlisten(c) PROVE CursorsBehind'
  BY <1>5 DEF SendListen, SubscribeReturns, SubscribeFails, Unsubscribe,
     SendUnlisten, Enqueue, GoroutineStep, registry, reading, cursor, Opened, Removed,
     inbox, listener, postgres
<1>6. CASE ConnectionLost \/ SendPanics
  BY <1>6 DEF ConnectionLost, SendPanics, Restarted, inbox
<1>7. CASE DrainListen \/ DrainUnlisten \/ DrainFails
  BY <1>7, HeadCommand DEF DrainListen, DrainUnlisten, DrainFails, Answer,
     loopFrame, listener, postgres, inbox, registry, reading, cursor
<1>8. ASSUME NEW p \in Pushers, Probe(p) \/ Commit(p) \/ CommitUnknown(p) \/
      PutFails(p) \/ Notify(p) \/ NotifyFails(p) PROVE UNCHANGED <<seq, stage, lastID, batch, task>>
  BY <1>8 DEF Probe, Commit, CommitUnknown, PutFails, Notify, NotifyFails, Fits,
     PushStep, notifierVars, postgres, Overtaken, PushEnds, TransactionEnds, registry, listener,
     reading, cursor
<1>9. ASSUME NEW c \in Chans, DeleteForRecipient(c) \/ SendSignal(c)
      PROVE UNCHANGED <<seq, stage, lastID, batch, task>>
  BY <1>9 DEF DeleteForRecipient, SendSignal, sessionFrame, DeleteRows,
     rowFrame, inbox, registry, postgres, reading, cursor, listener, notifierVars
<1>10. ASSUME CloseBegins \/ Reap \/ DrainEnds \/ WaitTimeout \/ LoopEnds \/
      Notified \/ SendEnds \/ CloseEnds PROVE UNCHANGED <<seq, stage, lastID, batch, task>>
  BY <1>10 DEF CloseBegins, Reap, DrainEnds, WaitTimeout, LoopEnds, Notified,
     SendEnds, CloseEnds, inbox, registry, listener, postgres, reading, cursor,
     DeleteRows, rowFrame, loopFrame, notifierVars
<1>11. CASE UNCHANGED <<seq, stage, lastID, batch, task>>
  BY <1>11
<1>12. UNCHANGED vars => UNCHANGED <<seq, stage, lastID, batch, task>>
  BY DEF vars, inbox, registry, postgres, listener, reading, cursor
<1> QED
  BY <1>1, <1>2, <1>3, <1>4, <1>b, <1>5, <1>6, <1>7, <1>8, <1>9, <1>10, <1>11, <1>12 DEF
     Next, EnvironmentNext, SubscriptionNext, LoopNext

\* LISTEN goes out of force only in steps that count every open session as deaf.
LEMMA HearingStep == PgInv /\ [Next]_vars => Hearing'
<1> SUFFICES ASSUME PgInv, [Next]_vars PROVE Hearing'
  OBVIOUS
<1> USE DEF PgInv, OvershootBounded, TypeOK, Hearing, Open
<1>1. ASSUME NEW p \in Pushers, CommitUnknown(p) \/ NotifyFails(p) PROVE Hearing'
  BY <1>1 DEF CommitUnknown, NotifyFails, Overtaken, PushEnds, TransactionEnds, notifierVars,
     postgres, PushStep, registry, listener, reading, cursor
<1>2. ASSUME NEW c \in Chans, Subscribe(c) PROVE Hearing'
  BY <1>2 DEF Subscribe, Opened, cursor, inbox, listener, postgres
<1>3. ASSUME NEW c \in Chans, Cancel(c) PROVE Hearing'
  BY <1>3 DEF Cancel, GoroutineStep, registry, inbox, listener, postgres
<1>4. ASSUME NEW c \in Chans, SubscribeReturns(c) PROVE Hearing'
  BY <1>4 DEF SubscribeReturns, GoroutineStep, Opened, cursor, registry, inbox, listener,
     postgres
<1>5. ASSUME NEW c \in Chans, SendListen(c) \/ SubscribeFails(c) \/ Unsubscribe(c)
      \/ SendUnlisten(c) PROVE Hearing'
  BY <1>5 DEF SendListen, SubscribeFails, Unsubscribe, SendUnlisten, Enqueue,
     GoroutineStep, registry, reading, cursor, Removed, inbox, listener, postgres
<1>6. CASE ConnectionLost \/ SendPanics
  BY <1>6 DEF ConnectionLost, SendPanics, Restarted, inbox
<1>7. CASE CloseEnds
  BY <1>7 DEF CloseEnds, inbox, registry, listener, reading, cursor
<1>8. CASE DrainListen \/ DrainUnlisten \/ DrainFails
  BY <1>8, HeadCommand DEF DrainListen, DrainUnlisten, DrainFails, Answer,
     loopFrame, listener, postgres, inbox, registry, reading, cursor
<1>9. ASSUME NEW p \in Pushers, Probe(p) \/ Insert(p) \/ Commit(p) \/ PutFails(p)
      \/ Notify(p) PROVE UNCHANGED <<stage, deaf, listening>>
  BY <1>9 DEF Probe, Insert, Commit, PutFails, Notify, Fits, PushStep,
     notifierVars, postgres, Overtaken, PushEnds, TransactionEnds, registry, listener, reading, cursor
<1>10. ASSUME NEW c \in Chans, Peek(c) \/ PeekFails(c) \/ SendBlob(c) \/ Wake(c) \/ DeleteForRecipient(c)
      \/ SendSignal(c) PROVE UNCHANGED <<stage, deaf, listening>>
  BY <1>10 DEF Peek, PeekFails, SendBlob, Wake, DeleteForRecipient, SendSignal, sessionFrame,
     DeleteRows, rowFrame, inbox, registry, postgres, reading, cursor, listener,
     notifierVars
<1>11. ASSUME CloseBegins \/ Reap \/ DrainEnds \/ WaitTimeout \/ LoopEnds \/
      Notified \/ SendEnds PROVE UNCHANGED <<stage, deaf, listening>>
  BY <1>11 DEF CloseBegins, Reap, DrainEnds, WaitTimeout, LoopEnds, Notified,
     SendEnds, inbox, registry, listener, postgres, reading, cursor, DeleteRows, rowFrame,
     loopFrame, notifierVars
<1>12. CASE UNCHANGED <<stage, deaf, listening>>
  BY <1>12
<1>13. UNCHANGED vars => UNCHANGED <<stage, deaf, listening>>
  BY DEF vars, inbox, registry, postgres, listener, reading, cursor
<1> QED
  BY <1>1, <1>2, <1>3, <1>4, <1>5, <1>6, <1>7, <1>8, <1>9, <1>10, <1>11, <1>12,
     <1>13 DEF Next, EnvironmentNext, SubscriptionNext, LoopNext

\* Without overlapping Subscribes the reference count and LISTEN go together.
LEMMA SerialStep == PgInv /\ [Next]_vars => Serial'
<1> SUFFICES ASSUME PgInv, [Next]_vars PROVE Serial'
  OBVIOUS
<1> USE DEF PgInv, OvershootBounded, TypeOK, Serial, RegistryExact, Registered,
     Outstanding
<1>1. ASSUME NEW c \in Chans, Subscribe(c) PROVE Serial'
  <2>1. /\ stage[c] = "new" /\ subs' = subs \cup {c} /\ UNCHANGED <<store, listening>>
        /\ overlap' = (overlap \/ ~Idle)
    BY <1>1 DEF Subscribe, postgres
  <2>2. SUFFICES ASSUME ~overlap, Idle PROVE Serial'
    BY <2>1
  <2>3. \A d \in Chans : stage[d] \notin Outstanding
    BY <2>2 DEF Idle
  <2>4. CASE refcount = 0
    <3>1. subs = {}
      BY <2>4, RefcountStep
    <3>2. stage' = [stage EXCEPT ![c] = "counted"]
      BY <1>1, <2>4 DEF Subscribe
    <3> QED
      BY <2>1, <2>2, <2>3, <3>1, <3>2
  <2>5. CASE refcount > 0
    <3>1. subs # {}
      <4>1. refcount = 0 <=> subs = {}
        BY RefcountStep
      <4> QED
        BY <2>5, <4>1
    <3>2. stage' = [stage EXCEPT ![c] = "open"]
      BY <1>1, <2>5 DEF Subscribe
    <3>3. store = "open" => listening
      BY <2>2, <2>3, <3>1
    <3> QED
      BY <2>1, <2>2, <2>3, <3>2, <3>3
  <2> QED
    BY <1>1, <2>4, <2>5 DEF Subscribe
<1>2. ASSUME NEW c \in Chans, Cancel(c) PROVE Serial'
  BY <1>2 DEF Cancel, GoroutineStep, registry, inbox, listener, postgres
<1>3. ASSUME NEW c \in Chans, SendListen(c) PROVE Serial'
  BY <1>3 DEF SendListen, Enqueue, GoroutineStep, registry, reading, cursor, inbox,
     listener, postgres
<1>4. ASSUME NEW c \in Chans, SubscribeReturns(c) PROVE Serial'
  BY <1>4 DEF SubscribeReturns, GoroutineStep, Opened, cursor, registry, inbox, listener,
     postgres
<1>5. ASSUME NEW c \in Chans, SubscribeFails(c) PROVE Serial'
  BY <1>5 DEF SubscribeFails, Removed, GoroutineStep, reading, cursor, inbox, listener,
     postgres
<1>6. ASSUME NEW c \in Chans, Unsubscribe(c) PROVE Serial'
  <2>1. /\ stage[c] = "cancelled" /\ subs' = subs \ {c} /\ c \in subs
        /\ stage' = [stage EXCEPT ![c] = IF refcount = 1 THEN "owes" ELSE "gone"]
        /\ UNCHANGED <<store, listening, overlap>>
    BY <1>6 DEF Unsubscribe, Removed, GoroutineStep, postgres
  <2>2. refcount = 1 => subs = {c}
    BY <2>1, RefcountStep
  <2>3. SUFFICES ASSUME ~overlap PROVE Serial'
    BY <2>1
  <2>4. \A d \in Chans : stage[d] \notin Outstanding
    BY <2>1, <2>3
  <2> QED
    BY <2>1, <2>2, <2>3, <2>4
<1>7. ASSUME NEW c \in Chans, SendUnlisten(c) PROVE Serial'
  BY <1>7 DEF SendUnlisten, Enqueue, GoroutineStep, registry, reading, cursor, inbox,
     listener, postgres
<1>8. CASE ConnectionLost \/ SendPanics
  <2>1. \A c \in Chans : stage'[c] \in {"new", "gone"}
    BY <1>8 DEF ConnectionLost, SendPanics, Restarted
  <2> QED
    BY <2>1 DEF Serial, Outstanding
<1>9. CASE CloseBegins \/ CloseEnds
  BY <1>9 DEF CloseBegins, CloseEnds, inbox, registry, listener, postgres, reading, cursor
<1>10. CASE DrainListen
  BY <1>10, HeadCommand DEF DrainListen, Answer, loopFrame, listener, inbox,
     registry, reading, cursor
<1>11. CASE DrainUnlisten
  BY <1>11, HeadCommand DEF DrainUnlisten, Answer, loopFrame, listener, inbox,
     registry, reading, cursor
<1>12. CASE DrainFails
  BY <1>12, HeadCommand DEF DrainFails, Answer, loopFrame, listener, postgres,
     inbox, registry, reading, cursor
<1>13. ASSUME NEW p \in Pushers, Probe(p) \/ Insert(p) \/ Commit(p) \/
      CommitUnknown(p) \/ PutFails(p) \/ Notify(p) \/ NotifyFails(p) PROVE
      UNCHANGED <<overlap, stage, subs, store, listening>>
  BY <1>13 DEF Probe, Insert, Commit, CommitUnknown, PutFails, Notify,
     NotifyFails, Fits, PushStep, notifierVars, postgres, Overtaken, PushEnds, TransactionEnds,
     registry, listener, reading, cursor
<1>14. ASSUME NEW c \in Chans, Peek(c) \/ PeekFails(c) \/ SendBlob(c) \/ Wake(c) \/ DeleteForRecipient(c)
      \/ SendSignal(c) PROVE UNCHANGED <<overlap, stage, subs, store, listening>>
  BY <1>14 DEF Peek, PeekFails, SendBlob, Wake, DeleteForRecipient, SendSignal, sessionFrame,
     DeleteRows, rowFrame, inbox, registry, postgres, reading, cursor, listener,
     notifierVars
<1>15. ASSUME Reap \/ DrainEnds \/ WaitTimeout \/ LoopEnds \/ Notified \/ SendEnds
      PROVE UNCHANGED <<overlap, stage, subs, store, listening>>
  BY <1>15 DEF Reap, DrainEnds, WaitTimeout, LoopEnds, Notified, SendEnds,
     DeleteRows, rowFrame, loopFrame, postgres, notifierVars, inbox, registry,
     reading, cursor, listener
<1>16. CASE UNCHANGED <<overlap, stage, subs, store, listening>>
  BY <1>16
<1>17. UNCHANGED vars => UNCHANGED <<overlap, stage, subs, store, listening>>
  BY DEF vars, inbox, registry, postgres, listener, reading, cursor
<1> QED
  BY <1>1, <1>2, <1>3, <1>4, <1>5, <1>6, <1>7, <1>8, <1>9, <1>10, <1>11, <1>12,
     <1>13, <1>14, <1>15, <1>16, <1>17 DEF Next, EnvironmentNext,
     SubscriptionNext, LoopNext

\* A row no higher than what was read was sent, is to be sent, or was committed late.
LEMMA SkipStep == PgInv /\ [Next]_vars => SkipsOnlyOvertaken'
<1> SUFFICES ASSUME PgInv, [Next]_vars PROVE SkipsOnlyOvertaken'
  OBVIOUS
<1> USE PgAssumption DEF PgInv, OvershootBounded, TypeOK, SkipsOnlyOvertaken,
     Open, CursorsBehind, ReadIds
<1>1. ASSUME NEW p \in Pushers, Commit(p) \/ CommitUnknown(p)
      PROVE  SkipsOnlyOvertaken'
  <2>1. /\ rows' = rows \cup {pid[p]} /\ p \in Committing
        /\ UNCHANGED <<stage, lastID, batch, delivered>>
        /\ overtaken' = [c \in Chans |-> IF c \in Open /\ \E j \in ReadIds(c) : j > pid[p]
                                         THEN overtaken[c] \cup {pid[p]} ELSE overtaken[c]]
    BY <1>1 DEF Commit, CommitUnknown, Overtaken, notifierVars, reading, cursor, Committing
  <2>2. /\ pid[p] \in Int
        /\ \A c \in Chans : pid[p] \notin ReadIds(c) /\ \A j \in ReadIds(c) : j \in Int
    BY <2>1 DEF IdsUnused
  <2>3. \A c \in Open : \A j \in ReadIds(c) : pid[p] <= j => pid[p] \in overtaken'[c]
    BY <2>1, <2>2
  <2>4. \A c \in Chans : overtaken[c] \subseteq overtaken'[c] /\ ReadIds(c)' = ReadIds(c)
    BY <2>1
  <2>5. Open' = Open /\ UNCHANGED <<delivered, batch>>
    BY <2>1
  <2> QED
    BY <2>1, <2>3, <2>4, <2>5
<1>2. ASSUME NEW c \in Chans, Subscribe(c) PROVE SkipsOnlyOvertaken'
  <2>1. UNCHANGED <<rows, lastID, batch, delivered, overtaken>>
    BY <1>2 DEF Subscribe, inbox, cursor
  <2>2. stage[c] # "open" /\ \A d \in Chans : d # c => stage'[d] = stage[d]
    BY <1>2 DEF Subscribe
  <2>3. ReadIds(c) = {0} /\ \A i \in rows : ~(i <= 0)
    BY <2>2
  <2> QED
    BY <2>1, <2>2, <2>3
<1>3. ASSUME NEW c \in Chans, Cancel(c) PROVE SkipsOnlyOvertaken'
  BY <1>3 DEF Cancel, GoroutineStep, registry, inbox, listener, postgres
<1>4. ASSUME NEW c \in Chans, Peek(c) PROVE SkipsOnlyOvertaken'
  <2>1. /\ UNCHANGED <<rows, stage, lastID, delivered, overtaken>> /\ batch[c] = {}
        /\ batch' = [batch EXCEPT ![c] = PeekAfter(c)]
    BY <1>4 DEF Peek, sessionFrame, inbox
  <2>2. \A i \in rows : i \in PeekAfter(c) \/ i <= lastID[c]
    BY DEF PeekAfter
  <2> QED
    BY <2>1, <2>2
<1>b. ASSUME NEW c \in Chans, SendBlob(c) PROVE SkipsOnlyOvertaken'
  <2>1. PICK i \in batch[c] : SendsOne(c, i)
    BY <1>b, SendFacts
  <2>2. UNCHANGED <<rows, stage, overtaken>>
    BY <1>b DEF SendBlob, sessionFrame, inbox
  <2>3. /\ ReadIds(c)' \subseteq ReadIds(c)
        /\ delivered'[c] \cup batch'[c] = delivered[c] \cup batch[c]
    BY <2>1 DEF SendsOne
  <2>4. \A d \in Chans : d # c => /\ ReadIds(d)' = ReadIds(d)
                                 /\ delivered'[d] = delivered[d] /\ batch'[d] = batch[d]
    BY <2>1 DEF SendsOne
  <2>5. Open' = Open
    BY <2>2
  <2> HIDE DEF ReadIds, Open
  <2>6. ASSUME NEW d \in Open', NEW k \in rows', NEW j \in ReadIds(d)', k <= j
        PROVE  k \in delivered'[d] \cup batch'[d] \cup overtaken'[d]
    <3>1. d \in Open /\ d \in Chans /\ k \in rows /\ overtaken'[d] = overtaken[d]
      BY <2>2, <2>5 DEF Open
    <3>2. j \in ReadIds(d) /\ delivered'[d] \cup batch'[d] = delivered[d] \cup batch[d]
      BY <2>3, <2>4, <2>6, <3>1
    <3> QED
      BY <2>6, <3>1, <3>2
  <2> QED
    BY <2>6
<1>c. ASSUME NEW S, DeleteRows(S), UNCHANGED <<stage, lastID, batch, delivered>>
      PROVE  SkipsOnlyOvertaken'
  <2>1. rows' = rows \ S /\ \A d \in Chans : overtaken'[d] = overtaken[d] \ S
    BY <1>c DEF DeleteRows
  <2> QED
    BY <1>c, <2>1
<1>5. ASSUME NEW c \in Chans, DeleteForRecipient(c) PROVE SkipsOnlyOvertaken'
  <2>1. PICK i \in delivered[c] \cap rows : DeleteRows({i})
    BY <1>5 DEF DeleteForRecipient
  <2>2. UNCHANGED <<stage, lastID, batch, delivered>>
    BY <1>5 DEF DeleteForRecipient, rowFrame, notifierVars, reading, cursor
  <2> QED
    BY <1>c, <2>1, <2>2
<1>6. CASE Reap
  <2>1. PICK S \in SUBSET rows : DeleteRows(S)
    BY <1>6 DEF Reap
  <2>2. UNCHANGED <<stage, lastID, batch, delivered>>
    BY <1>6 DEF Reap, rowFrame, notifierVars, reading, cursor
  <2> QED
    BY <1>c, <2>1, <2>2
<1>7. ASSUME NEW c \in Chans,
             SendListen(c) \/ SubscribeReturns(c) \/ SubscribeFails(c) \/ Unsubscribe(c)
                \/ SendUnlisten(c)
      PROVE  SkipsOnlyOvertaken'
  <2>1. UNCHANGED <<rows, lastID, batch, delivered, overtaken>>
    BY <1>7 DEF SendListen, SubscribeReturns, SubscribeFails, Unsubscribe, SendUnlisten,
       GoroutineStep, reading, cursor, inbox
  <2>2. stage[c] # "open" /\ \A d \in Chans : d # c => stage'[d] = stage[d]
    BY <1>7 DEF SendListen, SubscribeReturns, SubscribeFails, Unsubscribe, SendUnlisten,
       GoroutineStep
  <2>3. ReadIds(c) = {0} /\ \A i \in rows : ~(i <= 0)
    BY <2>2
  <2> QED
    BY <2>1, <2>2, <2>3
<1>8. CASE ConnectionLost \/ SendPanics
  BY <1>8 DEF ConnectionLost, SendPanics, Restarted, inbox
<1>9. CASE DrainListen \/ DrainUnlisten \/ DrainFails
  BY <1>9, HeadCommand DEF DrainListen, DrainUnlisten, DrainFails, Answer,
     loopFrame, listener, postgres, inbox, registry, reading, cursor
<1>10. ASSUME NEW p \in Pushers, Probe(p) \/ Insert(p) \/ PutFails(p) \/ Notify(p)
      \/ NotifyFails(p) PROVE UNCHANGED <<rows, stage, lastID, batch, delivered, overtaken>>
  BY <1>10 DEF Probe, Insert, PutFails, Notify, NotifyFails, Fits, PushStep,
     notifierVars, postgres, PushEnds, TransactionEnds, registry, listener, reading, cursor
<1>11. ASSUME NEW c \in Chans, PeekFails(c) \/ Wake(c) \/ SendSignal(c) PROVE UNCHANGED <<rows, stage, lastID, batch, delivered, overtaken>>
  BY <1>11 DEF PeekFails, Wake, SendSignal, sessionFrame, inbox, registry, postgres, reading, cursor,
     listener
<1>12. ASSUME CloseBegins \/ DrainEnds \/ WaitTimeout \/ LoopEnds \/ Notified \/
      SendEnds \/ CloseEnds PROVE UNCHANGED <<rows, stage, lastID, batch, delivered, overtaken>>
  BY <1>12 DEF CloseBegins, DrainEnds, WaitTimeout, LoopEnds, Notified, SendEnds,
     CloseEnds, inbox, registry, listener, postgres, reading, cursor, loopFrame
<1>13. CASE UNCHANGED <<rows, stage, lastID, batch, delivered, overtaken>>
  BY <1>13
<1>14. UNCHANGED vars => UNCHANGED <<rows, stage, lastID, batch, delivered, overtaken>>
  BY DEF vars, inbox, registry, postgres, listener, reading, cursor
<1> QED
  BY <1>1, <1>2, <1>3, <1>4, <1>b, <1>5, <1>6, <1>7, <1>8, <1>9, <1>10, <1>11, <1>12,
     <1>13, <1>14 DEF Next, EnvironmentNext, SubscriptionNext, LoopNext

\* A wake-up on its way is handed on, from the push to the channel, never dropped.
LEMMA WokenStep == PgInv /\ [Next]_vars => WokenWhileListening'
<1> SUFFICES ASSUME PgInv, [Next]_vars PROVE WokenWhileListening'
  OBVIOUS
<1> USE DEF PgInv, OvershootBounded, TypeOK, WokenWhileListening, Open, PeekAfter
<1>1. ASSUME NEW p \in Pushers, Probe(p) PROVE WokenWhileListening'
  BY <1>1 DEF Probe, Fits, PushStep, notifierVars, postgres, registry, listener,
     reading, cursor
<1>2. ASSUME NEW p \in Pushers, Insert(p) PROVE WokenWhileListening'
  BY <1>2 DEF Insert, PushStep, notifierVars, postgres, registry, listener,
     reading, cursor
<1>3. ASSUME NEW p \in Pushers, Commit(p) PROVE WokenWhileListening'
  <2>1. ppc'[p] = "notify"
    BY <1>3 DEF Commit, TransactionEnds, PushStep
  <2> QED
    BY <2>1
<1>4. ASSUME NEW p \in Pushers, CommitUnknown(p) \/ NotifyFails(p) PROVE
      WokenWhileListening'
  BY <1>4 DEF CommitUnknown, NotifyFails, Overtaken, PushEnds, TransactionEnds, notifierVars,
     postgres, PushStep, registry, listener, reading, cursor
<1>5. ASSUME NEW p \in Pushers, PutFails(p) PROVE WokenWhileListening'
  BY <1>5 DEF PutFails, PushEnds, TransactionEnds, notifierVars, postgres, PushStep, registry,
     listener, reading, cursor
<1>6. ASSUME NEW p \in Pushers, Notify(p) PROVE WokenWhileListening'
  BY <1>6 DEF Notify, PushEnds, TransactionEnds, notifierVars, PushStep, registry, listener,
     reading, cursor, Hearing
<1>7. ASSUME NEW c \in Chans, Subscribe(c) PROVE WokenWhileListening'
  BY <1>7 DEF Subscribe, Opened, cursor, inbox, listener, postgres
<1>8. ASSUME NEW c \in Chans, Cancel(c) PROVE WokenWhileListening'
  BY <1>8 DEF Cancel, GoroutineStep, registry, inbox, listener, postgres
<1>9. ASSUME NEW c \in Chans, Peek(c) \/ PeekFails(c) PROVE WokenWhileListening'
  <2>1. /\ UNCHANGED <<rows, ppc, stage, deaf, signal, mail, loop, snapshot, lastID>>
        /\ PeekAfter(c) \subseteq batch'[c] \cup missed'[c]
        /\ \A d \in Chans : d # c => /\ task'[d] = task[d] /\ batch'[d] = batch[d]
                                     /\ missed'[d] = missed[d]
    BY <1>9 DEF Peek, PeekFails, sessionFrame, inbox, postgres, listener
  <2> QED
    BY <2>1
<1>b. ASSUME NEW c \in Chans, SendBlob(c) PROVE WokenWhileListening'
  <2>1. PICK i \in batch[c] : SendsOne(c, i)
    BY <1>b, SendFacts
  <2>2. /\ UNCHANGED <<rows, ppc, stage, deaf, signal, mail, loop, snapshot, missed>>
        /\ task[c] # "peek"
    BY <1>b DEF SendBlob, sessionFrame, inbox, postgres, listener
  <2>3. \A d \in Chans : d # c => /\ lastID'[d] = lastID[d] /\ task'[d] = task[d]
                                 /\ batch'[d] = batch[d]
    BY <2>1 DEF SendsOne
  <2>4. i \in Int /\ lastID[c] \in Int /\ lastID[c] < i /\ \A k \in rows : k \in Int
    BY <2>1 DEF SendsOne
  <2>5. \A k \in rows : k > i => k > lastID[c] /\ k # i
    BY <2>4
  <2>6. lastID'[c] = i /\ batch'[c] = batch[c] \ {i}
    BY <2>1 DEF SendsOne
  <2>7. PeekAfter(c)' \ (batch'[c] \cup missed'[c]) \subseteq
            PeekAfter(c) \ (batch[c] \cup missed[c])
    BY <2>2, <2>5, <2>6
  <2> QED
    BY <2>2, <2>3, <2>7
<1>10. ASSUME NEW c \in Chans, Wake(c) PROVE WokenWhileListening'
  BY <1>10 DEF Wake, sessionFrame, inbox, registry, listener, postgres
<1>11. ASSUME NEW c \in Chans, DeleteForRecipient(c) PROVE WokenWhileListening'
  BY <1>11 DEF DeleteForRecipient, DeleteRows, rowFrame, notifierVars, postgres,
     registry, listener, reading, cursor
<1>12. CASE Reap
  BY <1>12 DEF Reap, DeleteRows, rowFrame, notifierVars, postgres, registry,
     listener, reading, cursor
<1>13. ASSUME NEW c \in Chans, SubscribeReturns(c) PROVE WokenWhileListening'
  BY <1>13 DEF SubscribeReturns, GoroutineStep, Opened, cursor, registry, inbox, listener,
     postgres
<1>14. ASSUME NEW c \in Chans, SendListen(c) \/ SendUnlisten(c) PROVE
      WokenWhileListening'
  BY <1>14 DEF SendListen, SendUnlisten, Enqueue, GoroutineStep, registry,
     reading, cursor, inbox, listener, postgres
<1>15. ASSUME NEW c \in Chans, SubscribeFails(c) \/ Unsubscribe(c)
      PROVE  WokenWhileListening'
  <2>1. UNCHANGED <<rows, ppc, deaf, reading, mail, loop, snapshot>>
    BY <1>15 DEF SubscribeFails, Unsubscribe, GoroutineStep, reading, cursor, inbox, postgres, listener
  <2>2. /\ \A d \in Chans : d # c => stage'[d] = stage[d] /\ signal'[d] = signal[d]
        /\ stage'[c] # "open"
    BY <1>15 DEF SubscribeFails, Unsubscribe, Removed, GoroutineStep
  <2> QED
    BY <2>1, <2>2 DEF reading, cursor
<1>16. ASSUME NEW c \in Chans, SendSignal(c) PROVE WokenWhileListening'
  BY <1>16 DEF SendSignal, inbox, registry, postgres, reading, cursor
<1>17. CASE ConnectionLost \/ SendPanics
  BY <1>17 DEF ConnectionLost, SendPanics, Restarted, inbox
<1>18. CASE CloseEnds
  BY <1>18 DEF CloseEnds, inbox, registry, listener, reading, cursor
<1>19. CASE DrainListen \/ DrainUnlisten \/ DrainFails
  <2>1. UNCHANGED <<rows, ppc, reading, signal, mail, loop, snapshot>> /\ deaf \subseteq deaf'
    BY <1>19 DEF DrainListen, DrainUnlisten, DrainFails, loopFrame, listener, postgres, inbox,
       reading, cursor
  <2>2. \A d \in Chans : stage'[d] = "open" => stage[d] = "open"
    BY <1>19, HeadCommand DEF DrainListen, DrainUnlisten, DrainFails, Answer
  <2> QED
    BY <2>1, <2>2 DEF reading, cursor
<1>20. CASE DrainEnds \/ WaitTimeout \/ LoopEnds
  BY <1>20 DEF DrainEnds, WaitTimeout, LoopEnds, loopFrame, postgres, inbox,
     registry, reading, cursor
<1>21. CASE Notified
  BY <1>21 DEF Notified, loopFrame, inbox, registry, reading, cursor, RegistryExact,
     Registered
<1>22. CASE SendEnds
  BY <1>22 DEF SendEnds, loopFrame, postgres, inbox, registry, reading, cursor
<1>23. ASSUME CloseBegins PROVE UNCHANGED <<rows, ppc, stage, deaf, reading, signal, mail, loop, snapshot>>
  BY <1>23 DEF CloseBegins, inbox, registry, listener, postgres, reading, cursor
<1>24. CASE UNCHANGED <<rows, ppc, stage, deaf, reading, signal, mail, loop, snapshot>>
  BY <1>24 DEF reading, cursor
<1>25. UNCHANGED vars => UNCHANGED <<rows, ppc, stage, deaf, reading, signal, mail, loop, snapshot>>
  BY DEF vars, inbox, registry, postgres, listener, reading, cursor
<1> QED
  BY <1>1, <1>2, <1>3, <1>4, <1>5, <1>6, <1>7, <1>8, <1>9, <1>b, <1>10, <1>11, <1>12,
     <1>13, <1>14, <1>15, <1>16, <1>17, <1>18, <1>19, <1>20, <1>21, <1>22, <1>23,
     <1>24, <1>25 DEF Next, EnvironmentNext, SubscriptionNext, LoopNext

\* What passed the probe and is not committed yet.
Passed == {p \in Pushers : ppc[p] \in {"insert", "commit"}}
Stored == Cardinality(rows) + Cardinality(Passed)

\* A push that passes the probe finds room for one more than is stored, and there
\* are no more pushes under way than pushers; a commit turns one that passed into a
\* row.
LEMMA OvershootStep == PgInv /\ [Next]_vars => OvershootBounded'
<1> SUFFICES ASSUME PgInv, [Next]_vars PROVE OvershootBounded'
  OBVIOUS
<1>1. TypeOK /\ TypeOK' /\ Stored < MaxBlobs + Cardinality(Pushers)
  BY TypeStep DEF PgInv, OvershootBounded, Stored, Passed
<1>2. SUFFICES Stored' < MaxBlobs + Cardinality(Pushers)
  BY <1>1 DEF OvershootBounded, Stored, Passed
<1>3. /\ IsFiniteSet(rows) /\ IsFiniteSet(rows') /\ IsFiniteSet(Passed) /\ IsFiniteSet(Passed')
      /\ Cardinality(Passed') <= Cardinality(Pushers)
      /\ Cardinality(Pushers) \in Nat /\ MaxBlobs \in Nat
  <2>1. /\ rows \subseteq 1 .. seq /\ rows' \subseteq 1 .. seq' /\ seq \in Int /\ seq' \in Int
    BY <1>1, PgAssumption DEF TypeOK
  <2>2. IsFiniteSet(1 .. seq) /\ IsFiniteSet(1 .. seq')
    BY <2>1, FS_Interval
  <2>3. Passed \subseteq Pushers /\ Passed' \subseteq Pushers
    BY DEF Passed
  <2> QED
    BY <2>1, <2>2, <2>3, PgAssumption, FS_Subset, FS_CardinalityType
<1>4. /\ Cardinality(rows) \in Nat /\ Cardinality(rows') \in Nat
      /\ Cardinality(Passed) \in Nat /\ Cardinality(Passed') \in Nat
  BY <1>3, FS_CardinalityType
<1>5. ASSUME NEW p \in Pushers, Probe(p) PROVE Stored' < MaxBlobs + Cardinality(Pushers)
  <2>1. Cardinality(rows) < MaxBlobs /\ rows' = rows
    BY <1>5 DEF Probe, Fits
  <2> QED
    BY <1>3, <1>4, <2>1 DEF Stored
<1>6. ASSUME NEW p \in Pushers, Commit(p) \/ CommitUnknown(p)
      PROVE  Stored' < MaxBlobs + Cardinality(Pushers)
  <2>1. rows' = rows \cup {pid[p]} /\ p \in Passed /\ Passed' = Passed \ {p}
    BY <1>1, <1>6 DEF Commit, CommitUnknown, PushEnds, TransactionEnds, PushStep, Passed, TypeOK
  <2>2. Cardinality(Passed') = Cardinality(Passed) - 1
    BY <1>3, <2>1, FS_RemoveElement
  <2>3. Cardinality(rows') <= Cardinality(rows) + 1
    BY <1>3, <1>4, <2>1, FS_AddElement
  <2> QED
    BY <1>1, <1>3, <1>4, <2>2, <2>3 DEF Stored
<1>7. CASE rows' \subseteq rows /\ Passed' \subseteq Passed
  <2>1. Cardinality(rows') <= Cardinality(rows) /\ Cardinality(Passed') <= Cardinality(Passed)
    BY <1>3, <1>7, FS_Subset
  <2> QED
    BY <1>1, <1>3, <1>4, <2>1 DEF Stored
<1>8. ASSUME NEW p \in Pushers, Insert(p) \/ PutFails(p) \/ Notify(p) \/ NotifyFails(p)
      PROVE  rows' \subseteq rows /\ Passed' \subseteq Passed
  BY <1>1, <1>8 DEF Insert, PutFails, Notify, NotifyFails, PushEnds, TransactionEnds, PushStep, Passed, TypeOK
<1>9. ASSUME NEW c \in Chans,
             Subscribe(c) \/ Cancel(c) \/ Peek(c) \/ PeekFails(c) \/ SendBlob(c) \/ Wake(c) \/ DeleteForRecipient(c)
                \/ SubscriptionNext(c)
      PROVE  rows' \subseteq rows /\ ppc' = ppc
  BY <1>9 DEF Subscribe, Cancel, Peek, PeekFails, SendBlob, Wake, DeleteForRecipient, SubscriptionNext,
     SendListen, SubscribeReturns, SubscribeFails, Unsubscribe, SendUnlisten, GoroutineStep,
     sessionFrame, rowFrame, DeleteRows, inbox
<1>10. ASSUME LoopNext \/ ConnectionLost \/ CloseBegins \/ CloseEnds \/ Reap
       PROVE  rows' \subseteq rows /\ ppc' = ppc
  BY <1>10 DEF LoopNext, DrainListen, DrainUnlisten, DrainFails, DrainEnds, WaitTimeout,
     LoopEnds, Notified, SendSignal, SendPanics, SendEnds, ConnectionLost, Restarted,
     CloseBegins, CloseEnds, Reap, DeleteRows, rowFrame, loopFrame, inbox
<1>11. UNCHANGED vars => rows' \subseteq rows /\ ppc' = ppc
  BY DEF vars, inbox
<1>12. ppc' = ppc => Passed' \subseteq Passed
  BY DEF Passed
<1> QED
  BY <1>5, <1>6, <1>7, <1>8, <1>9, <1>10, <1>11, <1>12 DEF Next, EnvironmentNext

-----------------------------------------------------------------------------
(* Theorems.                                                               *)

\* The invariant holds in every reachable state.
THEOREM PgInvariant == Spec => []PgInv
<1>1. Init => PgInv
  <2> SUFFICES ASSUME Init PROVE PgInv
    OBVIOUS
  <2>1. TypeOK
    <3>1. /\ stage \in [Chans -> Stage] /\ store = "open" /\ loop = "drain"
          /\ ppc \in [Pushers -> {"idle", "insert", "commit", "notify"}]
      BY DEF Init, Stage
    <3>2. /\ listening \in BOOLEAN /\ overlap \in BOOLEAN
          /\ signal \in [Chans -> BOOLEAN] /\ task \in [Chans -> {"peek", "send", "wait"}]
      BY DEF Init
    <3>3. /\ rows \subseteq 1 .. seq /\ seq \in 0 .. MaxId /\ mail \in Nat
          /\ pid \in [Pushers -> 0 .. MaxId] /\ lastID \in [Chans -> 0 .. MaxId]
          /\ delivered \in [Chans -> SUBSET (1 .. MaxId)]
          /\ batch \in [Chans -> SUBSET (1 .. MaxId)]
          /\ missed \in [Chans -> SUBSET (1 .. MaxId)]
          /\ overtaken \in [Chans -> SUBSET (1 .. MaxId)]
      BY PgAssumption DEF Init
    <3>4. /\ cmds \in Seq([op : {"LISTEN", "UNLISTEN"}, by : Chans]) /\ Len(cmds) <= CmdCap
      BY PgAssumption DEF Init
    <3>5. refcount = Cardinality(subs) /\ subs = {} /\ snapshot = {} /\ deaf = {}
      BY FS_EmptySet DEF Init
    <3> QED
      BY <3>1, <3>2, <3>3, <3>4, <3>5 DEF TypeOK
  <2>2. OvershootBounded
    <3>1. rows = {} /\ Passed = {} /\ Cardinality({}) = 0
      BY FS_EmptySet DEF Init, Passed
    <3>2. Cardinality(Pushers) \in Nat
      BY PgAssumption, FS_CardinalityType
    <3>3. Cardinality(rows) + Cardinality(Passed) < MaxBlobs + Cardinality(Pushers)
      BY <3>1, <3>2, PgAssumption
    <3> QED
      BY <2>1, <3>3 DEF OvershootBounded, Passed
  <2>3. Open = {} /\ Committing = {} /\ cmds = <<>> /\ subs = {} /\ seq = 0
    BY DEF Init, Open, Committing
  <2>4. CommandsKnown
    BY <2>3 DEF CommandsKnown
  <2>5. SkipsOnlyOvertaken /\ WokenWhileListening /\ IdsUnused /\ Hearing
    BY <2>3 DEF SkipsOnlyOvertaken, WokenWhileListening, IdsUnused, Hearing
  <2>6. CursorsBehind
    BY <2>3 DEF Init, CursorsBehind
  <2>7. RegistryExact /\ Serial
    BY DEF Init, RegistryExact, Registered, Serial, Outstanding
  <2> QED
    BY <2>2, <2>4, <2>5, <2>6, <2>7 DEF PgInv
<1>2. PgInv /\ [Next]_vars => PgInv'
  BY OvershootStep, SkipStep, WokenStep, RegistryStep, CommandsStep, IdsStep, CursorStep,
     HearingStep, SerialStep DEF PgInv
<1> QED
  BY <1>1, <1>2, PTL DEF Spec

\* However many pushes race past the probe, the table holds fewer Blobs than the
\* quota and the racing pushes together.
THEOREM QuotaOvershoot == Spec => []OvershootBounded
<1>1. PgInv => OvershootBounded
  BY DEF PgInv
<1> QED
  BY <1>1, PgInvariant, PTL

\* A session's cursor passes over no row but one committed after the session had read
\* a higher id, however its reads and sends interleave with the pushes.
THEOREM OnlyLateSkipped == Spec => []SkipsOnlyOvertaken
<1>1. PgInv => SkipsOnlyOvertaken
  BY DEF PgInv
<1> QED
  BY <1>1, PgInvariant, PTL

\* While LISTEN has been in force since Subscribe returned, no session that has a row it
\* neither read nor failed to read, and is not about to read, is without a wake-up on
\* its way.
THEOREM NoWakeLost == Spec => []WokenWhileListening
<1>1. PgInv => WokenWhileListening
  BY DEF PgInv
<1> QED
  BY <1>1, PgInvariant, PTL

\* Subscriptions that do not overlap keep LISTEN in force for whoever is left.
THEOREM SerialListening == Spec => []ListeningWhenSerial
<1>1. PgInv => ListeningWhenSerial
  BY DEF PgInv, Serial, ListeningWhenSerial, Open
<1> QED
  BY <1>1, PgInvariant, PTL
=============================================================================
