---------------------------- MODULE RelayProofs ----------------------------
(***************************************************************************)
(* Proofs about Relay, for every set of devices, sessions, pushers and     *)
(* messages, every quota, cap and channel capacity.                        *)
(***************************************************************************)
EXTENDS Relay, FiniteSetTheorems, TLAPS

-----------------------------------------------------------------------------
(* Type correctness, one lemma per part of TypeOK.                         *)

\* Database rows stay rows: what PutWithLimits inserts is one.
LEMMA StoreTypeStep == TypeOK /\ [Next]_vars => StoreType'
<1> SUFFICES ASSUME TypeOK, [Next]_vars PROVE StoreType'
  OBVIOUS
<1> USE RelayAssumption DEF StoreType, store, push, session, notifier, history
<1>1. ASSUME NEW p \in Pushers, PutWithLimits(p) PROVE StoreType'
  BY <1>1 DEF PutWithLimits, PushStep, NextId, Row, PushType, TypeOK
<1>2. ASSUME NEW s \in Sessions, NEW i \in 1 .. MaxId, OnDeliverAck(s, i) PROVE
     StoreType'
  BY <1>2 DEF OnDeliverAck, DeleteForRecipient, TypeOK
<1>3. ASSUME Reap PROVE StoreType'
  BY <1>3 DEF Reap, Expired, TypeOK
<1>4. ASSUME Tick PROVE StoreType'
  BY <1>4 DEF Tick, TypeOK
<1>5. ASSUME Crash PROVE StoreType'
  BY <1>5 DEF Crash, TypeOK
<1>6. ASSUME NEW p \in Pushers, (\E m \in Msgs : PushArrives(p, m)) \/
     OnPushRefuse(p) \/ OnPushPass(p) \/ PutRefused(p) \/ Notify(p) \/ Ack(p)
     PROVE StoreType'
  BY <1>6 DEF TypeOK, PushArrives, OnPushRefuse, OnPushPass, PutRefused, Notify, Ack
<1>7. ASSUME NEW s \in Sessions, AcquireOk(s) \/ AcquireRefused(s) \/
     SubscribeOk(s) \/ SubscribeFails(s) \/ PeekAfter(s) \/ PeekFails(s)
     PROVE StoreType'
  BY <1>7 DEF TypeOK, AcquireOk, AcquireRefused, SubscribeOk, SubscribeFails,
       PeekAfter, PeekFails
<1>8. ASSUME NEW s \in Sessions, Send(s) \/ BatchDone(s) \/ Wake(s) \/ Exit(s) \/
     Release(s) \/ Close(s)
     PROVE StoreType'
  BY <1>8 DEF TypeOK, Send, BatchDone, Wake, Exit, Release, Close
<1>9. ASSUME NEW s \in Sessions, Unsubscribe(s) \/ (\E d \in Devices : Connect(s,
     d)) \/ Cancel(s) \/ Deliver(s)
     PROVE StoreType'
  BY <1>9 DEF TypeOK, Unsubscribe, Connect, Cancel, Deliver
<1>10. CASE UNCHANGED vars
  BY <1>10 DEF TypeOK, vars
<1> QED
  BY <1>1, <1>2, <1>3, <1>4, <1>5, <1>6, <1>7, <1>8, <1>9, <1>10 DEF Next,
       PushNext, SessionNext

\* A push past its content checks has a routable prefix.
LEMMA PushTypeStep == TypeOK /\ [Next]_vars => PushType'
<1> SUFFICES ASSUME TypeOK, [Next]_vars PROVE PushType'
  OBVIOUS
<1> USE RelayAssumption DEF PushType, PushStage, store, push, session, notifier,
     history
<1>1. ASSUME NEW p \in Pushers, NEW m \in Msgs, PushArrives(p, m) PROVE PushType'
  BY <1>1 DEF PushArrives, PushStep, TypeOK
<1>2. ASSUME NEW p \in Pushers, OnPushRefuse(p) PROVE PushType'
  BY <1>2 DEF OnPushRefuse, PushStep, PushDone, TypeOK
<1>3. ASSUME NEW p \in Pushers, OnPushPass(p) PROVE PushType'
  BY <1>3 DEF OnPushPass, PushStep, Refused, TypeOK
<1>4. ASSUME NEW p \in Pushers, PutWithLimits(p) PROVE PushType'
  BY <1>4 DEF PutWithLimits, PushStep, TypeOK
<1>5. ASSUME NEW p \in Pushers, PutRefused(p) PROVE PushType'
  BY <1>5 DEF PutRefused, PushStep, PushDone, TypeOK
<1>6. ASSUME NEW p \in Pushers, Notify(p) PROVE PushType'
  BY <1>6 DEF Notify, PushStep, TypeOK
<1>7. ASSUME NEW p \in Pushers, Ack(p) PROVE PushType'
  BY <1>7 DEF Ack, PushStep, PushDone, TypeOK
<1>8. ASSUME Crash PROVE PushType'
  BY <1>8 DEF Crash, TypeOK
<1>9. ASSUME NEW s \in Sessions, AcquireOk(s) \/ AcquireRefused(s) \/
     SubscribeOk(s) \/ SubscribeFails(s) \/ PeekAfter(s) \/ PeekFails(s)
     PROVE PushType'
  BY <1>9 DEF TypeOK, AcquireOk, AcquireRefused, SubscribeOk, SubscribeFails,
       PeekAfter, PeekFails
<1>10. ASSUME NEW s \in Sessions, Send(s) \/ BatchDone(s) \/ Wake(s) \/ Exit(s) \/
     Release(s) \/ Close(s)
     PROVE PushType'
  BY <1>10 DEF TypeOK, Send, BatchDone, Wake, Exit, Release, Close
<1>11. ASSUME NEW s \in Sessions, Unsubscribe(s) \/ (\E d \in Devices : Connect(s,
     d)) \/ Cancel(s) \/ Deliver(s) \/ (\E i \in 1 .. MaxId : OnDeliverAck(s, i))
     PROVE PushType'
  BY <1>11 DEF TypeOK, Unsubscribe, Connect, Cancel, Deliver, OnDeliverAck
<1>12. CASE Reap \/ Tick \/ UNCHANGED vars
  BY <1>12 DEF TypeOK, Reap, Tick, vars
<1> QED
  BY <1>1, <1>2, <1>3, <1>4, <1>5, <1>6, <1>7, <1>8, <1>9, <1>10, <1>11, <1>12 DEF
       Next, PushNext, SessionNext

\* A session beyond its handshake belongs to a device.
LEMMA SessionTypeStep == TypeOK /\ [Next]_vars => SessionType'
<1> SUFFICES ASSUME TypeOK, [Next]_vars PROVE SessionType'
  OBVIOUS
<1> USE RelayAssumption DEF SessionType, SessionStage, store, push, session,
     notifier, history
<1>1. ASSUME NEW s \in Sessions, NEW d \in Devices, Connect(s, d) PROVE SessionType'
  BY <1>1 DEF Connect, Goto, TypeOK
<1>2. ASSUME NEW s \in Sessions, AcquireOk(s) PROVE SessionType'
  BY <1>2 DEF AcquireOk, Goto, TypeOK
<1>3. ASSUME NEW s \in Sessions, AcquireRefused(s) PROVE SessionType'
  BY <1>3 DEF AcquireRefused, Forget, Goto, TypeOK
<1>4. ASSUME NEW s \in Sessions, SubscribeOk(s) PROVE SessionType'
  BY <1>4 DEF SubscribeOk, Goto, TypeOK
<1>5. ASSUME NEW s \in Sessions, SubscribeFails(s) PROVE SessionType'
  BY <1>5 DEF SubscribeFails, Forget, Goto, TypeOK
<1>6. ASSUME NEW s \in Sessions, PeekAfter(s) PROVE SessionType'
  BY <1>6 DEF PeekAfter, Goto, StoreType, Beyond, Inbox, TypeOK
<1>7. ASSUME NEW s \in Sessions, PeekFails(s) PROVE SessionType'
  BY <1>7 DEF PeekFails, Goto, TypeOK
<1>8. ASSUME NEW s \in Sessions, Send(s) PROVE SessionType'
  BY <1>8 DEF Send, Row, TypeOK
<1>9. ASSUME NEW s \in Sessions, BatchDone(s) PROVE SessionType'
  BY <1>9 DEF BatchDone, Goto, TypeOK
<1>10. ASSUME NEW s \in Sessions, Wake(s) PROVE SessionType'
  BY <1>10 DEF Wake, Goto, TypeOK
<1>11. ASSUME NEW s \in Sessions, Exit(s) PROVE SessionType'
  BY <1>11 DEF Exit, Goto, TypeOK
<1>12. ASSUME NEW s \in Sessions, Release(s) PROVE SessionType'
  BY <1>12 DEF Release, Goto, TypeOK
<1>13. ASSUME NEW s \in Sessions, Close(s) PROVE SessionType'
  BY <1>13 DEF Close, Forget, Goto, TypeOK
<1>14. ASSUME NEW s \in Sessions, Cancel(s) PROVE SessionType'
  BY <1>14 DEF Cancel, TypeOK
<1>15. ASSUME Crash PROVE SessionType'
  BY <1>15 DEF Crash, TypeOK
<1>16. ASSUME NEW p \in Pushers, (\E m \in Msgs : PushArrives(p, m)) \/
     OnPushRefuse(p) \/ OnPushPass(p) \/ PutWithLimits(p) \/ PutRefused(p) \/
     Notify(p) \/ Ack(p)
     PROVE SessionType'
  BY <1>16 DEF TypeOK, PushArrives, OnPushRefuse, OnPushPass, PutWithLimits,
       PutRefused, Notify, Ack
<1>17. ASSUME NEW s \in Sessions, Unsubscribe(s) \/ Deliver(s) \/ (\E i \in 1 ..
     MaxId : OnDeliverAck(s, i))
     PROVE SessionType'
  BY <1>17 DEF TypeOK, Unsubscribe, Deliver, OnDeliverAck
<1>18. CASE Reap \/ Tick \/ UNCHANGED vars
  BY <1>18 DEF TypeOK, Reap, Tick, vars
<1> QED
  BY <1>1, <1>2, <1>3, <1>4, <1>5, <1>6, <1>7, <1>8, <1>9, <1>10, <1>11, <1>12,
       <1>13, <1>14, <1>15, <1>16, <1>17, <1>18 DEF Next, PushNext, SessionNext

\* deliverCh carries rows, and none outside a session.
LEMMA ChannelTypeStep == TypeOK /\ [Next]_vars => ChannelType'
<1> SUFFICES ASSUME TypeOK, [Next]_vars PROVE ChannelType'
  OBVIOUS
<1> USE RelayAssumption DEF ChannelType, SessionType, store, push, session,
     notifier, history
<1>1. ASSUME NEW s \in Sessions, NEW d \in Devices, Connect(s, d) PROVE ChannelType'
  BY <1>1 DEF Connect, Goto, TypeOK
<1>2. ASSUME NEW s \in Sessions, AcquireOk(s) PROVE ChannelType'
  BY <1>2 DEF AcquireOk, Goto, TypeOK
<1>3. ASSUME NEW s \in Sessions, AcquireRefused(s) PROVE ChannelType'
  BY <1>3 DEF AcquireRefused, Forget, Goto, TypeOK
<1>4. ASSUME NEW s \in Sessions, SubscribeOk(s) PROVE ChannelType'
  BY <1>4 DEF SubscribeOk, Goto, TypeOK
<1>5. ASSUME NEW s \in Sessions, SubscribeFails(s) PROVE ChannelType'
  BY <1>5 DEF SubscribeFails, Forget, Goto, TypeOK
<1>6. ASSUME NEW s \in Sessions, PeekAfter(s) PROVE ChannelType'
  BY <1>6 DEF PeekAfter, Goto, TypeOK
<1>7. ASSUME NEW s \in Sessions, PeekFails(s) PROVE ChannelType'
  BY <1>7 DEF PeekFails, Goto, TypeOK
<1>8. ASSUME NEW s \in Sessions, Send(s) PROVE ChannelType'
  BY <1>8 DEF Send, TypeOK
<1>9. ASSUME NEW s \in Sessions, BatchDone(s) PROVE ChannelType'
  BY <1>9 DEF BatchDone, Goto, TypeOK
<1>10. ASSUME NEW s \in Sessions, Wake(s) PROVE ChannelType'
  BY <1>10 DEF Wake, Goto, TypeOK
<1>11. ASSUME NEW s \in Sessions, Exit(s) PROVE ChannelType'
  BY <1>11 DEF Exit, Goto, TypeOK
<1>12. ASSUME NEW s \in Sessions, Release(s) PROVE ChannelType'
  BY <1>12 DEF Release, Goto, TypeOK
<1>13. ASSUME NEW s \in Sessions, Close(s) PROVE ChannelType'
  BY <1>13 DEF Close, Forget, Goto, TypeOK
<1>14. ASSUME NEW s \in Sessions, Deliver(s) PROVE ChannelType'
  BY <1>14 DEF Deliver, TypeOK
<1>15. ASSUME Crash PROVE ChannelType'
  BY <1>15 DEF Crash, TypeOK
<1>16. ASSUME NEW p \in Pushers, (\E m \in Msgs : PushArrives(p, m)) \/
     OnPushRefuse(p) \/ OnPushPass(p) \/ PutWithLimits(p) \/ PutRefused(p) \/
     Notify(p) \/ Ack(p)
     PROVE ChannelType'
  BY <1>16 DEF TypeOK, PushArrives, OnPushRefuse, OnPushPass, PutWithLimits,
       PutRefused, Notify, Ack
<1>17. ASSUME NEW s \in Sessions, Unsubscribe(s) \/ Cancel(s) \/ (\E i \in 1 ..
     MaxId : OnDeliverAck(s, i))
     PROVE ChannelType'
  BY <1>17 DEF TypeOK, Unsubscribe, Cancel, OnDeliverAck
<1>18. CASE Reap \/ Tick \/ UNCHANGED vars
  BY <1>18 DEF TypeOK, Reap, Tick, vars
<1> QED
  BY <1>1, <1>2, <1>3, <1>4, <1>5, <1>6, <1>7, <1>8, <1>9, <1>10, <1>11, <1>12,
       <1>13, <1>14, <1>15, <1>16, <1>17, <1>18 DEF Next, PushNext, SessionNext

\* Slot counters stay natural numbers.
LEMMA CapTypeStep == TypeOK /\ [Next]_vars => CapType'
<1> SUFFICES ASSUME TypeOK, [Next]_vars PROVE CapType'
  OBVIOUS
<1> USE RelayAssumption DEF CapType, SessionType, store, push, session, notifier,
     history
<1>1. ASSUME NEW p \in Pushers, Notify(p) PROVE CapType'
  BY <1>1 DEF Notify, PushStep, TypeOK
<1>2. ASSUME NEW s \in Sessions, AcquireOk(s) PROVE CapType'
  BY <1>2 DEF AcquireOk, Goto, AcquireSlot, TypeOK
<1>3. ASSUME NEW s \in Sessions, SubscribeOk(s) PROVE CapType'
  BY <1>3 DEF SubscribeOk, Goto, TypeOK
<1>4. ASSUME NEW s \in Sessions, SubscribeFails(s) PROVE CapType'
  BY <1>4 DEF SubscribeFails, Forget, Goto, ReleaseSlot, TypeOK
<1>5. ASSUME NEW s \in Sessions, Wake(s) PROVE CapType'
  BY <1>5 DEF Wake, Goto, TypeOK
<1>6. ASSUME NEW s \in Sessions, Release(s) PROVE CapType'
  BY <1>6 DEF Release, Goto, ReleaseSlot, TypeOK
<1>7. ASSUME NEW s \in Sessions, Unsubscribe(s) PROVE CapType'
  BY <1>7 DEF Unsubscribe, TypeOK
<1>8. ASSUME Crash PROVE CapType'
  BY <1>8 DEF Crash, TypeOK
<1>9. ASSUME NEW p \in Pushers, (\E m \in Msgs : PushArrives(p, m)) \/
     OnPushRefuse(p) \/ OnPushPass(p) \/ PutWithLimits(p) \/ PutRefused(p) \/
     Ack(p)
     PROVE CapType'
  BY <1>9 DEF TypeOK, PushArrives, OnPushRefuse, OnPushPass, PutWithLimits,
       PutRefused, Ack
<1>10. ASSUME NEW s \in Sessions, AcquireRefused(s) \/ PeekAfter(s) \/
     PeekFails(s) \/ Send(s) \/ BatchDone(s) \/ Exit(s)
     PROVE CapType'
  BY <1>10 DEF TypeOK, AcquireRefused, PeekAfter, PeekFails, Send, BatchDone, Exit
<1>11. ASSUME NEW s \in Sessions, Close(s) \/ (\E d \in Devices : Connect(s, d))
     \/ Cancel(s) \/ Deliver(s) \/ (\E i \in 1 .. MaxId : OnDeliverAck(s, i))
     PROVE CapType'
  BY <1>11 DEF TypeOK, Close, Connect, Cancel, Deliver, OnDeliverAck
<1>12. CASE Reap \/ Tick \/ UNCHANGED vars
  BY <1>12 DEF TypeOK, Reap, Tick, vars
<1> QED
  BY <1>1, <1>2, <1>3, <1>4, <1>5, <1>6, <1>7, <1>8, <1>9, <1>10, <1>11, <1>12 DEF
       Next, PushNext, SessionNext

-----------------------------------------------------------------------------
(* The core invariant, one lemma per part.                                 *)

\* No step gives an id twice, moves a row to another device's hands, or takes an
\* honest device's row away before it was received or expired.
LEMMA LedgerStep == TypeOK /\ Ledger /\ Cursor /\ [Next]_vars => Ledger'
<1> SUFFICES ASSUME TypeOK, Ledger, Cursor, [Next]_vars PROVE Ledger'
  OBVIOUS
<1> USE DEF Ledger, store, push, session, notifier, history
<1>1. ASSUME NEW p \in Pushers, PutWithLimits(p) PROVE Ledger'
  BY <1>1 DEF PutWithLimits, PushStep, NextId, Row, PushType, TypeOK, StoreType,
       SessionType, ChannelType
<1>2. ASSUME NEW s \in Sessions, NEW d \in Devices, Connect(s, d) PROVE Ledger'
  BY <1>2 DEF Connect, Goto, Cursor, TypeOK, StoreType, SessionType, ChannelType
<1>3. ASSUME NEW s \in Sessions, AcquireRefused(s) PROVE Ledger'
  BY <1>3 DEF AcquireRefused, Forget, Goto, TypeOK, StoreType, SessionType,
       ChannelType
<1>4. ASSUME NEW s \in Sessions, SubscribeFails(s) PROVE Ledger'
  BY <1>4 DEF SubscribeFails, Forget, Goto, TypeOK, StoreType, SessionType,
       ChannelType
<1>5. ASSUME NEW s \in Sessions, Close(s) PROVE Ledger'
  BY <1>5 DEF Close, Forget, Goto, TypeOK, StoreType, SessionType, ChannelType
<1>6. ASSUME NEW s \in Sessions, PeekAfter(s) PROVE Ledger'
  BY <1>6 DEF PeekAfter, Goto, Beyond, Inbox, TypeOK, StoreType, SessionType,
       ChannelType
<1>7. ASSUME NEW s \in Sessions, Send(s) PROVE Ledger'
  BY <1>7 DEF Send, TypeOK, StoreType, SessionType, ChannelType
<1>8. ASSUME NEW s \in Sessions, Deliver(s) PROVE Ledger'
  BY <1>8 DEF Deliver, TypeOK, StoreType, SessionType, ChannelType
<1>9. ASSUME NEW s \in Sessions, NEW i \in 1 .. MaxId, OnDeliverAck(s, i) PROVE
     Ledger'
  <2> USE <1>9 DEF OnDeliverAck, DeleteForRecipient, TypeOK, StoreType, SessionType
  <2>1. ASSUME NEW r \in stored, r.rcpt \in Honest
        PROVE  r \in inbox' \/ r \in received[r.rcpt] \/ r.exp <= now
    <3>1. CASE r.rcpt = dev[s] /\ r.id = i
      <4>1. PICK q \in received[dev[s]] : q.id = i
        BY <2>1, <3>1 DEF AckedIds
      <4>2. q = r
        BY <3>1, <4>1 DEF Delivering
      <4> QED
        BY <3>1, <4>1, <4>2
    <3>2. CASE ~(r.rcpt = dev[s] /\ r.id = i)
      BY <2>1, <3>2
    <3> QED
      BY <3>1, <3>2
  <2>2. inbox' \subseteq stored
    OBVIOUS
  <2> QED
    BY <2>1, <2>2
<1>10. ASSUME Reap PROVE Ledger'
  BY <1>10 DEF Reap, Expired, TypeOK, StoreType, SessionType, ChannelType
<1>11. ASSUME Tick PROVE Ledger'
  BY <1>11 DEF Tick, Row, TypeOK, StoreType, SessionType, ChannelType
<1>12. ASSUME Crash PROVE Ledger'
  BY <1>12 DEF Crash, TypeOK, StoreType, SessionType, ChannelType
<1>13. ASSUME NEW p \in Pushers, (\E m \in Msgs : PushArrives(p, m)) \/
     OnPushRefuse(p) \/ OnPushPass(p) \/ PutRefused(p) \/ Notify(p) \/ Ack(p)
     PROVE Ledger'
  BY <1>13 DEF TypeOK, StoreType, SessionType, ChannelType, PushArrives,
       OnPushRefuse, OnPushPass, PutRefused, Notify, Ack, PushDone, PushStep
<1>14. ASSUME NEW s \in Sessions, AcquireOk(s) \/ SubscribeOk(s) \/ PeekFails(s)
     \/ BatchDone(s) \/ Wake(s) \/ Exit(s)
     PROVE Ledger'
  BY <1>14 DEF TypeOK, StoreType, SessionType, ChannelType, AcquireOk,
       SubscribeOk, PeekFails, BatchDone, Wake, Exit, Goto
<1>15. ASSUME NEW s \in Sessions, Release(s) \/ Unsubscribe(s) \/ Cancel(s)
     PROVE Ledger'
  BY <1>15 DEF TypeOK, StoreType, SessionType, ChannelType, Release, Unsubscribe,
       Cancel, Goto
<1>16. CASE UNCHANGED vars
  BY <1>16 DEF TypeOK, StoreType, SessionType, ChannelType, vars
<1> QED
  BY <1>1, <1>2, <1>3, <1>4, <1>5, <1>6, <1>7, <1>8, <1>9, <1>10, <1>11, <1>12,
       <1>13, <1>14, <1>15, <1>16 DEF Next, PushNext, SessionNext

\* Past Put, a push has its row: Ack can only follow a commit.
LEMMA ReceiptsStep == TypeOK /\ Receipts /\ [Next]_vars => Receipts'
<1> SUFFICES ASSUME TypeOK, Receipts, [Next]_vars PROVE Receipts'
  OBVIOUS
<1> USE DEF Receipts, store, push, session, notifier, history
<1>1. ASSUME NEW p \in Pushers, NEW m \in Msgs, PushArrives(p, m) PROVE Receipts'
  BY <1>1 DEF PushArrives, PushStep, TypeOK, PushType
<1>2. ASSUME NEW p \in Pushers, OnPushRefuse(p) PROVE Receipts'
  BY <1>2 DEF OnPushRefuse, PushStep, PushDone, TypeOK, PushType
<1>3. ASSUME NEW p \in Pushers, OnPushPass(p) PROVE Receipts'
  BY <1>3 DEF OnPushPass, PushStep, TypeOK, PushType
<1>4. ASSUME NEW p \in Pushers, PutWithLimits(p) PROVE Receipts'
  <2> DEFINE row == [id |-> NextId, rcpt |-> Prefix[pmsg[p]],
                     msg |-> pmsg[p], exp |-> now + TTL]
  <2>1. stored' = stored \cup {row} /\ acked' = acked /\ pmsg' = pmsg
    BY <1>4 DEF PutWithLimits
  <2>2. ppc' = [ppc EXCEPT ![p] = "notify"]
    BY <1>4 DEF PutWithLimits, PushStep
  <2>3. row.msg = pmsg[p]
    OBVIOUS
  <2> HIDE DEF row
  <2>4. ASSUME NEW t \in Pushers, ppc'[t] \in {"notify", "ack"}
        PROVE  \E r \in stored' : r.msg = pmsg'[t]
    <3>1. CASE t = p
      BY <2>1, <2>3, <3>1
    <3>2. CASE t # p
      BY <2>1, <2>2, <2>4, <3>2 DEF TypeOK, PushType
    <3> QED
      BY <3>1, <3>2
  <2> QED
    BY <2>1, <2>4
<1>5. ASSUME NEW p \in Pushers, PutRefused(p) PROVE Receipts'
  BY <1>5 DEF PutRefused, PushStep, PushDone, TypeOK, PushType
<1>6. ASSUME NEW p \in Pushers, Notify(p) PROVE Receipts'
  BY <1>6 DEF Notify, PushStep, TypeOK, PushType
<1>7. ASSUME NEW p \in Pushers, Ack(p) PROVE Receipts'
  BY <1>7 DEF Ack, PushStep, PushDone, TypeOK, PushType
<1>8. ASSUME Crash PROVE Receipts'
  BY <1>8 DEF Crash, TypeOK, PushType
<1>9. ASSUME NEW s \in Sessions, AcquireOk(s) \/ AcquireRefused(s) \/
     SubscribeOk(s) \/ SubscribeFails(s) \/ PeekAfter(s) \/ PeekFails(s)
     PROVE Receipts'
  BY <1>9 DEF TypeOK, PushType, AcquireOk, AcquireRefused, SubscribeOk,
       SubscribeFails, PeekAfter, PeekFails, Forget, Goto
<1>10. ASSUME NEW s \in Sessions, Send(s) \/ BatchDone(s) \/ Wake(s) \/ Exit(s) \/
     Release(s) \/ Close(s)
     PROVE Receipts'
  BY <1>10 DEF TypeOK, PushType, Send, BatchDone, Wake, Exit, Release, Close,
       Forget, Goto
<1>11. ASSUME NEW s \in Sessions, Unsubscribe(s) \/ (\E d \in Devices : Connect(s,
     d)) \/ Cancel(s) \/ Deliver(s) \/ (\E i \in 1 .. MaxId : OnDeliverAck(s, i))
     PROVE Receipts'
  BY <1>11 DEF TypeOK, PushType, Unsubscribe, Connect, Cancel, Deliver,
       OnDeliverAck, Goto
<1>12. CASE Reap \/ Tick \/ UNCHANGED vars
  BY <1>12 DEF TypeOK, PushType, Reap, Tick, vars
<1> QED
  BY <1>1, <1>2, <1>3, <1>4, <1>5, <1>6, <1>7, <1>8, <1>9, <1>10, <1>11, <1>12 DEF
       Next, PushNext, SessionNext

\* Cursor and snapshot keep their order, whatever is put, acked or reaped while
\* deliverNew is in its loop.
LEMMA CursorStep == TypeOK /\ Ledger /\ Cursor /\ [Next]_vars => Cursor'
<1> SUFFICES ASSUME TypeOK, Ledger, Cursor, [Next]_vars PROVE Cursor'
  OBVIOUS
<1> USE DEF Cursor, Beyond, Inbox, store, push, session, notifier, history
<1>1. ASSUME NEW p \in Pushers, PutWithLimits(p) PROVE Cursor'
  BY <1>1 DEF PutWithLimits, PushStep, NextId, Ledger, Row, TypeOK, StoreType,
       SessionType
<1>2. ASSUME NEW s \in Sessions, NEW d \in Devices, Connect(s, d) PROVE Cursor'
  BY <1>2 DEF Connect, Goto, TypeOK, StoreType, SessionType
<1>3. ASSUME NEW s \in Sessions, AcquireOk(s) PROVE Cursor'
  BY <1>3 DEF AcquireOk, Goto, TypeOK, StoreType, SessionType
<1>4. ASSUME NEW s \in Sessions, AcquireRefused(s) PROVE Cursor'
  BY <1>4 DEF AcquireRefused, Forget, Goto, TypeOK, StoreType, SessionType
<1>5. ASSUME NEW s \in Sessions, SubscribeOk(s) PROVE Cursor'
  BY <1>5 DEF SubscribeOk, Goto, TypeOK, StoreType, SessionType
<1>6. ASSUME NEW s \in Sessions, SubscribeFails(s) PROVE Cursor'
  BY <1>6 DEF SubscribeFails, Forget, Goto, TypeOK, StoreType, SessionType
<1>7. ASSUME NEW s \in Sessions, PeekAfter(s) PROVE Cursor'
  BY <1>7 DEF PeekAfter, Goto, Ledger, TypeOK, StoreType, SessionType
<1>8. ASSUME NEW s \in Sessions, PeekFails(s) PROVE Cursor'
  BY <1>8 DEF PeekFails, Goto, TypeOK, StoreType, SessionType
<1>9. ASSUME NEW s \in Sessions, Send(s) PROVE Cursor'
  BY <1>9 DEF Send, Ledger, Row, TypeOK, StoreType, SessionType
<1>10. ASSUME NEW s \in Sessions, BatchDone(s) PROVE Cursor'
  BY <1>10 DEF BatchDone, Goto, TypeOK, StoreType, SessionType
<1>11. ASSUME NEW s \in Sessions, Wake(s) PROVE Cursor'
  BY <1>11 DEF Wake, Goto, TypeOK, StoreType, SessionType
<1>12. ASSUME NEW s \in Sessions, Exit(s) PROVE Cursor'
  BY <1>12 DEF Exit, Goto, TypeOK, StoreType, SessionType
<1>13. ASSUME NEW s \in Sessions, Release(s) PROVE Cursor'
  BY <1>13 DEF Release, Goto, TypeOK, StoreType, SessionType
<1>14. ASSUME NEW s \in Sessions, Close(s) PROVE Cursor'
  BY <1>14 DEF Close, Forget, Goto, TypeOK, StoreType, SessionType
<1>15. ASSUME NEW s \in Sessions, NEW i \in 1 .. MaxId, OnDeliverAck(s, i) PROVE
     Cursor'
  BY <1>15 DEF OnDeliverAck, DeleteForRecipient, TypeOK, StoreType, SessionType
<1>16. ASSUME Reap PROVE Cursor'
  BY <1>16 DEF Reap, Expired, TypeOK, StoreType, SessionType
<1>17. ASSUME Crash PROVE Cursor'
  BY <1>17 DEF Crash, TypeOK, StoreType, SessionType
<1>18. ASSUME NEW p \in Pushers, (\E m \in Msgs : PushArrives(p, m)) \/
     OnPushRefuse(p) \/ OnPushPass(p) \/ PutRefused(p) \/ Notify(p) \/ Ack(p)
     PROVE Cursor'
  BY <1>18 DEF TypeOK, StoreType, SessionType, PushArrives, OnPushRefuse,
       OnPushPass, PutRefused, Notify, Ack, PushDone, PushStep
<1>19. ASSUME NEW s \in Sessions, Unsubscribe(s) \/ Cancel(s) \/ Deliver(s)
     PROVE Cursor'
  BY <1>19 DEF TypeOK, StoreType, SessionType, Unsubscribe, Cancel, Deliver
<1>20. CASE Tick \/ UNCHANGED vars
  BY <1>20 DEF TypeOK, StoreType, SessionType, Tick, vars
<1> QED
  BY <1>1, <1>2, <1>3, <1>4, <1>5, <1>6, <1>7, <1>8, <1>9, <1>10, <1>11, <1>12,
       <1>13, <1>14, <1>15, <1>16, <1>17, <1>18, <1>19, <1>20 DEF Next, PushNext,
       SessionNext

\* lastID moves past no row that was not sent.
LEMMA SkipStep == TypeOK /\ Ledger /\ Cursor /\ CursorSkipsNothing /\ [Next]_vars
     => CursorSkipsNothing'
<1> SUFFICES ASSUME TypeOK, Ledger, Cursor, CursorSkipsNothing, [Next]_vars PROVE
     CursorSkipsNothing'
  OBVIOUS
<1> USE DEF CursorSkipsNothing, Inbox, Delivering, store, push, session, notifier,
     history
<1>1. ASSUME NEW p \in Pushers, PutWithLimits(p) PROVE CursorSkipsNothing'
  BY <1>1 DEF PutWithLimits, PushStep, NextId, Cursor, Row, TypeOK, StoreType,
       SessionType
<1>2. ASSUME NEW s \in Sessions, NEW d \in Devices, Connect(s, d) PROVE
     CursorSkipsNothing'
  BY <1>2 DEF Connect, Goto, TypeOK, StoreType, SessionType
<1>3. ASSUME NEW s \in Sessions, AcquireOk(s) PROVE CursorSkipsNothing'
  BY <1>3 DEF AcquireOk, Goto, TypeOK, StoreType, SessionType
<1>4. ASSUME NEW s \in Sessions, AcquireRefused(s) PROVE CursorSkipsNothing'
  BY <1>4 DEF AcquireRefused, Forget, Goto, TypeOK, StoreType, SessionType
<1>5. ASSUME NEW s \in Sessions, SubscribeOk(s) PROVE CursorSkipsNothing'
  BY <1>5 DEF SubscribeOk, Goto, Cursor, Ledger, TypeOK, StoreType, SessionType
<1>6. ASSUME NEW s \in Sessions, SubscribeFails(s) PROVE CursorSkipsNothing'
  BY <1>6 DEF SubscribeFails, Forget, Goto, TypeOK, StoreType, SessionType
<1>7. ASSUME NEW s \in Sessions, PeekAfter(s) PROVE CursorSkipsNothing'
  BY <1>7 DEF PeekAfter, Goto, TypeOK, StoreType, SessionType
<1>8. ASSUME NEW s \in Sessions, PeekFails(s) PROVE CursorSkipsNothing'
  BY <1>8 DEF PeekFails, Goto, TypeOK, StoreType, SessionType
<1>9. ASSUME NEW s \in Sessions, Send(s) PROVE CursorSkipsNothing'
  <2> USE DEF TypeOK, StoreType, SessionType
  <2>1. PICK r \in batch[s] :
            /\ \A q \in batch[s] : r.id <= q.id
            /\ lastID' = [lastID EXCEPT ![s] = r.id]
            /\ sent' = [sent EXCEPT ![s] = sent[s] \cup {r.id}]
    BY <1>9 DEF Send
  <2>2. pc[s] = "send" /\ inbox' = inbox /\ pc' = pc /\ dev' = dev
    BY <1>9 DEF Send
  <2>3. SUFFICES ASSUME NEW t \in Sessions, pc[t] \in {"peek", "send", "wait"},
                        NEW q \in inbox, q.rcpt = dev[t], q.id <= lastID'[t]
                 PROVE  q.id \in sent'[t]
    BY <2>2
  <2>4. CASE t # s
    BY <2>1, <2>3, <2>4
  <2>5. CASE t = s /\ q.id <= lastID[s]
    BY <2>1, <2>2, <2>3, <2>5
  <2>6. CASE t = s /\ q.id > lastID[s]
    <3>1. q \in Beyond(s)
      BY <2>3, <2>6 DEF Beyond
    <3>2. q.id \in Nat /\ r.id \in Nat
      BY DEF Row
    <3>3. q.id <= r.id
      BY <2>1, <2>3, <2>6
    <3>4. q \in batch[s]
      BY <2>2, <3>1, <3>2, <3>3 DEF Cursor
    <3>5. q.id = r.id
      BY <2>1, <3>2, <3>3, <3>4
    <3> QED
      BY <2>1, <2>6, <3>5
  <2>7. q.id \in Nat /\ lastID[s] \in Nat
    BY DEF Row
  <2> QED
    BY <2>4, <2>5, <2>6, <2>7
<1>10. ASSUME NEW s \in Sessions, BatchDone(s) PROVE CursorSkipsNothing'
  BY <1>10 DEF BatchDone, Goto, TypeOK, StoreType, SessionType
<1>11. ASSUME NEW s \in Sessions, Wake(s) PROVE CursorSkipsNothing'
  BY <1>11 DEF Wake, Goto, TypeOK, StoreType, SessionType
<1>12. ASSUME NEW s \in Sessions, Exit(s) PROVE CursorSkipsNothing'
  BY <1>12 DEF Exit, Goto, TypeOK, StoreType, SessionType
<1>13. ASSUME NEW s \in Sessions, Release(s) PROVE CursorSkipsNothing'
  BY <1>13 DEF Release, Goto, TypeOK, StoreType, SessionType
<1>14. ASSUME NEW s \in Sessions, Close(s) PROVE CursorSkipsNothing'
  BY <1>14 DEF Close, Forget, Goto, TypeOK, StoreType, SessionType
<1>15. ASSUME NEW s \in Sessions, NEW i \in 1 .. MaxId, OnDeliverAck(s, i) PROVE
     CursorSkipsNothing'
  BY <1>15 DEF OnDeliverAck, DeleteForRecipient, TypeOK, StoreType, SessionType
<1>16. ASSUME Reap PROVE CursorSkipsNothing'
  BY <1>16 DEF Reap, Expired, TypeOK, StoreType, SessionType
<1>17. ASSUME Crash PROVE CursorSkipsNothing'
  BY <1>17 DEF Crash, TypeOK, StoreType, SessionType
<1>18. ASSUME NEW p \in Pushers, (\E m \in Msgs : PushArrives(p, m)) \/
     OnPushRefuse(p) \/ OnPushPass(p) \/ PutRefused(p) \/ Notify(p) \/ Ack(p)
     PROVE CursorSkipsNothing'
  BY <1>18 DEF TypeOK, StoreType, SessionType, PushArrives, OnPushRefuse,
       OnPushPass, PutRefused, Notify, Ack, PushDone, PushStep
<1>19. ASSUME NEW s \in Sessions, Unsubscribe(s) \/ Cancel(s) \/ Deliver(s)
     PROVE CursorSkipsNothing'
  BY <1>19 DEF TypeOK, StoreType, SessionType, Unsubscribe, Cancel, Deliver
<1>20. CASE Tick \/ UNCHANGED vars
  BY <1>20 DEF TypeOK, StoreType, SessionType, Tick, vars
<1> QED
  BY <1>1, <1>2, <1>3, <1>4, <1>5, <1>6, <1>7, <1>8, <1>9, <1>10, <1>11, <1>12,
       <1>13, <1>14, <1>15, <1>16, <1>17, <1>18, <1>19, <1>20 DEF Next, PushNext,
       SessionNext

\* A row a session would miss stays announced to it.
LEMMA AnnouncedStep == TypeOK /\ Ledger /\ Cursor /\ Announced /\ [Next]_vars =>
     Announced'
<1> SUFFICES ASSUME TypeOK, Ledger, Cursor, Announced, [Next]_vars PROVE Announced'
  OBVIOUS
<1> USE DEF Announced, Told, Beyond, Inbox, Delivering, store, push, session,
     notifier, history
<1>1. ASSUME NEW p \in Pushers, NEW m \in Msgs, PushArrives(p, m) PROVE Announced'
  BY <1>1 DEF PushArrives, PushStep, TypeOK, StoreType, SessionType, PushType,
       CapType
<1>2. ASSUME NEW p \in Pushers, OnPushRefuse(p) PROVE Announced'
  BY <1>2 DEF OnPushRefuse, PushStep, PushDone, TypeOK, StoreType, SessionType,
       PushType, CapType
<1>3. ASSUME NEW p \in Pushers, OnPushPass(p) PROVE Announced'
  BY <1>3 DEF OnPushPass, PushStep, TypeOK, StoreType, SessionType, PushType,
       CapType
<1>4. ASSUME NEW p \in Pushers, PutWithLimits(p) PROVE Announced'
  BY <1>4 DEF PutWithLimits, PushStep, NextId, TypeOK, StoreType, SessionType,
       PushType, CapType
<1>5. ASSUME NEW p \in Pushers, PutRefused(p) PROVE Announced'
  BY <1>5 DEF PutRefused, PushStep, PushDone, TypeOK, StoreType, SessionType,
       PushType, CapType
<1>6. ASSUME NEW p \in Pushers, Notify(p) PROVE Announced'
  <2> SUFFICES ASSUME ~LossyNotify, ~StoreFaults, NEW s \in Sessions,
                      pc[s] \in {"peek", "send", "wait"}, ~cancelled[s],
                      Told(s)
               PROVE  Told(s)'
    BY <1>6 DEF Notify, TypeOK, CapType, SessionType
  <2>1. signal' = [t \in Sessions |-> signal[t] \/ t \in
                        {u \in subs : dev[u] = Prefix[pmsg[p]]}]
    BY <1>6 DEF Notify, Signalled
  <2>2. s \in subs /\ dev' = dev /\ pmsg' = pmsg
    BY <1>6 DEF Notify
  <2>3. ppc' = [ppc EXCEPT ![p] = "ack"]
    BY <1>6 DEF Notify, PushStep
  <2>4. CASE signal[s]
    BY <2>1, <2>4
  <2>5. CASE \E t \in Pushers : ppc[t] = "notify" /\ Prefix[pmsg[t]] = dev[s]
    <3>1. PICK t \in Pushers : ppc[t] = "notify" /\ Prefix[pmsg[t]] = dev[s]
      BY <2>5
    <3>2. CASE t = p
      BY <2>1, <2>2, <3>1, <3>2
    <3>3. CASE t # p
      BY <2>2, <2>3, <3>1, <3>3 DEF TypeOK, PushType
    <3> QED
      BY <3>2, <3>3
  <2> QED
    BY <2>4, <2>5
<1>7. ASSUME NEW p \in Pushers, Ack(p) PROVE Announced'
  BY <1>7 DEF Ack, PushStep, PushDone, TypeOK, StoreType, SessionType, PushType,
       CapType
<1>8. ASSUME NEW s \in Sessions, NEW d \in Devices, Connect(s, d) PROVE Announced'
  BY <1>8 DEF Connect, Goto, TypeOK, StoreType, SessionType, PushType, CapType
<1>9. ASSUME NEW s \in Sessions, AcquireOk(s) PROVE Announced'
  BY <1>9 DEF AcquireOk, Goto, TypeOK, StoreType, SessionType, PushType, CapType
<1>10. ASSUME NEW s \in Sessions, AcquireRefused(s) PROVE Announced'
  BY <1>10 DEF AcquireRefused, Forget, Goto, TypeOK, StoreType, SessionType,
       PushType, CapType
<1>11. ASSUME NEW s \in Sessions, SubscribeOk(s) PROVE Announced'
  BY <1>11 DEF SubscribeOk, Goto, TypeOK, StoreType, SessionType, PushType, CapType
<1>12. ASSUME NEW s \in Sessions, SubscribeFails(s) PROVE Announced'
  BY <1>12 DEF SubscribeFails, Forget, Goto, TypeOK, StoreType, SessionType,
       PushType, CapType
<1>13. ASSUME NEW s \in Sessions, PeekAfter(s) PROVE Announced'
  BY <1>13 DEF PeekAfter, Goto, TypeOK, StoreType, SessionType, PushType, CapType
<1>14. ASSUME NEW s \in Sessions, PeekFails(s) PROVE Announced'
  BY <1>14 DEF PeekFails, Goto, TypeOK, StoreType, SessionType, PushType, CapType
<1>15. ASSUME NEW s \in Sessions, Send(s) PROVE Announced'
  BY <1>15 DEF Send, Ledger, Row, Cursor, TypeOK, StoreType, SessionType,
       PushType, CapType
<1>16. ASSUME NEW s \in Sessions, BatchDone(s) PROVE Announced'
  BY <1>16 DEF BatchDone, Goto, TypeOK, StoreType, SessionType, PushType, CapType
<1>17. ASSUME NEW s \in Sessions, Wake(s) PROVE Announced'
  BY <1>17 DEF Wake, Goto, TypeOK, StoreType, SessionType, PushType, CapType
<1>18. ASSUME NEW s \in Sessions, Exit(s) PROVE Announced'
  BY <1>18 DEF Exit, Goto, TypeOK, StoreType, SessionType, PushType, CapType
<1>19. ASSUME NEW s \in Sessions, Release(s) PROVE Announced'
  BY <1>19 DEF Release, Goto, TypeOK, StoreType, SessionType, PushType, CapType
<1>20. ASSUME NEW s \in Sessions, Close(s) PROVE Announced'
  BY <1>20 DEF Close, Forget, Goto, TypeOK, StoreType, SessionType, PushType,
       CapType
<1>21. ASSUME NEW s \in Sessions, Unsubscribe(s) PROVE Announced'
  BY <1>21 DEF Unsubscribe, TypeOK, StoreType, SessionType, PushType, CapType
<1>22. ASSUME NEW s \in Sessions, Cancel(s) PROVE Announced'
  BY <1>22 DEF Cancel, TypeOK, StoreType, SessionType, PushType, CapType
<1>23. ASSUME NEW s \in Sessions, NEW i \in 1 .. MaxId, OnDeliverAck(s, i) PROVE
     Announced'
  BY <1>23 DEF OnDeliverAck, DeleteForRecipient, TypeOK, StoreType, SessionType,
       PushType, CapType
<1>24. ASSUME Reap PROVE Announced'
  BY <1>24 DEF Reap, Expired, TypeOK, StoreType, SessionType, PushType, CapType
<1>25. ASSUME Crash PROVE Announced'
  BY <1>25 DEF Crash, TypeOK, StoreType, SessionType, PushType, CapType
<1>26. ASSUME NEW s \in Sessions, Deliver(s)
     PROVE Announced'
  BY <1>26 DEF TypeOK, StoreType, SessionType, PushType, CapType, Deliver
<1>27. CASE Tick \/ UNCHANGED vars
  BY <1>27 DEF TypeOK, StoreType, SessionType, PushType, CapType, Tick, vars
<1> QED
  BY <1>1, <1>2, <1>3, <1>4, <1>5, <1>6, <1>7, <1>8, <1>9, <1>10, <1>11, <1>12,
       <1>13, <1>14, <1>15, <1>16, <1>17, <1>18, <1>19, <1>20, <1>21, <1>22,
       <1>23, <1>24, <1>25, <1>26, <1>27 DEF Next, PushNext, SessionNext

\* Only deliverNew lengthens deliverCh, and by a row beyond all it sent.
LEMMA OnceLemma == TypeOK /\ Cursor /\ [Next]_vars => OnceStep
<1> SUFFICES ASSUME TypeOK, Cursor, [Next]_vars PROVE OnceStep
  OBVIOUS
<1> USE DEF OnceStep, store, push, session, notifier, history
<1>1. ASSUME NEW s \in Sessions, NEW d \in Devices, Connect(s, d) PROVE OnceStep
  BY <1>1 DEF Connect, Goto, TypeOK, ChannelType
<1>2. ASSUME NEW s \in Sessions, AcquireRefused(s) PROVE OnceStep
  BY <1>2 DEF AcquireRefused, Forget, Goto, TypeOK, ChannelType
<1>3. ASSUME NEW s \in Sessions, SubscribeFails(s) PROVE OnceStep
  BY <1>3 DEF SubscribeFails, Forget, Goto, TypeOK, ChannelType
<1>4. ASSUME NEW s \in Sessions, Close(s) PROVE OnceStep
  BY <1>4 DEF Close, Forget, Goto, TypeOK, ChannelType
<1>5. ASSUME NEW s \in Sessions, Send(s) PROVE OnceStep
  <2> USE DEF TypeOK, SessionType, ChannelType, StoreType
  <2>1. PICK r \in batch[s] : deliverCh' = [deliverCh EXCEPT ![s] =
       Append(deliverCh[s], r)]
    BY <1>5 DEF Send
  <2>2. pc[s] = "send"
    BY <1>5 DEF Send
  <2>3. \A i \in sent[s] : r.id > i
    BY <2>2 DEF Cursor, Row
  <2>4. ASSUME NEW t \in Sessions, t # s PROVE deliverCh'[t] = deliverCh[t]
    BY <2>1, <2>4
  <2>5. deliverCh'[s] = Append(deliverCh[s], r) /\ deliverCh[s] \in Seq(Row)
    BY <2>1
  <2>6. deliverCh'[s][Len(deliverCh'[s])] = r
    BY <2>5
  <2> QED
    BY <2>3, <2>4, <2>6
<1>6. ASSUME NEW s \in Sessions, Deliver(s) PROVE OnceStep
  BY <1>6 DEF Deliver, TypeOK, ChannelType
<1>7. ASSUME Crash PROVE OnceStep
  BY <1>7 DEF Crash, TypeOK, ChannelType
<1>8. ASSUME NEW p \in Pushers, (\E m \in Msgs : PushArrives(p, m)) \/
     OnPushRefuse(p) \/ OnPushPass(p) \/ PutWithLimits(p) \/ PutRefused(p) \/
     Notify(p) \/ Ack(p)
     PROVE OnceStep
  BY <1>8 DEF TypeOK, ChannelType, PushArrives, OnPushRefuse, OnPushPass,
       PutWithLimits, PutRefused, Notify, Ack, PushDone, PushStep
<1>9. ASSUME NEW s \in Sessions, AcquireOk(s) \/ SubscribeOk(s) \/ PeekAfter(s) \/
     PeekFails(s) \/ BatchDone(s) \/ Wake(s)
     PROVE OnceStep
  BY <1>9 DEF TypeOK, ChannelType, AcquireOk, SubscribeOk, PeekAfter, PeekFails,
       BatchDone, Wake, Goto
<1>10. ASSUME NEW s \in Sessions, Exit(s) \/ Release(s) \/ Unsubscribe(s) \/
     Cancel(s) \/ (\E i \in 1 .. MaxId : OnDeliverAck(s, i))
     PROVE OnceStep
  BY <1>10 DEF TypeOK, ChannelType, Exit, Release, Unsubscribe, Cancel,
       OnDeliverAck, Goto
<1>11. CASE Reap \/ Tick \/ UNCHANGED vars
  BY <1>11 DEF TypeOK, ChannelType, Reap, Tick, vars
<1> QED
  BY <1>1, <1>2, <1>3, <1>4, <1>5, <1>6, <1>7, <1>8, <1>9, <1>10, <1>11 DEF Next,
       PushNext, SessionNext

\* Every successful acquire pairs with exactly one release.
LEMMA SlotsStep == TypeOK /\ SlotsExact /\ [Next]_vars => SlotsExact'
<1> SUFFICES ASSUME TypeOK, SlotsExact, [Next]_vars, MaxSessions > 0,
                    NEW d \in Devices
             PROVE  active'[d] = Cardinality(Holders(d)') /\ active'[d] <=
                  MaxSessions
  BY DEF SlotsExact
<1> USE RelayAssumption DEF store, push, session, notifier, history
<1> DEFINE Goal == active'[d] = Cardinality(Holders(d)') /\ active'[d] <=
     MaxSessions
<1>1. /\ IsFiniteSet(Holders(d))
      /\ active[d] = Cardinality(Holders(d)) /\ active[d] <= MaxSessions
  BY FiniteSlots, FS_Subset DEF SlotsExact, Holders
<1>2. Cardinality(Holders(d)) \in Nat
  BY <1>1, FS_CardinalityType
<1>3. ASSUME active'[d] = active[d], Holders(d)' = Holders(d) PROVE Goal
  BY <1>1, <1>3
<1> USE DEF TypeOK, SessionType, CapType, SessionStage
<1>4. ASSUME NEW s \in Sessions, AcquireOk(s) PROVE Goal
  <2>1. CASE dev[s] = d
    <3>1. Holders(d)' = Holders(d) \cup {s} /\ s \notin Holders(d)
      BY <1>4, <2>1 DEF AcquireOk, Goto, Holders, Holding
    <3>2. active'[d] = active[d] + 1 /\ active[d] < MaxSessions
      BY <1>4, <2>1 DEF AcquireOk, AcquireSlot, CapReached
    <3>3. Cardinality(Holders(d)') = Cardinality(Holders(d)) + 1
      BY <1>1, <3>1, FS_AddElement
    <3> QED
      BY <1>1, <3>2, <3>3
  <2>2. CASE dev[s] # d
    <3>1. Holders(d)' = Holders(d)
      BY <1>4, <2>2 DEF AcquireOk, Goto, Holders, Holding
    <3>2. active'[d] = active[d]
      BY <1>4, <2>2 DEF AcquireOk, AcquireSlot
    <3> QED
      BY <1>3, <3>1, <3>2
  <2> QED
    BY <2>1, <2>2
<1>5. ASSUME NEW s \in Sessions, SubscribeFails(s) \/ Release(s) PROVE Goal
  <2>1. CASE dev[s] = d
    <3>1. Holders(d)' = Holders(d) \ {s} /\ s \in Holders(d)
      BY <1>5, <2>1 DEF SubscribeFails, Release, Forget, Goto, Holders, Holding
    <3>2. /\ Cardinality(Holders(d)') = Cardinality(Holders(d)) - 1
          /\ Cardinality(Holders(d)) > 0
      <4>1. Cardinality(Holders(d)) # 0
        BY <1>1, <3>1, FS_EmptySet
      <4>2. Cardinality(Holders(d) \ {s}) = Cardinality(Holders(d)) - 1
        BY <1>1, <3>1, FS_RemoveElement
      <4> QED
        BY <1>2, <3>1, <4>1, <4>2
    <3>3. active' = [active EXCEPT ![d] =
                        IF MaxSessions = 0 \/ @ = 0 THEN @ ELSE @ - 1]
      BY <1>5, <2>1 DEF SubscribeFails, Release, ReleaseSlot
    <3> QED
      BY <1>1, <1>2, <3>2, <3>3
  <2>2. CASE dev[s] # d
    <3>1. Holders(d)' = Holders(d)
      BY <1>5, <2>2 DEF SubscribeFails, Release, Forget, Goto, Holders, Holding
    <3>2. active'[d] = active[d]
      BY <1>5, <2>2 DEF SubscribeFails, Release, ReleaseSlot
    <3> QED
      BY <1>3, <3>1, <3>2
  <2> QED
    BY <2>1, <2>2
<1>6. ASSUME NEW s \in Sessions, \/ AcquireRefused(s) \/ Close(s)
                                 \/ \E e \in Devices : Connect(s, e)
      PROVE  Goal
  <2>1. Holders(d)' = Holders(d)
    BY <1>6 DEF AcquireRefused, Close, Connect, Forget, Goto, Holders, Holding
  <2>2. active' = active
    BY <1>6 DEF AcquireRefused, Close, Connect
  <2> QED
    BY <1>3, <2>1, <2>2
<1>7. ASSUME NEW s \in Sessions,
             \/ SubscribeOk(s) \/ PeekAfter(s) \/ PeekFails(s) \/ Send(s)
             \/ BatchDone(s) \/ Wake(s) \/ Exit(s) \/ Unsubscribe(s)
             \/ Cancel(s) \/ Deliver(s)
             \/ \E i \in 1 .. MaxId : OnDeliverAck(s, i)
      PROVE  Goal
  <2>1. Holders(d)' = Holders(d)
    BY <1>7 DEF SubscribeOk, PeekAfter, PeekFails, Send, BatchDone, Wake, Exit,
       Unsubscribe, Cancel, Deliver, OnDeliverAck, Goto, Holders, Holding
  <2>2. active' = active
    BY <1>7 DEF SubscribeOk, PeekAfter, PeekFails, Send, BatchDone, Wake, Exit,
       Unsubscribe, Cancel, Deliver, OnDeliverAck
  <2> QED
    BY <1>3, <2>1, <2>2
<1>8. ASSUME (\E p \in Pushers : PushNext(p)) \/ Reap \/ Tick \/ UNCHANGED vars
      PROVE  Goal
  <2>1. pc' = pc /\ dev' = dev /\ active' = active
    BY <1>8 DEF PushNext, PushArrives, OnPushRefuse, OnPushPass, PutWithLimits,
       PutRefused, Notify, Ack, Reap, Tick, vars
  <2> QED
    BY <1>3, <2>1 DEF Holders
<1>9. ASSUME Crash PROVE Goal
  <2>1. Holders(d)' = {} /\ active'[d] = 0
    BY <1>9 DEF Crash, Holders, Holding
  <2> QED
    BY <2>1, FS_EmptySet
<1> QED
  BY <1>4, <1>5, <1>6, <1>7, <1>8, <1>9 DEF Next, SessionNext

-----------------------------------------------------------------------------
(* The quota.                                                              *)

\* A new row adds at most its own length to the bytes of an Inbox.
LEMMA OctetsAdd ==
    ASSUME NEW S, IsFiniteSet(Octets(S)), NEW r, NEW n \in Nat, n = Size[r.msg]
    PROVE  /\ IsFiniteSet(Octets(S \cup {r}))
           /\ Cardinality(Octets(S \cup {r})) <= Cardinality(Octets(S)) + n
<1> DEFINE T == {r} \X (1 .. n)
<1>1. Octets(S \cup {r}) = Octets(S) \cup T
  BY Zenon DEF Octets
<1>2. IsFiniteSet({r}) /\ Cardinality({r}) = 1
  BY FS_Singleton
<1>3. IsFiniteSet(1 .. n) /\ Cardinality(1 .. n) = n
  <2>1. 1 \in Int /\ n \in Int
    OBVIOUS
  <2>2. IsFiniteSet(1 .. n) /\ Cardinality(1 .. n) = IF 1 > n THEN 0 ELSE n - 1 + 1
    BY <2>1, FS_Interval, Zenon
  <2>3. n = IF 1 > n THEN 0 ELSE n - 1 + 1
    OBVIOUS
  <2> QED
    BY <2>2, <2>3
<1>4. IsFiniteSet(T) /\ Cardinality(T) = Cardinality({r}) * Cardinality(1 .. n)
  BY <1>2, <1>3, FS_Product
<1> HIDE DEF T
<1>5. /\ IsFiniteSet(Octets(S) \cup T)
      /\ Cardinality(Octets(S) \cup T)
            = Cardinality(Octets(S)) + Cardinality(T) - Cardinality(Octets(S) \cap T)
  BY <1>4, FS_Union
<1>6. Cardinality(Octets(S)) \in Nat /\ Cardinality(Octets(S) \cap T) \in Nat
  BY <1>4, FS_Intersection, FS_CardinalityType
<1>7. Cardinality(T) = n
  BY <1>2, <1>3, <1>4
<1>8. Cardinality(Octets(S) \cup T) <= Cardinality(Octets(S)) + n
  BY <1>5, <1>6, <1>7
<1> QED
  BY <1>1, <1>5, <1>8

\* A smaller set of rows has no more rows and no more bytes.
LEMMA OctetsLess ==
    ASSUME NEW S, IsFiniteSet(S), IsFiniteSet(Octets(S)), NEW T \in SUBSET S
    PROVE  /\ IsFiniteSet(T) /\ IsFiniteSet(Octets(T))
           /\ Cardinality(T) <= Cardinality(S)
           /\ Cardinality(Octets(T)) <= Cardinality(Octets(S))
<1>1. Octets(T) \subseteq Octets(S)
  BY Zenon DEF Octets
<1> QED
  BY <1>1, FS_Subset

\* The database holds finitely many rows and bytes.
FiniteStore == IsFiniteSet(inbox) /\ IsFiniteSet(Octets(inbox))

\* Probe and INSERT are one step, so no other push fills the Inbox in between; every
\* other step leaves the rows alone or deletes some.
LEMMA QuotaStep ==
    TypeOK /\ FiniteStore /\ QuotaKept /\ [Next]_vars => FiniteStore' /\ QuotaKept'
<1> SUFFICES ASSUME TypeOK, FiniteStore, QuotaKept, [Next]_vars
             PROVE  FiniteStore' /\ QuotaKept'
  OBVIOUS
<1>1. \A d \in Devices : /\ IsFiniteSet(Inbox(d)) /\ Cardinality(Inbox(d)) \in Nat
                         /\ IsFiniteSet(Octets(Inbox(d))) /\ Bytes(d) \in Nat
  <2>1. \A d \in Devices : Inbox(d) \in SUBSET inbox
    BY DEF Inbox
  <2> QED
    BY <2>1, OctetsLess, FS_CardinalityType DEF FiniteStore, Bytes
<1>2. CASE inbox' \subseteq inbox
  <2>1. \A d \in Devices : Inbox(d)' \in SUBSET Inbox(d)
    BY <1>2 DEF Inbox
  <2>2. FiniteStore'
    BY <1>2, OctetsLess DEF FiniteStore
  <2>3. \A d \in Devices : /\ Cardinality(Inbox(d)') <= Cardinality(Inbox(d))
                           /\ Cardinality(Inbox(d)') \in Nat
                           /\ Bytes(d)' <= Bytes(d) /\ Bytes(d)' \in Nat
    BY <1>1, <2>1, OctetsLess, FS_CardinalityType DEF Bytes
  <2> QED
    BY <1>1, <2>2, <2>3, RelayAssumption DEF QuotaKept
<1>3. ASSUME NEW p \in Pushers, PutWithLimits(p) PROVE FiniteStore' /\ QuotaKept'
  <2> DEFINE new == [id |-> NextId, rcpt |-> Prefix[pmsg[p]], msg |-> pmsg[p],
                     exp |-> now + TTL]
  <2>1. /\ pmsg[p] \in Msgs /\ Prefix[pmsg[p]] \in Devices
        /\ inbox' = inbox \cup {new} /\ Fits(pmsg[p])
    BY <1>3 DEF PutWithLimits, TypeOK, PushType
  <2>2. PICK m \in Msgs, e \in Devices, row \in {new} :
            m = pmsg[p] /\ e = Prefix[m] /\ row.msg = m /\ row.rcpt = e
    BY <2>1
  <2>3. inbox' = inbox \cup {row} /\ Fits(m) /\ Size[m] \in Nat
    BY <2>1, <2>2, RelayAssumption
  <2> HIDE DEF new
  <2>4. /\ FiniteStore'
        /\ Inbox(e)' = Inbox(e) \cup {row} /\ \A d \in Devices : d # e => Inbox(d)' = Inbox(d)
    <3>1. IsFiniteSet(inbox \cup {row}) /\ IsFiniteSet(Octets(inbox \cup {row}))
      BY <2>2, <2>3, OctetsAdd, FS_AddElement DEF FiniteStore
    <3>2. Octets(inbox') = Octets(inbox \cup {row})
      BY <2>3
    <3>3. Octets(inbox)' = Octets(inbox')
      BY DEF Octets
    <3> QED
      BY <2>2, <2>3, <3>1, <3>2, <3>3 DEF FiniteStore, Inbox
  <2>5. /\ Cardinality(Inbox(e)') <= Cardinality(Inbox(e)) + 1
        /\ Cardinality(Inbox(e)') \in Nat
    <3> DEFINE S == Inbox(e) \cup {row}
    <3>1. IsFiniteSet(Inbox(e)) /\ Cardinality(Inbox(e)) \in Nat
      BY <1>1
    <3>2. /\ IsFiniteSet(S)
          /\ Cardinality(S) = IF row \in Inbox(e) THEN Cardinality(Inbox(e))
                              ELSE Cardinality(Inbox(e)) + 1
      BY <3>1, FS_AddElement
    <3>3. Cardinality(S) <= Cardinality(Inbox(e)) + 1 /\ Cardinality(S) \in Nat
      BY <3>1, <3>2
    <3> QED
      BY <2>4, <3>3
  <2>6. Bytes(e)' <= Bytes(e) + Size[m] /\ Bytes(e)' \in Nat
    BY <1>1, <2>2, <2>3, <2>4, OctetsAdd, FS_CardinalityType DEF Bytes
  <2>7. /\ MaxBlobs > 0 => Cardinality(Inbox(e)) < MaxBlobs
        /\ MaxBytes > 0 => Bytes(e) + Size[m] <= MaxBytes
    BY <2>2, <2>3 DEF Fits
  <2>8. /\ MaxBlobs > 0 => Cardinality(Inbox(e)') <= MaxBlobs
        /\ MaxBytes > 0 => Bytes(e)' <= MaxBytes
    BY <1>1, <2>3, <2>5, <2>6, <2>7, RelayAssumption
  <2>9. \A d \in Devices : d # e => Bytes(d)' = Bytes(d)
    BY <2>4 DEF Bytes
  <2> QED
    BY <2>4, <2>8, <2>9 DEF QuotaKept
<1>4. ASSUME NEW s \in Sessions, NEW i \in 1 .. MaxId, OnDeliverAck(s, i)
      PROVE  inbox' \subseteq inbox
  BY <1>4 DEF OnDeliverAck, DeleteForRecipient
<1>5. Reap \/ Tick \/ Crash \/ UNCHANGED vars => inbox' \subseteq inbox
  BY DEF Reap, Tick, Crash, vars, store
<1>6. ASSUME NEW p \in Pushers, (\E m \in Msgs : PushArrives(p, m)) \/ OnPushRefuse(p) \/
             OnPushPass(p) \/ PutRefused(p) \/ Notify(p) \/ Ack(p)
      PROVE  inbox' = inbox
  BY <1>6 DEF PushArrives, OnPushRefuse, OnPushPass, PutRefused, Notify, Ack, store
<1>7. ASSUME NEW s \in Sessions, (\E d \in Devices : Connect(s, d)) \/ SessionNext(s) \/
             Cancel(s) \/ Deliver(s)
      PROVE  inbox' = inbox
  BY <1>7 DEF Connect, SessionNext, AcquireOk, AcquireRefused, SubscribeOk, SubscribeFails,
     PeekAfter, PeekFails, Send, BatchDone, Wake, Exit, Release, Close, Unsubscribe, Cancel,
     Deliver, store
<1> QED
  BY <1>2, <1>3, <1>4, <1>5, <1>6, <1>7 DEF Next, PushNext

-----------------------------------------------------------------------------
(* The refinement of Mailbox, one lemma per kind of step.                  *)

\* A push that passed the content checks of OnPush names, in its routing prefix,
\* the device its envelope names.
Routed ==
    \A p \in Pushers : ppc[p] \in {"put", "notify", "ack"} =>
        Prefix[pmsg[p]] = Envelope[pmsg[p]]

\* Only OnPushPass opens the way to the store, and pmsg is set before the checks.
LEMMA RoutedStep == TypeOK /\ Routed /\ [Next]_vars => Routed'
<1> SUFFICES ASSUME TypeOK, Routed, [Next]_vars PROVE Routed'
  OBVIOUS
<1> USE DEF Routed, TypeOK, PushType, store, push, session, notifier, history
<1>1. ASSUME NEW p \in Pushers, PushNext(p) PROVE Routed'
  <2>1. ASSUME NEW m \in Msgs, PushArrives(p, m) PROVE Routed'
    BY <2>1 DEF PushArrives, PushStep
  <2>2. CASE OnPushPass(p)
    BY <2>2 DEF OnPushPass, PushStep, Refused
  <2>3. CASE OnPushRefuse(p) \/ PutRefused(p) \/ Ack(p)
    BY <2>3 DEF OnPushRefuse, PutRefused, Ack, PushDone, PushStep
  <2>4. CASE PutWithLimits(p) \/ Notify(p)
    BY <2>4 DEF PutWithLimits, Notify, PushStep
  <2> QED
    BY <1>1, <2>1, <2>2, <2>3, <2>4 DEF PushNext
<1>2. CASE Crash
  BY <1>2 DEF Crash
<1>3. ASSUME ppc' = ppc, pmsg' = pmsg PROVE Routed'
  BY <1>3
<1>4. ASSUME NEW s \in Sessions, SessionNext(s) PROVE ppc' = ppc /\ pmsg' = pmsg
  BY <1>4 DEF SessionNext, AcquireOk, AcquireRefused, SubscribeOk, SubscribeFails,
     PeekAfter, PeekFails, Send, BatchDone, Wake, Exit, Release, Close, Unsubscribe
<1>5. ASSUME NEW s \in Sessions,
             \/ \E d \in Devices : Connect(s, d)
             \/ Cancel(s) \/ Deliver(s)
             \/ \E i \in 1 .. MaxId : OnDeliverAck(s, i)
      PROVE  ppc' = ppc /\ pmsg' = pmsg
  BY <1>5 DEF Connect, Cancel, Deliver, OnDeliverAck
<1>6. CASE Reap \/ Tick \/ UNCHANGED vars
  BY <1>3, <1>6 DEF Reap, Tick, vars
<1> QED
  BY <1>1, <1>2, <1>3, <1>4, <1>5, <1>6 DEF Next

\* A handler, session or crash step that leaves rows, receipts and clock alone
\* leaves the mailbox alone.
LEMMA QuietSteps ==
    ASSUME \/ \E p \in Pushers : \/ \E m \in Msgs : PushArrives(p, m)
                                 \/ OnPushRefuse(p) \/ OnPushPass(p)
                                 \/ PutRefused(p) \/ Notify(p)
           \/ \E s \in Sessions : \/ \E d \in Devices : Connect(s, d)
                                  \/ SessionNext(s) \/ Cancel(s)
           \/ Crash \/ UNCHANGED vars
    PROVE  UNCHANGED Promises!vars
<1> USE DEF Promises!vars, store, history
<1>1. ASSUME NEW p \in Pushers,
             \/ \E m \in Msgs : PushArrives(p, m)
             \/ OnPushRefuse(p) \/ OnPushPass(p) \/ PutRefused(p) \/ Notify(p)
      PROVE  UNCHANGED Promises!vars
  BY <1>1 DEF PushArrives, OnPushRefuse, OnPushPass, PutRefused, Notify
<1>2. ASSUME NEW s \in Sessions, SessionNext(s) PROVE UNCHANGED Promises!vars
  BY <1>2 DEF SessionNext, AcquireOk, AcquireRefused, SubscribeOk, SubscribeFails,
     PeekAfter, PeekFails, Send, BatchDone, Wake, Exit, Release, Close, Unsubscribe
<1>3. ASSUME NEW s \in Sessions, (\E d \in Devices : Connect(s, d)) \/ Cancel(s)
      PROVE  UNCHANGED Promises!vars
  BY <1>3 DEF Connect, Cancel
<1>4. CASE Crash \/ UNCHANGED vars
  BY <1>4 DEF Crash, vars
<1> QED
  BY <1>1, <1>2, <1>3, <1>4

\* PutWithLimits takes a Blob in for the device its envelope names, with an id
\* above every id ever given.
LEMMA PutAccepts ==
    ASSUME TypeOK, Ledger, Routed, NEW p \in Pushers, PutWithLimits(p)
    PROVE  Promises!Accept
<1> DEFINE row == [id |-> NextId, rcpt |-> Prefix[pmsg[p]], msg |-> pmsg[p],
                   exp |-> now + TTL]
<1> USE RelayAssumption DEF TypeOK, StoreType, PushType
<1>1. /\ stored' = stored \cup {row} /\ inbox' = inbox \cup {row}
      /\ UNCHANGED <<acked, received, now>> /\ ppc[p] = "put"
  BY DEF PutWithLimits
<1>2. \A a \in stored : a.id < row.id
  BY DEF Ledger, NextId
<1>3. row \in stored' \ stored
  BY <1>1, <1>2 DEF Ledger, NextId
<1>4. row.rcpt \in Devices /\ row.rcpt = Envelope[row.msg] /\ row.exp >= now
  BY <1>1 DEF Routed
<1> QED
  BY <1>1, <1>2, <1>3, <1>4 DEF Promises!Accept

\* The Ack frame promises a message that was taken in.
LEMMA AckPromises ==
    ASSUME Receipts, NEW p \in Pushers, Ack(p)
    PROVE  Promises!Promise
<1>1. PICK r \in stored : r.msg = pmsg[p]
  BY DEF Receipts, Ack
<1>2. acked' = acked \cup {r.msg} /\ UNCHANGED <<inbox, stored, received, now>>
  BY <1>1 DEF Ack, store
<1> QED
  BY <1>2 DEF Promises!Promise

\* What comes off a session's deliverCh belongs to the session's device.
LEMMA DeliverHands ==
    ASSUME TypeOK, Ledger, NEW s \in Sessions, Deliver(s)
    PROVE  Promises!Hand
<1> USE DEF TypeOK, SessionType, ChannelType
<1>1. deliverCh[s] # <<>> /\ deliverCh[s] \in Seq(Row)
  BY DEF Deliver
<1>2. Len(deliverCh[s]) >= 1 /\ Head(deliverCh[s]) = deliverCh[s][1]
  BY <1>1
<1>3. Head(deliverCh[s]) \in stored /\ Head(deliverCh[s]).rcpt = dev[s]
  BY <1>1, <1>2 DEF Ledger
<1>4. dev[s] \in Devices
  BY <1>1
<1>5. /\ received' = [received EXCEPT ![dev[s]] = @ \cup {Head(deliverCh[s])}]
      /\ UNCHANGED <<inbox, stored, acked, now>>
  BY DEF Deliver, store
<1> QED
  BY <1>3, <1>4, <1>5 DEF Promises!Hand

\* DeleteForRecipient removes the one row the ack names, or nothing: ids are
\* never given twice, and an honest device names only what it has.
LEMMA AckDrops ==
    ASSUME TypeOK, Ledger, NEW s \in Sessions, NEW i \in 1 .. MaxId, OnDeliverAck(s, i)
    PROVE  Promises!Drop \/ UNCHANGED Promises!vars
<1> USE DEF TypeOK, StoreType, SessionType
<1>1. /\ inbox' = {r \in inbox : ~(r.rcpt = dev[s] /\ r.id = i)}
      /\ UNCHANGED <<stored, acked, received, now>>
      /\ i \in AckedIds(dev[s])
  BY DEF OnDeliverAck, DeleteForRecipient, history
<1>2. CASE \E r \in inbox : r.rcpt = dev[s] /\ r.id = i
  <2>1. PICK r \in inbox : r.rcpt = dev[s] /\ r.id = i
    BY <1>2
  <2>2. inbox' = inbox \ {r}
    BY <1>1, <2>1 DEF Ledger
  <2>3. ASSUME r.rcpt \in Honest PROVE r \in received[r.rcpt]
    <3>1. PICK q \in received[dev[s]] : q.id = i
      BY <1>1, <2>1, <2>3 DEF AckedIds
    <3>2. dev[s] \in Devices
      BY <2>1 DEF Row
    <3>3. q \in stored /\ r \in stored
      BY <2>1, <3>1, <3>2 DEF Ledger
    <3> QED
      BY <2>1, <3>1, <3>3 DEF Ledger
  <2> QED
    BY <1>1, <2>1, <2>2, <2>3 DEF Promises!Drop
<1>3. CASE ~ \E r \in inbox : r.rcpt = dev[s] /\ r.id = i
  <2>1. inbox' = inbox
    BY <1>1, <1>3
  <2> QED
    BY <1>1, <2>1 DEF Promises!vars
<1> QED
  BY <1>2, <1>3

\* The Reaper takes exactly what has expired.
LEMMA ReapDrops == ASSUME TypeOK, Reap PROVE Promises!Drop
<1>1. inbox' = {r \in inbox : r.exp > now}
  BY DEF Reap, Expired, TypeOK, StoreType, Row
<1>2. UNCHANGED <<stored, acked, received, now>>
  BY DEF Reap, history
<1> QED
  BY <1>1, <1>2 DEF Promises!Drop

-----------------------------------------------------------------------------
(* Theorems.                                                               *)

\* Every step keeps the state well typed.
LEMMA TypeStep == TypeOK /\ [Next]_vars => TypeOK'
  BY StoreTypeStep, PushTypeStep, SessionTypeStep, ChannelTypeStep, CapTypeStep
     DEF TypeOK

\* The relay's state is well typed in every reachable state.
THEOREM TypeCorrect == Spec => []TypeOK
<1>1. Init => TypeOK
  BY RelayAssumption DEF Init, TypeOK, StoreType, PushType, SessionType,
     ChannelType, CapType, PushStage, SessionStage
<1> QED
  BY <1>1, TypeStep, PTL DEF Spec

\* The core invariant holds in every reachable state.
THEOREM CoreInvariant == Spec => []CoreInv
<1>1. Init => CoreInv
  BY DEF Init, CoreInv, Ledger, Receipts, Cursor, CursorSkipsNothing, Announced,
     Beyond, Inbox, Delivering
<1>2. TypeOK /\ CoreInv /\ [Next]_vars => CoreInv'
  BY LedgerStep, ReceiptsStep, CursorStep, SkipStep, AnnouncedStep DEF CoreInv
<1> QED
  BY <1>1, <1>2, TypeCorrect, PTL DEF Spec

\* No acked message is lost before its device received it or its TTL elapsed:
\* not by a crash, a retry, a stray, late or repeated ack.
THEOREM Durability == Spec => []AckedKept
<1>1. TypeOK /\ CoreInv => AckedKept
  BY DEF CoreInv, Ledger, Receipts, AckedKept, TypeOK, StoreType, Row
<1> QED
  BY <1>1, TypeCorrect, CoreInvariant, PTL

\* The cursor of a Receive Session never moves past a row it has not sent.
THEOREM NothingSkipped == Spec => []CursorSkipsNothing
<1>1. CoreInv => CursorSkipsNothing
  BY DEF CoreInv
<1> QED
  BY <1>1, CoreInvariant, PTL

\* With a Notifier that loses no signal and a store that answers, a session
\* never waits beside a row nobody will tell it of.
THEOREM WakeupKept == Spec => []NoLostWakeup
<1>1. CoreInv => NoLostWakeup
  BY DEF CoreInv, Announced, NoLostWakeup, Delivering
<1> QED
  BY <1>1, CoreInvariant, PTL

\* A Blob is put on a session's deliverCh at most once, and in id order.
THEOREM SentOnce == Spec => OncePerSession
<1>1. TypeOK /\ CoreInv /\ [Next]_vars => [OnceStep]_vars
  BY OnceLemma DEF CoreInv
<1> QED
  BY <1>1, TypeCorrect, CoreInvariant, PTL DEF Spec, OncePerSession

\* The per-device session count is exact and within the cap.
THEOREM SlotsNeverLeak == Spec => []SlotsExact
<1>1. Init => SlotsExact
  <2> SUFFICES ASSUME Init, NEW d \in Devices
               PROVE  active[d] = Cardinality(Holders(d)) /\ active[d] <=
                    MaxSessions
    BY DEF SlotsExact
  <2>1. Holders(d) = {} /\ active[d] = 0
    BY DEF Init, Holders, Holding
  <2> QED
    BY <2>1, FS_EmptySet, RelayAssumption
<1> QED
  BY <1>1, SlotsStep, TypeCorrect, PTL DEF Spec

\* No Inbox ever holds more Blobs or more bytes than its quota, however many pushes
\* race for the last of it.
THEOREM QuotaNeverExceeded == Spec => []QuotaKept
<1>1. Init => FiniteStore /\ QuotaKept
  <2> SUFFICES ASSUME Init PROVE FiniteStore /\ QuotaKept
    OBVIOUS
  <2>1. inbox = {} /\ Octets({}) = {}
    BY Zenon DEF Init, Octets
  <2>2. FiniteStore
    BY <2>1, FS_EmptySet DEF FiniteStore
  <2>3. \A d \in Devices : Cardinality(Inbox(d)) = 0 /\ Bytes(d) = 0
    BY <2>1, FS_EmptySet DEF Inbox, Bytes
  <2> QED
    BY <2>2, <2>3, RelayAssumption DEF QuotaKept
<1> QED
  BY <1>1, QuotaStep, TypeCorrect, PTL DEF Spec

\* The relay implements Mailbox: its database, what it acked and what reached the
\* devices change only as a mailbox may, under every interleaving of pushes,
\* sessions, acks, reaping and crashes.
THEOREM Refinement == Spec => KeepsPromises
<1>1. Init => Promises!Init
  BY DEF Init, Promises!Init
<1>2. Init => Routed
  BY DEF Init, Routed
<1>3. TypeOK /\ CoreInv /\ Routed /\ [Next]_vars => [Promises!Next]_(Promises!vars)
  <2> SUFFICES ASSUME TypeOK, CoreInv, Routed, [Next]_vars
               PROVE  Promises!Next \/ UNCHANGED Promises!vars
    OBVIOUS
  <2>1. ASSUME NEW p \in Pushers, PutWithLimits(p) \/ Ack(p) PROVE Promises!Next
    BY <2>1, PutAccepts, AckPromises DEF CoreInv, Promises!Next
  <2>2. ASSUME NEW s \in Sessions, Deliver(s) PROVE Promises!Next
    BY <2>2, DeliverHands DEF CoreInv, Promises!Next
  <2>3. ASSUME NEW s \in Sessions, NEW i \in 1 .. MaxId, OnDeliverAck(s, i)
        PROVE  Promises!Next \/ UNCHANGED Promises!vars
    BY <2>3, AckDrops DEF CoreInv, Promises!Next
  <2>4. CASE Reap
    BY <2>4, ReapDrops DEF Promises!Next
  <2>5. CASE Tick
    BY <2>5 DEF Tick, store, history, Promises!Next, Promises!Tick
  <2> QED
    BY <2>1, <2>2, <2>3, <2>4, <2>5, QuietSteps DEF Next, PushNext
<1> QED
  BY <1>1, <1>2, <1>3, RoutedStep, TypeCorrect, CoreInvariant, PTL
     DEF Spec, KeepsPromises, Promises!Spec
=============================================================================
