---------------------------- MODULE ServerProofs ----------------------------
(***************************************************************************)
(* Proofs about what bounds the load: Server, for every finite set of      *)
(* connections and every cap, the configuration it runs with (Config), and *)
(* the push rate limiter (RateLimiter), for every rate, burst and number   *)
(* of Inboxes.                                                             *)
(***************************************************************************)
EXTENDS Server, RateLimiter, FiniteSetTheorems, TLAPS

-----------------------------------------------------------------------------
(* Counting the sessions of a kind.                                        *)

\* Connections are finitely many, so every group of them has a size.
LEMMA GroupSize ==
    ASSUME NEW k \in Kind, NEW S
    PROVE  /\ IsFiniteSet(OfKind(k, S)) /\ Cardinality(OfKind(k, S)) \in Nat
           /\ Cardinality(OfKind(k, S)) = 0 <=> OfKind(k, S) = {}
<1>1. IsFiniteSet(OfKind(k, S))
  BY ServerAssumption, FS_Subset DEF OfKind
<1> QED
  BY <1>1, FS_CardinalityType, FS_EmptySet

\* One connection changes its stage: a group it neither enters nor leaves keeps its
\* members, one it enters gains it, one it leaves loses it.
LEMMA Moved ==
    ASSUME TypeOK, NEW c \in Conns, NEW s \in ConnStage, Becomes(c, s), kind' = kind,
           NEW k \in Kind, NEW S
    PROVE  LET old == OfKind(k, S)
               new == OfKind(k, S)'
           IN  /\ kind[c] # k \/ (conn[c] \in S <=> s \in S) => new = old
               /\ kind[c] = k /\ conn[c] \notin S /\ s \in S =>
                      new = old \cup {c} /\ Cardinality(new) = Cardinality(old) + 1
               /\ kind[c] = k /\ conn[c] \in S /\ s \notin S =>
                      /\ new = old \ {c} /\ Cardinality(new) = Cardinality(old) - 1
                      /\ Cardinality(old) > 0
<1> DEFINE old == OfKind(k, S)
           new == OfKind(k, S)'
<1> USE DEF TypeOK, Becomes
<1>1. IsFiniteSet(old) /\ Cardinality(old) \in Nat /\ (Cardinality(old) = 0 <=> old = {})
  BY GroupSize
<1>2. kind[c] # k \/ (conn[c] \in S <=> s \in S) => new = old
  BY DEF OfKind
<1>3. ASSUME kind[c] = k, conn[c] \notin S, s \in S
      PROVE  new = old \cup {c} /\ Cardinality(new) = Cardinality(old) + 1
  <2>1. new = old \cup {c} /\ c \notin old
    BY <1>3 DEF OfKind
  <2> HIDE DEF old, new
  <2> QED
    BY <1>1, <2>1, FS_AddElement
<1>4. ASSUME kind[c] = k, conn[c] \in S, s \notin S
      PROVE  /\ new = old \ {c} /\ Cardinality(new) = Cardinality(old) - 1
             /\ Cardinality(old) > 0
  <2>1. new = old \ {c} /\ c \in old
    BY <1>4 DEF OfKind
  <2> HIDE DEF old, new
  <2>2. Cardinality(old \ {c}) = Cardinality(old) - 1
    BY <1>1, <2>1, FS_RemoveElement
  <2> QED
    BY <1>1, <2>1, <2>2
<1> QED
  BY <1>2, <1>3, <1>4

\* Queued connections are in none of the groups that are counted: dialling, and the
\* kernel dropping a closed listener's queue, change no count.
LEMMA QueueMoved ==
    ASSUME TypeOK, NEW S, S \cap {"new", "queued", "lost"} = {},
           \/ \E c \in Conns, k \in Kind : Dial(c, k)
           \/ \E k \in Kind : CloseListener(k),
           NEW k \in Kind
    PROVE  OfKind(k, S)' = OfKind(k, S)
<1> USE DEF TypeOK, OfKind
<1>1. ASSUME NEW c \in Conns, NEW l \in Kind, Dial(c, l)
      PROVE  OfKind(k, S)' = OfKind(k, S)
  BY <1>1 DEF Dial, Becomes
<1>2. ASSUME NEW l \in Kind, CloseListener(l)
      PROVE  OfKind(k, S)' = OfKind(k, S)
  BY <1>2 DEF CloseListener
<1> QED
  BY <1>1, <1>2

\* The steps of loops, Reaper and shutdown that touch no connection.
Aside ==
    \/ \E k \in Kind : AcceptFails(k) \/ CancelSessions(k)
    \/ ReaperTick \/ ReaperSwept \/ ReaperExits \/ Signal \/ StopHealth \/ AcceptWait
    \/ Drained \/ DrainExpires \/ AllStopped \/ GraceExpires \/ StopReaper
    \/ ReaperStopped \/ ReaperExpires \/ CloseStore \/ UNCHANGED vars

\* They leave connections, slots and WaitGroups alone.
LEMMA AsideQuiet == Aside => UNCHANGED sessions
  BY DEF Aside, sessions, AcceptFails, CancelSessions, ReaperTick, ReaperSwept,
     ReaperExits, Signal, StopHealth, AcceptWait, Drained, DrainExpires, AllStopped,
     GraceExpires, StopReaper, ReaperStopped, ReaperExpires, CloseStore, vars

-----------------------------------------------------------------------------
(* Slots and WaitGroups.                                                   *)

\* What a connection step does to the counters of one kind.
LEMMA CountersStep ==
    ASSUME TypeOK, SlotsCounted, GroupsExact, [Next]_vars, NEW k \in Kind
    PROVE  /\ sem'[k] \in Nat /\ wg'[k] \in Nat
           /\ wg'[k] = Cardinality(OfKind(k, InGroup)')
           /\ MaxConns > 0 => /\ sem'[k] = Cardinality(OfKind(k, Serving \cup {"returned"})')
                              /\ sem'[k] <= MaxConns
<1> DEFINE Slot == Serving \cup {"returned"}
           Goal == /\ sem'[k] \in Nat /\ wg'[k] \in Nat
                   /\ wg'[k] = Cardinality(OfKind(k, InGroup)')
                   /\ MaxConns > 0 => /\ sem'[k] = Cardinality(OfKind(k, Slot)')
                                      /\ sem'[k] <= MaxConns
<1> USE ServerAssumption
<1>1. /\ sem[k] \in Nat /\ wg[k] \in Nat /\ wg[k] = Cardinality(OfKind(k, InGroup))
      /\ MaxConns > 0 => sem[k] = Cardinality(OfKind(k, Slot)) /\ sem[k] <= MaxConns
      /\ sem \in [Kind -> Nat] /\ wg \in [Kind -> Nat]
  BY DEF TypeOK, SlotsCounted, GroupsExact
<1>2. ASSUME sem'[k] = sem[k], wg'[k] = wg[k], OfKind(k, InGroup)' = OfKind(k, InGroup),
             OfKind(k, Slot)' = OfKind(k, Slot)
      PROVE  Goal
  BY <1>1, <1>2
<1>3. ASSUME NEW c \in Conns, NEW s \in ConnStage, Becomes(c, s), kind' = kind,
             sem' = sem, wg' = wg, conn[c] \in Slot <=> s \in Slot,
             conn[c] \in InGroup <=> s \in InGroup
      PROVE  Goal
  <2>1. OfKind(k, InGroup)' = OfKind(k, InGroup) /\ OfKind(k, Slot)' = OfKind(k, Slot)
    BY <1>3, Moved
  <2> QED
    BY <1>2, <1>3, <2>1
<1>4. ASSUME NEW l \in Kind, Accept(l) \/ Refuse(l) PROVE Goal
  <2>1. PICK c \in Conns, s \in {"held", "refused"} :
            Becomes(c, s) /\ conn[c] \in {"queued", "held"}
    BY <1>4 DEF Accept, Refuse, OfKind
  <2>2. kind' = kind /\ sem' = sem /\ wg' = wg
    BY <1>4 DEF Accept, Refuse
  <2> QED
    BY <1>3, <2>1, <2>2 DEF ConnStage, InGroup, Serving
<1>5. ASSUME NEW l \in Kind, Admit(l) PROVE Goal
  <2>1. PICK c \in Conns : kind[c] = l /\ conn[c] = "held" /\ Becomes(c, "serving")
    BY <1>5 DEF Admit, OfKind
  <2>2. /\ kind' = kind /\ wg' = [wg EXCEPT ![l] = @ + 1] /\ ~Full(l)
        /\ sem' = [sem EXCEPT ![l] = IF MaxConns = 0 THEN @ ELSE @ + 1]
    BY <1>5 DEF Admit
  <2>3. CASE l = k
    <3>1. /\ Cardinality(OfKind(k, InGroup)') = Cardinality(OfKind(k, InGroup)) + 1
          /\ Cardinality(OfKind(k, Slot)') = Cardinality(OfKind(k, Slot)) + 1
      BY <2>1, <2>2, <2>3, Moved DEF ConnStage, InGroup, Serving
    <3>2. /\ wg'[k] = wg[k] + 1
          /\ sem'[k] = IF MaxConns = 0 THEN sem[k] ELSE sem[k] + 1
      BY <1>1, <2>2, <2>3
    <3>3. MaxConns > 0 => sem[k] < MaxConns
      BY <1>1, <2>2, <2>3 DEF Full
    <3> HIDE DEF Slot
    <3> QED
      BY <1>1, <3>1, <3>2, <3>3
  <2>4. CASE l # k
    <3>1. OfKind(k, InGroup)' = OfKind(k, InGroup) /\ OfKind(k, Slot)' = OfKind(k, Slot)
      BY <2>1, <2>2, <2>4, Moved DEF ConnStage
    <3> QED
      BY <1>1, <1>2, <2>2, <2>4, <3>1
  <2> QED
    BY <2>3, <2>4
<1>6. ASSUME NEW c \in Conns, FreeSlot(c) PROVE Goal
  <2>1. /\ conn[c] = "returned" /\ Becomes(c, "freed") /\ kind' = kind /\ wg' = wg
        /\ sem' = [sem EXCEPT ![kind[c]] = IF MaxConns = 0 THEN @ ELSE @ - 1]
    BY <1>6 DEF FreeSlot
  <2>2. OfKind(k, InGroup)' = OfKind(k, InGroup)
    BY <2>1, Moved DEF ConnStage, InGroup, Serving
  <2>3. CASE kind[c] = k
    <3>1. /\ Cardinality(OfKind(k, Slot)') = Cardinality(OfKind(k, Slot)) - 1
          /\ Cardinality(OfKind(k, Slot)) > 0
      BY <2>1, <2>3, Moved DEF ConnStage, Serving
    <3>2. sem'[k] = IF MaxConns = 0 THEN sem[k] ELSE sem[k] - 1
      BY <1>1, <2>1, <2>3
    <3> HIDE DEF Slot
    <3> QED
      BY <1>1, <2>1, <2>2, <3>1, <3>2
  <2>4. CASE kind[c] # k
    <3>1. OfKind(k, Slot)' = OfKind(k, Slot)
      BY <2>1, <2>4, Moved DEF ConnStage
    <3> QED
      BY <1>1, <1>2, <2>1, <2>2, <2>4, <3>1
  <2> QED
    BY <2>3, <2>4
<1>7. ASSUME NEW c \in Conns, WaitGroupDone(c) PROVE Goal
  <2>1. /\ conn[c] = "freed" /\ Becomes(c, "gone") /\ kind' = kind /\ sem' = sem
        /\ wg' = [wg EXCEPT ![kind[c]] = @ - 1]
    BY <1>7 DEF WaitGroupDone
  <2>2. OfKind(k, Slot)' = OfKind(k, Slot)
    BY <2>1, Moved DEF ConnStage, Serving
  <2>3. CASE kind[c] = k
    <3>1. /\ Cardinality(OfKind(k, InGroup)') = Cardinality(OfKind(k, InGroup)) - 1
          /\ Cardinality(OfKind(k, InGroup)) > 0
      BY <2>1, <2>3, Moved DEF ConnStage, InGroup, Serving
    <3>2. wg'[k] = wg[k] - 1
      BY <1>1, <2>1, <2>3
    <3> HIDE DEF Slot
    <3> QED
      BY <1>1, <2>1, <2>2, <3>1, <3>2
  <2>4. CASE kind[c] # k
    <3>1. OfKind(k, InGroup)' = OfKind(k, InGroup)
      BY <2>1, <2>4, Moved DEF ConnStage
    <3> QED
      BY <1>1, <1>2, <2>1, <2>2, <2>4, <3>1
  <2> QED
    BY <2>3, <2>4
<1>8. ASSUME NEW c \in Conns, StoreCall(c) \/ StoreReturns(c) \/ SessionEnds(c) PROVE Goal
  <2>1. PICK s \in {"busy", "serving", "returned"} : Becomes(c, s)
    BY <1>8 DEF StoreCall, StoreReturns, SessionEnds
  <2>2. conn[c] \in Serving /\ kind' = kind /\ sem' = sem /\ wg' = wg
    BY <1>8 DEF StoreCall, StoreReturns, SessionEnds, Serving
  <2> QED
    BY <1>3, <2>1, <2>2 DEF ConnStage, InGroup, Serving
<1>9. ASSUME \/ \E c \in Conns, l \in Kind : Dial(c, l)
             \/ \E l \in Kind : CloseListener(l)
      PROVE  Goal
  <2>1. OfKind(k, InGroup)' = OfKind(k, InGroup)
    BY <1>9, QueueMoved DEF InGroup, Serving
  <2>2. OfKind(k, Slot)' = OfKind(k, Slot)
    BY <1>9, QueueMoved DEF Serving
  <2>3. sem' = sem /\ wg' = wg
    BY <1>9 DEF Dial, CloseListener
  <2> QED
    BY <1>2, <2>1, <2>2, <2>3
<1>10. CASE Aside
  <2>1. conn' = conn /\ kind' = kind /\ sem' = sem /\ wg' = wg
    BY <1>10, AsideQuiet DEF sessions
  <2>2. OfKind(k, InGroup)' = OfKind(k, InGroup) /\ OfKind(k, Slot)' = OfKind(k, Slot)
    BY <2>1 DEF OfKind
  <2> QED
    BY <1>2, <2>1, <2>2
<1> QED
  BY <1>4, <1>5, <1>6, <1>7, <1>8, <1>9, <1>10 DEF Next, LoopNext, ConnNext,
     ShutdownNext, Aside

-----------------------------------------------------------------------------
(* Types, the loops and the order of shutdown.                             *)

\* Counters stay natural numbers because each defer pairs with an admission.
LEMMA TypeStep ==
    ASSUME TypeOK, SlotsCounted, GroupsExact, [Next]_vars
    PROVE  TypeOK'
<1>1. sem' \in [Kind -> Nat] /\ wg' \in [Kind -> Nat]
  <2>1. /\ DOMAIN sem' = Kind /\ sem' = [k \in Kind |-> sem'[k]]
        /\ DOMAIN wg' = Kind /\ wg' = [k \in Kind |-> wg'[k]]
    BY DEF TypeOK, Next, LoopNext, ConnNext, ShutdownNext, Dial, Accept, AcceptFails,
       Admit, Refuse, StoreCall, StoreReturns, SessionEnds, FreeSlot, WaitGroupDone,
       ReaperTick, ReaperSwept, ReaperExits, Signal, StopHealth, CloseListener,
       AcceptWait, Drained, DrainExpires, CancelSessions, AllStopped, GraceExpires,
       StopReaper, ReaperStopped, ReaperExpires, CloseStore, vars, sessions
  <2>2. \A k \in Kind : sem'[k] \in Nat /\ wg'[k] \in Nat
    BY CountersStep
  <2> QED
    BY <2>1, <2>2
<1> USE <1>1 DEF TypeOK, ConnStage, Stage, Becomes, LoopAt, From, OfKind, accept,
     sessions, background
<1>2. ASSUME NEW k \in Kind, LoopNext(k) PROVE TypeOK'
  <2>1. CASE Accept(k)
    BY <2>1 DEF Accept
  <2>2. CASE AcceptFails(k)
    BY <2>2 DEF AcceptFails
  <2>3. CASE Admit(k)
    BY <2>3 DEF Admit
  <2>4. CASE Refuse(k)
    BY <2>4 DEF Refuse
  <2> QED
    BY <1>2, <2>1, <2>2, <2>3, <2>4 DEF LoopNext
<1>3. ASSUME NEW c \in Conns, NEW k \in Kind, Dial(c, k) PROVE TypeOK'
  BY <1>3 DEF Dial
<1>4. ASSUME NEW c \in Conns, \/ StoreCall(c) \/ StoreReturns(c) \/ SessionEnds(c)
                              \/ FreeSlot(c) \/ WaitGroupDone(c)
      PROVE  TypeOK'
  <2>1. CASE StoreCall(c) \/ StoreReturns(c) \/ SessionEnds(c)
    <3>1. /\ conn[c] # "new" /\ conn' \in [Conns -> ConnStage]
          /\ \A d \in Conns : conn'[d] # "new" => conn[d] # "new"
      BY <2>1 DEF StoreCall, StoreReturns, SessionEnds
    <3>2. UNCHANGED <<accept, sem, wg, ctxDone, kind, stage, background, fired>>
      BY <2>1 DEF StoreCall, StoreReturns, SessionEnds
    <3> QED
      BY <3>1, <3>2
  <2>2. CASE FreeSlot(c)
    BY <2>2 DEF FreeSlot
  <2>3. CASE WaitGroupDone(c)
    BY <2>3 DEF WaitGroupDone
  <2> QED
    BY <1>4, <2>1, <2>2, <2>3
<1>5. ASSUME NEW k \in Kind, CloseListener(k) PROVE TypeOK'
  BY <1>5 DEF CloseListener
<1>6. ASSUME NEW k \in Kind, CancelSessions(k) PROVE TypeOK'
  BY <1>6 DEF CancelSessions
<1>7. CASE Signal \/ StopHealth \/ AcceptWait \/ Drained \/ DrainExpires \/ AllStopped
  BY <1>7 DEF Signal, StopHealth, AcceptWait, Drained, DrainExpires, AllStopped
<1>8. CASE GraceExpires \/ StopReaper \/ ReaperStopped \/ ReaperExpires \/ CloseStore
  BY <1>8 DEF GraceExpires, StopReaper, ReaperStopped, ReaperExpires, CloseStore
<1>9. CASE ReaperTick \/ ReaperSwept \/ ReaperExits \/ UNCHANGED vars
  BY <1>9 DEF ReaperTick, ReaperSwept, ReaperExits, vars
<1> QED
  BY <1>2, <1>3, <1>4, <1>5, <1>6, <1>7, <1>8, <1>9 DEF Next, ConnNext, ShutdownNext

\* A loop holds one connection at a time, and none once it has ended.
LEMMA HeldStep == ASSUME TypeOK, HeldByLoop, [Next]_vars PROVE HeldByLoop'
<1> USE DEF TypeOK, HeldByLoop, Becomes, LoopAt, OfKind
<1>1. ASSUME NEW k \in Kind, Accept(k) PROVE HeldByLoop'
  BY <1>1 DEF Accept
<1>2. ASSUME NEW k \in Kind, AcceptFails(k) PROVE HeldByLoop'
  BY <1>2 DEF AcceptFails, sessions
<1>3. ASSUME NEW k \in Kind, Admit(k) \/ Refuse(k) PROVE HeldByLoop'
  BY <1>3 DEF Admit, Refuse
<1>4. ASSUME NEW c \in Conns, NEW k \in Kind, Dial(c, k) PROVE HeldByLoop'
  BY <1>4 DEF Dial, accept
<1>5. ASSUME NEW c \in Conns, \/ StoreCall(c) \/ StoreReturns(c) \/ SessionEnds(c)
                              \/ FreeSlot(c) \/ WaitGroupDone(c)
      PROVE  HeldByLoop'
  BY <1>5 DEF StoreCall, StoreReturns, SessionEnds, FreeSlot, WaitGroupDone, accept
<1>6. ASSUME NEW k \in Kind, CloseListener(k) PROVE HeldByLoop'
  BY <1>6 DEF CloseListener
<1>7. ASSUME Aside, ~ \E k \in Kind : AcceptFails(k)
      PROVE  loop' = loop /\ conn' = conn /\ kind' = kind
  BY <1>7 DEF Aside, accept, sessions, CancelSessions, ReaperTick, ReaperSwept,
     ReaperExits, Signal, StopHealth, AcceptWait, Drained, DrainExpires, AllStopped,
     GraceExpires, StopReaper, ReaperStopped, ReaperExpires, CloseStore, vars
<1> QED
  BY <1>1, <1>2, <1>3, <1>4, <1>5, <1>6, <1>7 DEF Next, LoopNext, ConnNext,
     ShutdownNext, Aside

\* A session group that has become empty after both loops ended stays empty: only
\* Admit fills it.
LEMMA EmptyStays ==
    ASSUME TypeOK, LoopsDone, [Next]_vars, NEW k \in Kind, OfKind(k, InGroup) = {}
    PROVE  OfKind(k, InGroup)' = {}
<1> USE DEF TypeOK, OfKind, InGroup, Serving, Becomes
<1>1. ASSUME NEW l \in Kind, LoopNext(l) PROVE FALSE
  BY <1>1 DEF LoopsDone, LoopNext, Accept, AcceptFails, Admit, Refuse
<1>2. ASSUME NEW c \in Conns, ConnNext(c) PROVE OfKind(k, InGroup)' = {}
  BY <1>2 DEF ConnNext, Dial, StoreCall, StoreReturns, SessionEnds, FreeSlot,
     WaitGroupDone
<1>3. ASSUME NEW l \in Kind, CloseListener(l) PROVE OfKind(k, InGroup)' = {}
  BY <1>3 DEF CloseListener
<1>4. CASE Aside
  BY <1>4, AsideQuiet DEF sessions
<1> QED
  BY <1>1, <1>2, <1>3, <1>4 DEF Next, ShutdownNext, Aside

\* Each step of shutdown establishes what the next one relies on, and sessions,
\* loops and Reaper never undo it.
LEMMA OrderStep ==
    ASSUME TypeOK, GroupsExact, ShutdownOrder, [Next]_vars
    PROVE  ShutdownOrder'
<1> USE DEF AtCloseStore, AfterGrace, AfterDrain
<1>1. LoopsDone => LoopsDone'
  BY DEF TypeOK, LoopsDone, Next, LoopNext, ConnNext, ShutdownNext, Dial, Accept,
     AcceptFails, Admit, Refuse, StoreCall, StoreReturns, SessionEnds, FreeSlot,
     WaitGroupDone, ReaperTick, ReaperSwept, ReaperExits, Signal, StopHealth,
     CloseListener, AcceptWait, Drained, DrainExpires, CancelSessions, AllStopped,
     GraceExpires, StopReaper, ReaperStopped, ReaperExpires, CloseStore, vars, accept
<1>2. LoopsDone => \A k \in Kind : OfKind(k, InGroup) = {} => OfKind(k, InGroup)' = {}
  BY EmptyStays
<1>3. \A k \in Kind : wg[k] = 0 => OfKind(k, InGroup) = {}
  BY GroupSize DEF GroupsExact
<1>4. ASSUME UNCHANGED <<stage, ctxDone, db, fired>>, reaper = "done" => reaper' = "done"
      PROVE  ShutdownOrder'
  BY <1>1, <1>2, <1>4 DEF ShutdownOrder, Kind
<1>5. CASE (\E k \in Kind : LoopNext(k)) \/ (\E c \in Conns : ConnNext(c))
  BY <1>4, <1>5 DEF LoopNext, ConnNext, Dial, Accept, AcceptFails, Admit, Refuse,
     StoreCall, StoreReturns, SessionEnds, FreeSlot, WaitGroupDone, background
<1>6. CASE ReaperTick \/ ReaperSwept \/ ReaperExits \/ UNCHANGED vars
  BY <1>4, <1>6 DEF ReaperTick, ReaperSwept, ReaperExits, vars
<1> USE DEF From, TypeOK, Stage, background
<1>7. CASE Signal \/ StopHealth \/ (\E k \in Kind : CloseListener(k))
  BY <1>1, <1>2, <1>7 DEF ShutdownOrder, Signal, StopHealth, CloseListener
<1>8. CASE AcceptWait
  BY <1>1, <1>2, <1>8 DEF ShutdownOrder, AcceptWait, Kind
<1>9. CASE Drained
  BY <1>1, <1>2, <1>3, <1>9 DEF ShutdownOrder, Drained, Kind
<1>10. CASE DrainExpires
  BY <1>1, <1>2, <1>10 DEF ShutdownOrder, DrainExpires, Kind
<1>11. CASE \E k \in Kind : CancelSessions(k)
  BY <1>1, <1>2, <1>11 DEF ShutdownOrder, CancelSessions, Kind
<1>12. CASE AllStopped
  BY <1>1, <1>2, <1>3, <1>12 DEF ShutdownOrder, AllStopped, SessionsDone, Kind
<1>13. CASE GraceExpires
  BY <1>1, <1>2, <1>13 DEF ShutdownOrder, GraceExpires, Kind
<1>14. CASE StopReaper
  BY <1>1, <1>2, <1>14 DEF ShutdownOrder, StopReaper, Kind
<1>15. CASE ReaperStopped \/ ReaperExpires
  BY <1>1, <1>2, <1>15 DEF ShutdownOrder, ReaperStopped, ReaperExpires, Kind
<1>16. CASE CloseStore
  BY <1>1, <1>2, <1>16 DEF ShutdownOrder, CloseStore, Kind
<1> QED
  BY <1>5, <1>6, <1>7, <1>8, <1>9, <1>10, <1>11, <1>12, <1>13, <1>14, <1>15, <1>16
     DEF Next, ShutdownNext

-----------------------------------------------------------------------------
(* Theorems.                                                               *)

\* The invariant holds in every reachable state.
THEOREM ServerInvariant == Spec => []ServerInv
<1>1. Init => ServerInv
  <2> SUFFICES ASSUME Init PROVE ServerInv
    OBVIOUS
  <2>1. \A k \in Kind : OfKind(k, InGroup) = {} /\ OfKind(k, Serving \cup {"returned"}) = {}
    BY DEF Init, OfKind, InGroup, Serving
  <2>2. Cardinality({}) = 0
    BY FS_EmptySet
  <2>3. TypeOK
    BY DEF Init, TypeOK, ConnStage, Stage
  <2>4. SlotsCounted /\ GroupsExact
    <3>1. \A k \in Kind : sem[k] = 0 /\ wg[k] = 0
      BY DEF Init
    <3> QED
      <4>1. \A k \in Kind : /\ wg[k] = Cardinality(OfKind(k, InGroup))
                            /\ sem[k] = Cardinality(OfKind(k, Serving \cup {"returned"}))
        BY <2>1, <2>2, <3>1
      <4>2. \A k \in Kind : sem[k] <= MaxConns
        BY <3>1, ServerAssumption
      <4> QED
        BY <2>3, <4>1, <4>2 DEF SlotsCounted, GroupsExact
  <2>5. HeldByLoop
    BY DEF Init, HeldByLoop
  <2>6. ShutdownOrder
    BY DEF Init, ShutdownOrder, AfterDrain, AfterGrace, AtCloseStore
  <2> QED
    BY <2>4, <2>5, <2>6 DEF ServerInv
<1>2. ServerInv /\ [Next]_vars => ServerInv'
  <2> SUFFICES ASSUME ServerInv, [Next]_vars PROVE ServerInv'
    OBVIOUS
  <2>1. TypeOK /\ SlotsCounted /\ GroupsExact /\ HeldByLoop /\ ShutdownOrder
    BY DEF ServerInv, SlotsCounted
  <2>2. TypeOK'
    BY <2>1, TypeStep
  <2>3. SlotsCounted' /\ GroupsExact'
    BY <2>1, <2>2, CountersStep DEF SlotsCounted, GroupsExact
  <2> QED
    BY <2>1, <2>3, HeldStep, OrderStep DEF ServerInv
<1> QED
  BY <1>1, <1>2, PTL DEF Spec

\* Connection slots are counted exactly and never exceed max_connections.
THEOREM SlotsNeverLeak == Spec => []SlotsCounted
<1>1. ServerInv => SlotsCounted
  BY DEF ServerInv
<1> QED
  BY <1>1, ServerInvariant, PTL

\* Within the drain budget no session is cancelled while a Push Session runs.
THEOREM DrainRespected == Spec => []PushNotCutEarly
<1>1. ServerInv => PushNotCutEarly
  BY DEF ServerInv, ShutdownOrder, PushNotCutEarly, AfterDrain, OfKind, InGroup
<1> QED
  BY <1>1, ServerInvariant, PTL

\* The store is closed under a session or a Reaper's pass only after the wait for
\* it timed out.
THEOREM StoreLast == Spec => []StoreClosesLast
<1>1. ServerInv => StoreClosesLast
  <2> SUFFICES ASSUME ServerInv, db = "closed"
               PROVE  /\ "grace" \notin fired =>
                            \A c \in Conns : conn[c] \notin Serving \cup {"held"}
                      /\ "reaper" \notin fired => reaper = "done"
    BY DEF StoreClosesLast
  <2>1. stage = "down" /\ LoopsDone
    BY DEF ServerInv, ShutdownOrder, AfterDrain, AfterGrace, AtCloseStore
  <2>2. \A c \in Conns : conn[c] # "new" => kind[c] \in Kind
    BY DEF ServerInv, SlotsCounted, TypeOK
  <2>3. \A c \in Conns : conn[c] # "held"
    BY <2>1, <2>2 DEF ServerInv, HeldByLoop, LoopsDone
  <2>4. "grace" \notin fired => \A c \in Conns : conn[c] \notin Serving
    BY <2>1, <2>2 DEF ServerInv, ShutdownOrder, AfterGrace, AtCloseStore, OfKind,
       InGroup, Serving
  <2> QED
    BY <2>1, <2>3, <2>4 DEF ServerInv, ShutdownOrder, AtCloseStore
<1> QED
  BY <1>1, ServerInvariant, PTL

-----------------------------------------------------------------------------
(* The configuration the server is started with.                           *)

\* What Load returns when it returns a configuration, and what it then did not find.
LEMMA Loaded ==
    ASSUME NEW i \in Inputs, Load(i.first, i.second, i.env).ok
    PROVE  LET c == Load(i.first, i.second, i.env)
               overlay == IF i.first.state = "missing" THEN NoFile ELSE i.second
           IN  /\ c.num = [k \in Knobs |-> Resolved(k, Explicit(k, overlay, i.env))]
               /\ c.text = [t \in TextKnobs |-> Text(t, i.first, i.env)]
               /\ c.dev = (i.env.dev = "true")
               /\ i.first.state # "garbled"
               /\ i.first.state = "ok" => i.second.state = "ok"
               /\ ~EnvRefused(i.env)
               /\ \A k \in Knobs : \/ Explicit(k, overlay, i.env) = Unset
                                   \/ ~OutOfRange(k, Explicit(k, overlay, i.env))
               /\ Validate(c.num, c.text)
<1> DEFINE overlay == IF i.first.state = "missing" THEN NoFile ELSE i.second
           num == [k \in Knobs |-> Explicit(k, overlay, i.env)]
           resolved == [k \in Knobs |-> Resolved(k, num[k])]
           text == [t \in TextKnobs |-> Text(t, i.first, i.env)]
           bad == \/ i.first.state = "garbled"
                  \/ i.first.state = "ok" /\ i.second.state # "ok"
                  \/ EnvRefused(i.env)
                  \/ \E k \in Knobs : num[k] # Unset /\ OutOfRange(k, num[k])
                  \/ ~Validate(resolved, text)
<1>1. Load(i.first, i.second, i.env)
        = IF bad THEN Refused
          ELSE [ok |-> TRUE, num |-> resolved, text |-> text, dev |-> i.env.dev = "true"]
  BY DEF Load
<1> HIDE DEF bad
<1>2. ~bad
  BY <1>1 DEF Refused
<1>3. /\ Load(i.first, i.second, i.env).num = resolved
      /\ Load(i.first, i.second, i.env).text = text
      /\ Load(i.first, i.second, i.env).dev = (i.env.dev = "true")
  <2> HIDE DEF resolved, text
  <2> QED
    BY <1>1, <1>2
<1>4. resolved = [k \in Knobs |-> Resolved(k, Explicit(k, overlay, i.env))]
  BY Zenon
<1> QED
  BY <1>2, <1>3, <1>4, Zenon DEF bad

\* A knob's explicit value is a number of its type or nothing, and what the operator
\* asked for: the variable where it parses, else the file.
LEMMA ExplicitIsAsked ==
    ASSUME NEW i \in Inputs, Load(i.first, i.second, i.env).ok, NEW k \in Knobs
    PROVE  LET overlay == IF i.first.state = "missing" THEN NoFile ELSE i.second
               v == Explicit(k, overlay, i.env)
           IN  /\ v \in Setting(k)
               /\ v \notin NonFinite => Resolved(k, v) = Asked(k, i)
<1> DEFINE overlay == IF i.first.state = "missing" THEN NoFile ELSE i.second
           e == i.env.num[k]
           f == overlay.num[k]
<1>1. e \in Setting(k) \cup {Garbage} /\ i.second.num[k] \in Setting(k)
      /\ i.first.state \in {"ok", "missing", "garbled"}
  BY ConfigAssumption DEF IsRead, IsEnv
<1>2. /\ i.first.state \in {"ok", "missing"}
      /\ k \in CeilingKnobs => e # Garbage
  BY <1>1, Loaded DEF EnvRefused
<1>3. f = IF i.first.state = "missing" THEN Unset ELSE i.second.num[k]
  BY DEF NoFile
<1>4. f \in Setting(k)
  BY <1>1, <1>3 DEF Setting
<1>5. k \notin FloatKnobs => e \in Int \cup {Unset, Garbage}
  BY <1>1 DEF Setting
<1>6. Explicit(k, overlay, i.env)
        = IF e = Unset \/ e = Garbage \/ (k \in FloatKnobs /\ e \in NonFinite) THEN f ELSE e
  BY DEF Explicit, Ignored
<1> HIDE DEF overlay, e, f
<1>7. CASE e \in {Unset, Garbage} \cup NonFinite
  <2>1. Explicit(k, overlay, i.env) = f
    BY <1>5, <1>6, <1>7, ConfigAssumption
  <2>2. Asked(k, i) = IF i.first.state = "ok" /\ i.second.num[k] # Unset
                      THEN i.second.num[k] ELSE Default[k]
    BY <1>7 DEF Asked, e
  <2> QED
    BY <1>2, <1>3, <1>4, <2>1, <2>2 DEF Resolved, overlay
<1>8. CASE e \notin {Unset, Garbage} \cup NonFinite
  <2>1. Explicit(k, overlay, i.env) = e /\ e # Unset /\ e \in Setting(k)
    BY <1>1, <1>6, <1>8
  <2>2. Asked(k, i) = e
    BY <1>8 DEF Asked, e
  <2> QED
    BY <2>1, <2>2 DEF Resolved, overlay
<1> QED
  BY <1>7, <1>8

\* What resolve lets through is in its knob's range but for the ceiling.
LEMMA ResolvedInRange ==
    ASSUME NEW k \in Knobs, NEW v \in Setting(k), v = Unset \/ ~OutOfRange(k, v)
    PROVE  /\ v \notin NonFinite /\ Resolved(k, v) \in Int
           /\ Resolved(k, v) > 0 \/ (k \in ZeroKnobs /\ Resolved(k, v) = 0)
<1>1. CASE v = Unset
  BY <1>1, ConfigAssumption DEF Resolved
<1>2. CASE v # Unset /\ k \in ZeroKnobs
  <2>1. v \in Int /\ ~(v < 0)
    BY <1>2, ConfigAssumption DEF Setting, OutOfRange
  <2> QED
    BY <1>2, <2>1, ConfigAssumption DEF Resolved
<1>3. CASE v # Unset /\ k \in FloatKnobs
  <2>1. v \notin NonFinite /\ ~NotPositive(v)
    BY <1>3, ConfigAssumption DEF OutOfRange
  <2> QED
    BY <1>3, <2>1 DEF Setting, NotPositive, Resolved
<1>4. CASE v # Unset /\ k \notin ZeroKnobs \cup FloatKnobs
  <2>1. v \in Int /\ ~NotPositive(v)
    BY <1>4 DEF Setting, OutOfRange
  <2> QED
    BY <1>4, <2>1, ConfigAssumption DEF NotPositive, Resolved
<1> QED
  BY <1>1, <1>2, <1>3, <1>4

\* config.Load on any file, read twice with any change in between, and any
\* environment: what it returns is in range, fully named and what was asked for.
THEOREM LoadIsSound == LoadSound
<1> SUFFICES ASSUME NEW i \in Inputs, Load(i.first, i.second, i.env).ok
             PROVE  LET c == Load(i.first, i.second, i.env)
                    IN  /\ \A k \in Knobs : InRange(k, c.num[k]) /\ c.num[k] = Asked(k, i)
                        /\ c.text["store_type"] = "sqlite" => c.text["sqlite_path"] # ""
                        /\ c.text["store_type"] = "postgres" => c.text["postgres_dsn"] # ""
                        /\ c.dev => i.env.dev = "true"
  BY DEF LoadSound
<1> DEFINE c == Load(i.first, i.second, i.env)
           overlay == IF i.first.state = "missing" THEN NoFile ELSE i.second
<1>1. /\ c.num = [k \in Knobs |-> Resolved(k, Explicit(k, overlay, i.env))]
      /\ c.dev = (i.env.dev = "true")
      /\ \A k \in Knobs : \/ Explicit(k, overlay, i.env) = Unset
                          \/ ~OutOfRange(k, Explicit(k, overlay, i.env))
      /\ Validate(c.num, c.text)
  BY Loaded
<1>2. ASSUME NEW k \in Knobs
      PROVE  InRange(k, c.num[k]) /\ c.num[k] = Asked(k, i)
  <2> DEFINE v == Explicit(k, overlay, i.env)
  <2>1. v \in Setting(k) /\ (v \notin NonFinite => Resolved(k, v) = Asked(k, i))
    BY ExplicitIsAsked
  <2>2. c.num[k] = Resolved(k, v) /\ (v = Unset \/ ~OutOfRange(k, v))
    BY <1>1
  <2>3. k \in CeilingKnobs => c.num[k] <= Ceiling[k]
    BY <1>1 DEF Validate
  <2> HIDE DEF v, c
  <2>4. /\ v \notin NonFinite /\ Resolved(k, v) \in Int
        /\ Resolved(k, v) > 0 \/ (k \in ZeroKnobs /\ Resolved(k, v) = 0)
    BY <2>1, <2>2, ResolvedInRange
  <2> QED
    BY <2>1, <2>2, <2>3, <2>4, ConfigAssumption DEF InRange
<1>3. /\ c.text["store_type"] = "sqlite" => c.text["sqlite_path"] # ""
      /\ c.text["store_type"] = "postgres" => c.text["postgres_dsn"] # ""
  <2> HIDE DEF c
  <2> QED
    BY <1>1 DEF Validate
<1> QED
  BY <1>1, <1>2, <1>3

\* Whenever a connection is served, the configuration is one that respects the
\* ranges and the operator's words.
THEOREM ServedInRange == Spec => []ConfigSound
<1>1. ConfigSound
  BY LoadIsSound DEF ConfigSound
<1> QED
  BY <1>1, PTL

-----------------------------------------------------------------------------
(* The push rate limiter: the swept map of buckets implements TokenBucket  *)
(* whenever an idle bucket is full again by the time it may be swept.      *)

\* The condition: an empty bucket fills up within bucketIdleTTL.
Refills == Burst <= Rate * IdleTTL

-----------------------------------------------------------------------------
(* Arithmetic of refilling.                                                *)

\* One more tick earns Rate more.
LEMMA Distribute == \A a, b \in Int : a * (b + 1) = a * b + a
  OBVIOUS

\* A longer time earns no less.
LEMMA Monotone == \A a \in Nat : \A b, c \in Int : b <= c => a * b <= a * c
  OBVIOUS

\* The cap never lets more through than it is given, nor more than the cap.
LEMMA Capped ==
    \A n, m \in Nat : /\ AtMost(n, m) \in 0 .. m /\ AtMost(n, m) <= n
                      /\ (m <= n => AtMost(n, m) = m)
  BY DEF AtMost

\* A bucket's topped-up content is between empty and full.
LEMMA FilledType ==
    ASSUME LimiterTypeOK, NEW k \in Keys
    PROVE  /\ time - last[k] \in Nat /\ Rate * (time - last[k]) \in Nat
           /\ Filled(k) \in 0 .. Burst /\ Found(k) \in 0 .. Burst
<1>1. time - last[k] \in Nat
  BY DEF LimiterTypeOK
<1>2. Rate * (time - last[k]) \in Nat
  BY <1>1, LimiterAssumption
<1>3. tokens[k] + Rate * (time - last[k]) \in Nat
  BY <1>2, LimiterAssumption DEF LimiterTypeOK
<1>4. Filled(k) \in 0 .. Burst
  BY <1>3, Capped, LimiterAssumption DEF Filled
<1> QED
  BY <1>1, <1>2, <1>4, LimiterAssumption DEF Found

-----------------------------------------------------------------------------
(* Type correctness.                                                       *)

\* No bucket overflows or is overdrawn, and none is dated in the future.
THEOREM LimiterTypeCorrect == LimiterSpec => []LimiterTypeOK
<1>1. LimiterInit => LimiterTypeOK
  BY LimiterAssumption DEF LimiterInit, LimiterTypeOK
<1>2. LimiterTypeOK /\ [LimiterNext]_limiterVars => LimiterTypeOK'
  <2> SUFFICES ASSUME LimiterTypeOK, [LimiterNext]_limiterVars PROVE LimiterTypeOK'
    OBVIOUS
  <2>1. ASSUME NEW k \in Keys, Allow(k) PROVE LimiterTypeOK'
    <3>1. Found(k) \in 0 .. Burst
      BY FilledType
    <3>2. (IF Found(k) >= Unit THEN Found(k) - Unit ELSE Found(k)) \in 0 .. Burst
      BY <3>1, LimiterAssumption
    <3>3. tokens' \in [Keys -> 0 .. Burst]
      BY <2>1, <3>2 DEF Allow, LimiterTypeOK
    <3>4. present' \subseteq Keys
      BY <2>1 DEF Allow, LimiterTypeOK, Swept
    <3> QED
      BY <2>1, <3>3, <3>4, LimiterAssumption DEF Allow, LimiterTypeOK
  <2>2. CASE Tick
    BY <2>2 DEF Tick, LimiterTypeOK
  <2>3. CASE UNCHANGED limiterVars
    BY <2>3 DEF limiterVars, LimiterTypeOK
  <2> QED
    BY <2>1, <2>2, <2>3 DEF LimiterNext
<1> QED
  BY <1>1, <1>2, PTL DEF LimiterSpec

-----------------------------------------------------------------------------
(* Refinement.                                                             *)

\* A bucket the sweep drops was full.
LEMMA SweptWasFull ==
    ASSUME LimiterTypeOK, Refills, NEW k \in present, k \notin Swept
    PROVE  Filled(k) = Burst
<1>1. k \in Keys /\ last[k] \in Nat /\ time \in Nat /\ tokens[k] \in Nat
  BY DEF LimiterTypeOK
<1>2. ~(last[k] >= time - IdleTTL)
  BY DEF Swept
<1>3. IdleTTL <= time - last[k]
  BY <1>1, <1>2, LimiterAssumption
<1>4. Rate * IdleTTL <= Rate * (time - last[k])
  BY <1>1, <1>3, Monotone, LimiterAssumption
<1>5. Rate * (time - last[k]) \in Nat /\ Rate * IdleTTL \in Nat
  BY <1>1, FilledType, LimiterAssumption
<1>6. Burst <= tokens[k] + Rate * (time - last[k])
  BY <1>1, <1>4, <1>5, LimiterAssumption DEF Refills
<1>7. tokens[k] + Rate * (time - last[k]) \in Nat
  BY <1>1, <1>5
<1> QED
  BY <1>6, <1>7, Capped, LimiterAssumption DEF Filled

\* A push finds what TokenBucket holds for its recipient.
LEMMA FoundIsLevel ==
    ASSUME LimiterTypeOK, Refills, NEW k \in Keys PROVE Found(k) = Level[k]
<1>1. CASE k \in Swept
  BY <1>1 DEF Found, Level, Swept
<1>2. CASE k \notin Swept /\ k \in present
  BY <1>2, SweptWasFull DEF Found, Level
<1>3. CASE k \notin Swept /\ k \notin present
  BY <1>3 DEF Found, Level
<1> QED
  BY <1>1, <1>2, <1>3

\* allow changes the level of its own recipient only, sweep or no sweep.
LEMMA AllowLevel ==
    ASSUME LimiterTypeOK, LimiterTypeOK', Refills, NEW k \in Keys, Allow(k)
    PROVE  Level' = [Level EXCEPT ![k] =
                        IF Found(k) >= Unit THEN Found(k) - Unit ELSE Found(k)]
<1> DEFINE left == IF Found(k) >= Unit THEN Found(k) - Unit ELSE Found(k)
<1>1. /\ present' = Swept \cup {k} /\ time' = time
      /\ tokens' = [tokens EXCEPT ![k] = left] /\ last' = [last EXCEPT ![k] = time]
  BY DEF Allow
<1>2. left \in 0 .. Burst
  BY FilledType, LimiterAssumption
<1> HIDE DEF left
<1>3. Level'[k] = left
  <2>1. tokens'[k] = left /\ last'[k] = time /\ time \in Nat
    BY <1>1 DEF LimiterTypeOK
  <2>2. tokens'[k] + Rate * (time' - last'[k]) = left
    BY <1>1, <1>2, <2>1, LimiterAssumption
  <2>3. Filled(k)' = left
    BY <1>2, <2>2, LimiterAssumption DEF Filled, AtMost
  <2> QED
    BY <1>1, <2>3 DEF Level
<1>4. ASSUME NEW j \in Keys, j # k PROVE Level'[j] = Level[j]
  <2>1. Filled(j)' = Filled(j)
    BY <1>1, <1>4 DEF Filled, LimiterTypeOK
  <2>2. CASE j \in Swept
    BY <1>1, <2>1, <2>2 DEF Level, Swept
  <2>3. CASE j \notin Swept /\ j \in present
    BY <1>1, <1>4, <2>3, SweptWasFull DEF Level
  <2>4. CASE j \notin Swept /\ j \notin present
    BY <1>1, <1>4, <2>4 DEF Level
  <2> QED
    BY <2>2, <2>3, <2>4
<1> QED
  BY <1>3, <1>4 DEF Level, left

\* A tick tops every bucket up, in the map or not.
LEMMA TickLevel ==
    ASSUME LimiterTypeOK, Tick
    PROVE  Level' = [k \in Keys |-> AtMost(Level[k] + Rate, Burst)]
<1>1. SUFFICES ASSUME NEW k \in Keys
               PROVE  Level'[k] = AtMost(Level[k] + Rate, Burst)
  BY DEF Level
<1>2. time' = time + 1 /\ UNCHANGED <<present, tokens, last>>
  BY DEF Tick
<1>3. CASE k \notin present
  BY <1>2, <1>3, LimiterAssumption DEF Level, AtMost
<1>4. CASE k \in present
  <2> DEFINE e == Rate * (time - last[k])
  <2>1. e \in Nat /\ tokens[k] \in Nat /\ time \in Nat /\ last[k] \in Nat
    BY FilledType DEF LimiterTypeOK
  <2>2. Rate * ((time - last[k]) + 1) = e + Rate
    BY <2>1, Distribute, LimiterAssumption
  <2>3. time' - last'[k] = (time - last[k]) + 1
    BY <1>2, <2>1
  <2>4. Filled(k)' = AtMost(tokens[k] + (e + Rate), Burst)
    BY <1>2, <2>2, <2>3 DEF Filled
  <2>5. Filled(k) = AtMost(tokens[k] + e, Burst)
    BY DEF Filled
  <2> HIDE DEF e
  <2>6. AtMost(tokens[k] + (e + Rate), Burst)
            = AtMost(AtMost(tokens[k] + e, Burst) + Rate, Burst)
    BY <2>1, LimiterAssumption DEF AtMost
  <2> QED
    BY <1>2, <1>4, <2>4, <2>5, <2>6 DEF Level
<1> QED
  BY <1>3, <1>4

\* An idle bucket that is swept only once it is full again is forgotten without
\* anybody noticing: the limiter implements TokenBucket.
THEOREM ForgettingInvisible == Refills => (LimiterSpec => ForgettingIsInvisible)
<1> SUFFICES ASSUME Refills PROVE LimiterSpec => Bucket!TSpec
  BY DEF ForgettingIsInvisible
<1>1. LimiterInit => Bucket!TInit
  <2> SUFFICES ASSUME LimiterInit PROVE Bucket!TInit
    OBVIOUS
  <2>1. Level = [k \in Keys |-> Burst] /\ Rate * time = 0
    BY LimiterAssumption DEF LimiterInit, Level
  <2> QED
    BY <2>1 DEF LimiterInit, Bucket!TInit
<1>2. LimiterTypeOK /\ LimiterTypeOK' /\ [LimiterNext]_limiterVars => [Bucket!TNext]_(Bucket!tvars)
  <2> SUFFICES ASSUME LimiterTypeOK, LimiterTypeOK', [LimiterNext]_limiterVars
               PROVE  [Bucket!TNext]_(Bucket!tvars)
    OBVIOUS
  <2>1. ASSUME NEW k \in Keys, Allow(k) PROVE Bucket!Grant(k) \/ Bucket!Deny(k)
    <3>1. Found(k) = Level[k] /\ Found(k) \in 0 .. Burst
      BY FoundIsLevel, FilledType
    <3>2. Level' = [Level EXCEPT ![k] =
                        IF Found(k) >= Unit THEN Found(k) - Unit ELSE Found(k)]
      BY <2>1, AllowLevel
    <3>3. Level = [j \in Keys |-> Level[j]]
      BY DEF Level
    <3>4. (Rate * time)' = Rate * time
      BY <2>1 DEF Allow
    <3>5. CASE Found(k) >= Unit
      BY <2>1, <3>1, <3>2, <3>4, <3>5 DEF Allow, Bucket!Grant, LimiterTypeOK
    <3>6. CASE ~(Found(k) >= Unit)
      <4>1. Level' = Level
        BY <3>1, <3>2, <3>3, <3>6
      <4>2. spent' = spent /\ answer' = <<k, "refused">>
        BY <2>1, <3>6 DEF Allow, LimiterTypeOK
      <4>3. Level[k] < Unit
        BY <3>1, <3>6, LimiterAssumption
      <4> QED
        BY <3>4, <4>1, <4>2, <4>3 DEF Bucket!Deny
    <3> QED
      BY <3>5, <3>6
  <2>2. CASE Tick
    <3>1. Level' = [k \in Keys |-> AtMost(Level[k] + Rate, Burst)]
      BY <2>2, TickLevel
    <3>2. (Rate * time)' = Rate * time + Rate
      BY <2>2, Distribute, LimiterAssumption DEF Tick, LimiterTypeOK
    <3> QED
      BY <2>2, <3>1, <3>2 DEF Tick, Bucket!TNext, Bucket!Refill, Bucket!AtMost,
         AtMost
  <2>3. CASE UNCHANGED limiterVars
    BY <2>3 DEF limiterVars, Bucket!tvars, Level, Filled
  <2> QED
    BY <2>1, <2>2, <2>3 DEF LimiterNext, Bucket!TNext
<1> QED
  BY <1>1, <1>2, LimiterTypeCorrect, PTL DEF LimiterSpec, Bucket!TSpec

-----------------------------------------------------------------------------
(* The rate bound.                                                         *)

\* What is left in a bucket and what was spent never exceed what it was given.
Conserved == \A k \in Keys : Level[k] + spent[k] <= Burst + Rate * time

\* No Inbox gets more pushes than burst plus rate times the time passed.
THEOREM PushBounded == Refills => (LimiterSpec => []PushBound)
<1> SUFFICES ASSUME Refills PROVE LimiterSpec => []PushBound
  OBVIOUS
<1>1. LimiterInit => Conserved
  BY LimiterAssumption DEF LimiterInit, Conserved, Level
<1>2. LimiterTypeOK /\ LimiterTypeOK' /\ Conserved /\ [LimiterNext]_limiterVars => Conserved'
  <2> SUFFICES ASSUME LimiterTypeOK, LimiterTypeOK', Conserved, [LimiterNext]_limiterVars, NEW j \in Keys
               PROVE  Level'[j] + spent'[j] <= Burst + Rate * time'
    BY DEF Conserved
  <2>0. /\ Level[j] \in Nat /\ spent[j] \in Nat /\ Rate * time \in Nat
        /\ Level[j] + spent[j] <= Burst + Rate * time
    BY FilledType, LimiterAssumption DEF Level, LimiterTypeOK, Conserved
  <2>1. ASSUME NEW k \in Keys, Allow(k)
        PROVE  Level'[j] + spent'[j] <= Burst + Rate * time'
    <3>1. Level' = [Level EXCEPT ![k] =
                        IF Found(k) >= Unit THEN Found(k) - Unit ELSE Found(k)]
      BY <2>1, AllowLevel
    <3>2. Found(k) = Level[k] /\ Level = [i \in Keys |-> Level[i]]
      BY FoundIsLevel DEF Level
    <3>3. /\ spent' = [spent EXCEPT ![k] = IF Found(k) >= Unit THEN @ + Unit ELSE @]
          /\ time' = time
      BY <2>1 DEF Allow
    <3>4. CASE j = k
      BY <2>0, <3>1, <3>2, <3>3, <3>4, LimiterAssumption DEF LimiterTypeOK
    <3>5. CASE j # k
      BY <2>0, <3>1, <3>2, <3>3, <3>5, LimiterAssumption DEF LimiterTypeOK
    <3> QED
      BY <3>4, <3>5
  <2>2. CASE Tick
    <3>0. Level'[j] = AtMost(Level[j] + Rate, Burst)
      BY <2>2, TickLevel
    <3>1. Level'[j] <= Level[j] + Rate
      BY <2>0, <3>0, LimiterAssumption DEF AtMost
    <3>2. Rate * time' = Rate * time + Rate /\ spent' = spent
      BY <2>2, Distribute, LimiterAssumption DEF Tick, LimiterTypeOK
    <3>3. Level'[j] \in Nat
      BY <2>0, <3>0, LimiterAssumption DEF AtMost
    <3> QED
      BY <2>0, <3>1, <3>2, <3>3, LimiterAssumption
  <2>3. CASE UNCHANGED limiterVars
    <3>1. Level' = Level
      BY <2>3 DEF limiterVars, Level, Filled
    <3> QED
      BY <2>0, <2>3, <3>1 DEF limiterVars
  <2> QED
    BY <2>1, <2>2, <2>3 DEF LimiterNext
<1>3. LimiterTypeOK /\ Conserved => PushBound
  <2> SUFFICES ASSUME LimiterTypeOK, Conserved, NEW k \in Keys
               PROVE  spent[k] <= Burst + Rate * time
    BY DEF PushBound
  <2>1. Level[k] \in Nat /\ spent[k] \in Nat /\ Rate * time \in Nat
    BY FilledType, LimiterAssumption DEF Level, LimiterTypeOK
  <2> QED
    BY <2>1, LimiterAssumption DEF Conserved
<1> QED
  BY <1>1, <1>2, <1>3, LimiterTypeCorrect, PTL DEF LimiterSpec
=============================================================================
