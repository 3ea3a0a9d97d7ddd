--------------------------- MODULE NotifierProofs ---------------------------
(***************************************************************************)
(* Proofs about InProcessNotifier, for every finite set of subscriptions   *)
(* and any number of concurrent calls of Notify.                           *)
(***************************************************************************)
EXTENDS InProcessNotifier, FiniteSetTheorems, TLAPS

-----------------------------------------------------------------------------
(* Arrays.                                                                 *)

\* Writing one slot of one array leaves every other slot as it is.
LEMMA SlotWrite ==
    ASSUME NEW C, NEW m \in Seq(Seq(C)), NEW a \in 1 .. Len(m), NEW k \in 1 .. Len(m[a]),
           NEW v \in C, NEW w, w = [m EXCEPT ![a][k] = v]
    PROVE  /\ w \in Seq(Seq(C)) /\ Len(w) = Len(m)
           /\ \A b \in 1 .. Len(m) : Len(w[b]) = Len(m[b])
           /\ w[a][k] = v
           /\ \A b \in 1 .. Len(m) : \A i \in 1 .. Len(m[b]) :
                 b # a \/ i # k => w[b][i] = m[b][i]
<1> DEFINE row == [m[a] EXCEPT ![k] = v]
<1>1. m[a] \in Seq(C) /\ Len(m) \in Nat
  OBVIOUS
<1>2. /\ row \in Seq(C) /\ Len(row) = Len(m[a]) /\ row[k] = v
      /\ \A i \in 1 .. Len(m[a]) : i # k => row[i] = m[a][i]
  BY <1>1
<1>3. w = [m EXCEPT ![a] = row]
  OBVIOUS
<1> HIDE DEF row
<1>4. /\ w \in Seq(Seq(C)) /\ Len(w) = Len(m) /\ w[a] = row
      /\ \A b \in 1 .. Len(m) : b # a => w[b] = m[b]
  BY <1>2, <1>3
<1> QED
  BY <1>2, <1>4

\* A new array leaves the ones before it as they are.
LEMMA ArrayAdded ==
    ASSUME NEW C, NEW m \in Seq(Seq(C)), NEW row \in Seq(C), NEW w, w = Append(m, row)
    PROVE  /\ w \in Seq(Seq(C)) /\ Len(w) = Len(m) + 1 /\ Len(m) \in Nat
           /\ w[Len(m) + 1] = row /\ \A b \in 1 .. Len(m) : w[b] = m[b]
OBVIOUS

\* The size append gives a full array of n elements has room for one more.
LEMMA GrownCapacity ==
    ASSUME NEW n \in Nat
    PROVE  Max({1, 2 * n}) \in Nat /\ Max({1, 2 * n}) >= n + 1
<1> DEFINE S == {1, 2 * n}
<1>1. \E x \in S : \A y \in S : x >= y
  <2>1. CASE n = 0
    BY <2>1
  <2>2. CASE n >= 1
    BY <2>2
  <2> QED
    BY <2>1, <2>2
<1>2. Max(S) \in S /\ \A y \in S : Max(S) >= y
  <2> HIDE DEF S
  <2> QED
    BY <1>1 DEF Max
<1> QED
  BY <1>2

-----------------------------------------------------------------------------
(* What a step may do to the arrays.                                       *)

Cell == Chans \cup {Nil}

\* Arrays stay where they are, keep their size, and a slot that holds a channel
\* goes on holding one.
MemKept ==
    /\ mem' \in Seq(Seq(Cell)) /\ Len(mem') >= Len(mem)
    /\ \A a \in 1 .. Len(mem) :
        /\ Len(mem'[a]) = Len(mem[a])
        /\ \A i \in 1 .. Len(mem[a]) : mem[a][i] \in Chans => mem'[a][i] \in Chans

\* Subscribe's append, in place or not: the same list with one more at its end, and
\* no slot written but the one behind the header.
LEMMA Appended ==
    ASSUME NotifierInv, NEW c \in Chans, Subscribe(c)
    PROVE  /\ MemKept
           /\ subs' \in [arr : Nat, len : Nat] /\ subs'.len = subs.len + 1
           /\ subs'.arr \in 1 .. Len(mem') /\ subs'.len <= Len(mem'[subs'.arr])
           /\ \A i \in 1 .. subs.len : mem'[subs'.arr][i] = mem[subs.arr][i]
           /\ mem'[subs'.arr][subs.len + 1] = c
           /\ \A a \in 1 .. Len(mem) : \A i \in 1 .. Len(mem[a]) :
                 a # subs.arr \/ i # subs.len + 1 => mem'[a][i] = mem[a][i]
           /\ subs'.arr = subs.arr \/ subs'.arr = Len(mem) + 1
<1>1. /\ mem \in Seq(Seq(Cell)) /\ Len(mem) \in Nat /\ c \in Cell
      /\ subs \in [arr : Nat, len : Nat] /\ subs.arr \in 0 .. Len(mem)
      /\ subs.len \in Nat /\ subs.len <= Capacity
      /\ Capacity = IF subs.arr = 0 THEN 0 ELSE Len(mem[subs.arr])
      /\ \A i \in 1 .. subs.len : mem[subs.arr][i] \in Chans
  BY DEF NotifierInv, TypeOK, HeadersCover, Covers, Capacity, Cell
<1>2. \A a \in 1 .. Len(mem) : mem[a] \in Seq(Cell) /\ Len(mem[a]) \in Nat
  BY <1>1
<1>3. CASE AppendInPlace(c)
  <2> DEFINE a == subs.arr
             k == subs.len + 1
  <2>1. a \in 1 .. Len(mem) /\ k \in 1 .. Len(mem[a])
    BY <1>1, <1>2, <1>3 DEF AppendInPlace
  <2>2. mem' = [mem EXCEPT ![a][k] = c]
    BY <1>3 DEF AppendInPlace
  <2>8. subs' = [subs EXCEPT !.len = @ + 1]
    BY <1>3 DEF AppendInPlace
  <2>3. subs' \in [arr : Nat, len : Nat] /\ subs'.len = k /\ subs'.arr = a
    BY <1>1, <2>8
  <2>0. mem \in Seq(Seq(Cell)) /\ c \in Cell
    BY <1>1
  <2> HIDE DEF a, k
  <2>4. /\ mem' \in Seq(Seq(Cell)) /\ Len(mem') = Len(mem)
        /\ \A b \in 1 .. Len(mem) : Len(mem'[b]) = Len(mem[b])
        /\ mem'[a][k] = c
        /\ \A b \in 1 .. Len(mem) : \A i \in 1 .. Len(mem[b]) :
              b # a \/ i # k => mem'[b][i] = mem[b][i]
    BY <2>0, <2>1, <2>2, SlotWrite
  <2>5. MemKept
    <3>1. \A b \in 1 .. Len(mem) : \A i \in 1 .. Len(mem[b]) :
             mem'[b][i] = mem[b][i] \/ mem'[b][i] = c
      BY <2>4
    <3>2. \A b \in 1 .. Len(mem) : \A i \in 1 .. Len(mem[b]) :
             mem[b][i] \in Chans => mem'[b][i] \in Chans
      BY <3>1
    <3>3. Len(mem') >= Len(mem) /\ mem' \in Seq(Seq(Cell))
      BY <1>1, <2>4
    <3>4. \A b \in 1 .. Len(mem) : Len(mem'[b]) = Len(mem[b])
      BY <2>4
    <3> QED
      BY <3>2, <3>3, <3>4 DEF MemKept
  <2>6. \A i \in 1 .. subs.len : i \in 1 .. Len(mem[a]) /\ i # k
    BY <1>1, <1>2, <2>1 DEF k
  <2>7. k <= Len(mem'[a])
    BY <2>1, <2>4
  <2> QED
    BY <1>1, <2>1, <2>3, <2>4, <2>5, <2>6, <2>7 DEF a, k
<1>4. CASE AppendGrow(c)
  <2> DEFINE cap == Max({1, 2 * Capacity})
             copy == [i \in 1 .. cap |-> IF i <= subs.len THEN mem[subs.arr][i]
                                         ELSE IF i = subs.len + 1 THEN c ELSE Nil]
  <2>1. /\ subs.len = Capacity /\ mem' = Append(mem, copy)
        /\ subs' = [arr |-> Len(mem) + 1, len |-> subs.len + 1]
    BY <1>4 DEF AppendGrow
  <2>2. cap \in Nat /\ cap >= subs.len + 1
    BY <1>1, <2>1, GrownCapacity
  <2> HIDE DEF cap
  <2>3. \A i \in 1 .. cap : copy[i] \in Cell
    BY <1>1, <2>2 DEF Cell
  <2>4. copy \in [1 .. cap -> Cell]
    BY <2>3
  <2>5. copy \in Seq(Cell) /\ Len(copy) = cap
    BY <2>2, <2>4
  <2>6. copy[subs.len + 1] = c /\ \A i \in 1 .. subs.len : copy[i] = mem[subs.arr][i]
    BY <1>1, <2>2
  <2> HIDE DEF copy
  <2>7. /\ mem' \in Seq(Seq(Cell)) /\ Len(mem') = Len(mem) + 1
        /\ mem'[Len(mem) + 1] = copy /\ \A b \in 1 .. Len(mem) : mem'[b] = mem[b]
    BY <1>1, <2>1, <2>5, ArrayAdded
  <2>8. MemKept
    BY <1>1, <2>7 DEF MemKept
  <2>9. subs' \in [arr : Nat, len : Nat] /\ subs'.len = subs.len + 1 /\ subs'.arr = Len(mem) + 1
    BY <1>1, <2>1
  <2> QED
    BY <1>1, <2>2, <2>5, <2>6, <2>7, <2>8, <2>9
<1> QED
  BY <1>3, <1>4 DEF Subscribe

\* One step of the copy down: one slot takes the value of the next.
LEMMA Shifted ==
    ASSUME NotifierInv, NEW c \in Chans, UnsubShift(c)
    PROVE  /\ MemKept /\ subs.arr \in 1 .. Len(mem)
           /\ shift \in Nat /\ shift >= 1 /\ shift + 1 <= subs.len
           /\ subs.len <= Len(mem[subs.arr])
           /\ mem'[subs.arr][shift] = mem[subs.arr][shift + 1]
           /\ \A i \in 1 .. Len(mem[subs.arr]) : i # shift => mem'[subs.arr][i] = mem[subs.arr][i]
<1> DEFINE a == subs.arr
           v == mem[a][shift + 1]
<1>1. /\ mem \in Seq(Seq(Cell)) /\ Len(mem) \in Nat /\ subs.len \in Nat /\ a \in 0 .. Len(mem)
      /\ subs.len <= IF a = 0 THEN 0 ELSE Len(mem[a])
      /\ \A i \in 1 .. subs.len : mem[a][i] \in Chans
  BY DEF NotifierInv, TypeOK, HeadersCover, Covers, Cell
<1>2. shift \in Nat /\ shift >= 1 /\ shift + 1 <= subs.len
  BY <1>1, NotifierAssumption DEF UnsubShift, NotifierInv, ListExact
<1>3. a \in 1 .. Len(mem) /\ subs.len <= Len(mem[a])
  BY <1>1, <1>2
<1>4. Len(mem[a]) \in Nat
  BY <1>1, <1>3
<1>5. shift \in 1 .. Len(mem[a]) /\ v \in Chans /\ v \in Cell
  BY <1>1, <1>2, <1>3, <1>4 DEF Cell
<1>6. mem' = [mem EXCEPT ![a][shift] = v]
  BY DEF UnsubShift
<1> HIDE DEF a, v
<1>7. /\ mem' \in Seq(Seq(Cell)) /\ Len(mem') = Len(mem)
      /\ \A b \in 1 .. Len(mem) : Len(mem'[b]) = Len(mem[b])
      /\ mem'[a][shift] = v
      /\ \A b \in 1 .. Len(mem) : \A i \in 1 .. Len(mem[b]) :
            b # a \/ i # shift => mem'[b][i] = mem[b][i]
  BY <1>1, <1>3, <1>5, <1>6, SlotWrite
<1>8. MemKept
  <2>1. \A b \in 1 .. Len(mem) : \A i \in 1 .. Len(mem[b]) :
           mem'[b][i] = mem[b][i] \/ mem'[b][i] = v
    BY <1>7
  <2>2. \A b \in 1 .. Len(mem) : \A i \in 1 .. Len(mem[b]) :
           mem[b][i] \in Chans => mem'[b][i] \in Chans
    BY <1>5, <2>1
  <2>3. Len(mem') >= Len(mem) /\ mem' \in Seq(Seq(Cell))
    BY <1>1, <1>7
  <2>4. \A b \in 1 .. Len(mem) : Len(mem'[b]) = Len(mem[b])
    BY <1>7
  <2> QED
    BY <2>2, <2>3, <2>4 DEF MemKept
<1> QED
  BY <1>2, <1>3, <1>5, <1>7, <1>8 DEF a, v

\* Every step keeps the arrays.
LEMMA MemStep == NotifierInv /\ [Next]_vars => MemKept
<1> SUFFICES ASSUME NotifierInv, [Next]_vars PROVE MemKept
  OBVIOUS
<1>1. CASE mem' = mem
  <2>1. mem \in Seq(Seq(Cell)) /\ Len(mem) \in Nat
    BY DEF NotifierInv, TypeOK, Cell
  <2> QED
    BY <1>1, <2>1 DEF MemKept
<1>2. ASSUME NEW c \in Chans, Cancel(c) \/ UnsubLock(c) \/ UnsubUnlock(c) \/ CloseChan(c) \/
             Drain(c)
      PROVE  mem' = mem
  BY <1>2 DEF Cancel, UnsubLock, UnsubUnlock, CloseChan, Drain, slices
<1>3. ASSUME NEW n \in Notifiers, NotifyCopy(n) \/ NotifyRead(n) \/ NotifySend(n) \/
             NotifyEnd(n) \/ NotifyAgain(n)
      PROVE  mem' = mem
  BY <1>3 DEF NotifyCopy, NotifyRead, NotifySend, NotifyEnd, NotifyAgain, slices
<1>4. UNCHANGED vars => mem' = mem
  BY DEF vars
<1> QED
  BY <1>1, <1>2, <1>3, <1>4, Appended, Shifted DEF Next, Unsubscribe

-----------------------------------------------------------------------------
(* Headers, and the types.                                                 *)

\* A header that covers channels goes on covering them, whatever a step does to the
\* arrays.
LEMMA CoversKept ==
    ASSUME MemKept, mem \in Seq(Seq(Cell)), NEW h, Covers(h), h.arr \in Nat, h.len \in Nat,
           NEW g, g.arr = h.arr, g.len = h.len
    PROVE  /\ g.arr \in 0 .. Len(mem')
           /\ g.len \in 0 .. (IF g.arr = 0 THEN 0 ELSE Len(mem'[g.arr]))
           /\ \A i \in 1 .. g.len : mem'[g.arr][i] \in Chans
<1>1. Len(mem) \in Nat /\ Len(mem') \in Nat /\ Len(mem') >= Len(mem)
  BY DEF MemKept
<1>2. CASE h.arr = 0
  BY <1>1, <1>2 DEF Covers
<1>3. CASE h.arr \in 1 .. Len(mem)
  <2>1. Len(mem'[h.arr]) = Len(mem[h.arr]) /\ Len(mem[h.arr]) \in Nat
    BY <1>3 DEF MemKept
  <2>2. h.len \in 0 .. Len(mem[h.arr]) /\ \A i \in 1 .. h.len : mem[h.arr][i] \in Chans
    BY <1>3 DEF Covers
  <2>3. \A i \in 1 .. h.len : i \in 1 .. Len(mem[h.arr])
    BY <2>1, <2>2
  <2>4. \A i \in 1 .. h.len : mem'[h.arr][i] \in Chans
    BY <1>3, <2>2, <2>3 DEF MemKept
  <2> QED
    BY <1>1, <1>3, <2>1, <2>2, <2>4
<1> QED
  BY <1>1, <1>2, <1>3 DEF Covers

Note == [pc : {"idle", "read", "send", "done"}, arr : Nat, len : Nat, i : Nat,
         ch : Chans \cup {Nil}]

\* What the type invariant and the headers' one say together.
LEMMA Facts ==
    ASSUME NotifierInv
    PROVE  /\ mem \in Seq(Seq(Cell)) /\ Len(mem) \in Nat
           /\ subs \in [arr : Nat, len : Nat] /\ Covers(subs)
           /\ note \in [Notifiers -> Note]
           /\ \A n \in Notifiers : /\ Covers(note[n]) /\ note[n] \in Note
                                   /\ note[n].arr \in Nat /\ note[n].len \in Nat /\ note[n].i \in Nat
                                   /\ note[n].pc # "idle" => note[n].i >= 1
BY DEF NotifierInv, TypeOK, HeadersCover, Note, Cell

\* The read of the loop finds a channel.
LEMMA ReadsChan ==
    ASSUME NotifierInv, NEW n \in Notifiers, NotifyRead(n)
    PROVE  /\ note[n].i \in 1 .. note[n].len
           /\ mem[note[n].arr][note[n].i] \in Chans
<1>1. note[n].i \in 1 .. note[n].len
  BY Facts DEF NotifyRead
<1> QED
  BY <1>1, Facts DEF Covers

\* The map's header after a step covers channels.
LEMMA SubsStep ==
    NotifierInv /\ [Next]_vars => subs' \in [arr : Nat, len : Nat] /\ Covers(subs)'
<1> SUFFICES ASSUME NotifierInv, [Next]_vars
             PROVE  subs' \in [arr : Nat, len : Nat] /\ Covers(subs)'
  OBVIOUS
<1>1. MemKept
  BY MemStep
<1>2. CASE subs' = subs
  <2>1. /\ subs'.arr \in 0 .. Len(mem')
        /\ subs'.len \in 0 .. (IF subs'.arr = 0 THEN 0 ELSE Len(mem'[subs'.arr]))
        /\ \A i \in 1 .. subs'.len : mem'[subs'.arr][i] \in Chans
    BY <1>1, <1>2, Facts, CoversKept
  <2> QED
    BY <1>2, <2>1, Facts DEF Covers
<1>3. ASSUME NEW c \in Chans, Subscribe(c)
      PROVE  subs' \in [arr : Nat, len : Nat] /\ Covers(subs)'
  <2>1. \A i \in 1 .. subs.len : mem[subs.arr][i] \in Chans
    BY Facts DEF Covers
  <2>2. /\ subs' \in [arr : Nat, len : Nat] /\ subs'.len = subs.len + 1
        /\ subs'.arr \in 1 .. Len(mem') /\ subs'.len <= Len(mem'[subs'.arr])
        /\ \A i \in 1 .. subs.len : mem'[subs'.arr][i] = mem[subs.arr][i]
        /\ mem'[subs'.arr][subs.len + 1] = c
    BY <1>3, Appended
  <2>3. Len(mem') \in Nat /\ Len(mem'[subs'.arr]) \in Nat
    BY <1>1, <2>2 DEF MemKept
  <2>4. \A i \in 1 .. subs'.len : i \in 1 .. subs.len \/ i = subs.len + 1
    BY <2>2, Facts
  <2>5. \A i \in 1 .. subs'.len : mem'[subs'.arr][i] \in Chans
    BY <2>1, <2>2, <2>4
  <2>6. subs'.arr \in 0 .. Len(mem') /\ subs'.arr # 0 /\ subs'.len \in 0 .. Len(mem'[subs'.arr])
    BY <2>2, <2>3
  <2> QED
    BY <2>2, <2>5, <2>6 DEF Covers
<1>4. ASSUME NEW c \in Chans, UnsubUnlock(c)
      PROVE  subs' \in [arr : Nat, len : Nat] /\ Covers(subs)'
  <2>1. mem' = mem /\ subs' = IF subs.len = 1 THEN NoSlice ELSE [subs EXCEPT !.len = @ - 1]
    BY <1>4 DEF UnsubUnlock
  <2>2. subs.len \in Nat /\ subs.len >= 1
    BY <1>4, Facts, NotifierAssumption DEF UnsubUnlock, NotifierInv, ListExact
  <2>3. CASE subs.len = 1
    BY <2>1, <2>3, Facts DEF NoSlice, Covers
  <2>4. CASE subs.len # 1
    <3>1. subs' \in [arr : Nat, len : Nat] /\ subs'.arr = subs.arr /\ subs'.len = subs.len - 1
      BY <2>1, <2>2, <2>4, Facts
    <3>2. subs.arr \in 1 .. Len(mem) /\ subs.len <= Len(mem[subs.arr])
      BY <2>2, Facts DEF Covers
    <3>3. Len(mem[subs.arr]) \in Nat
      BY <3>2, Facts
    <3>4. subs'.len \in 0 .. Len(mem[subs.arr]) /\ \A i \in 1 .. subs'.len : i \in 1 .. subs.len
      BY <2>2, <3>1, <3>2, <3>3
    <3> QED
      BY <2>1, <3>1, <3>2, <3>4, Facts DEF Covers
  <2> QED
    BY <2>3, <2>4
<1>5. ASSUME NEW c \in Chans, Cancel(c) \/ UnsubLock(c) \/ UnsubShift(c) \/ CloseChan(c) \/ Drain(c)
      PROVE  subs' = subs
  BY <1>5 DEF Cancel, UnsubLock, UnsubShift, CloseChan, Drain, slices
<1>6. ASSUME NEW n \in Notifiers, NotifyCopy(n) \/ NotifyRead(n) \/ NotifySend(n) \/
             NotifyEnd(n) \/ NotifyAgain(n)
      PROVE  subs' = subs
  BY <1>6 DEF NotifyCopy, NotifyRead, NotifySend, NotifyEnd, NotifyAgain, slices
<1>7. UNCHANGED vars => subs' = subs
  BY DEF vars
<1> QED
  BY <1>2, <1>3, <1>4, <1>5, <1>6, <1>7 DEF Next, Unsubscribe

\* A step leaves a call's header as it was, sets it to the map's, or clears it.
LEMMA NoteStep ==
    NotifierInv /\ [Next]_vars =>
        /\ note' \in [Notifiers -> Note]
        /\ \A n \in Notifiers :
            /\ note'[n].pc # "idle" => note'[n].i >= 1
            /\ note'[n].pc = "send" => note'[n].ch \in Chans
            /\ \/ note'[n].arr = note[n].arr /\ note'[n].len = note[n].len
               \/ note'[n].arr = subs.arr /\ note'[n].len = subs.len
               \/ note'[n].arr = 0 /\ note'[n].len = 0
<1> SUFFICES ASSUME NotifierInv, [Next]_vars
             PROVE  /\ note' \in [Notifiers -> Note]
                    /\ \A n \in Notifiers :
                        /\ note'[n].pc # "idle" => note'[n].i >= 1
                        /\ note'[n].pc = "send" => note'[n].ch \in Chans
                        /\ \/ note'[n].arr = note[n].arr /\ note'[n].len = note[n].len
                           \/ note'[n].arr = subs.arr /\ note'[n].len = subs.len
                           \/ note'[n].arr = 0 /\ note'[n].len = 0
  OBVIOUS
<1>0. \A n \in Notifiers : note[n].pc = "send" => note[n].ch \in Chans
  BY DEF NotifierInv, TypeOK
<1>1. CASE note' = note
  BY <1>0, <1>1, Facts
<1>2. ASSUME NEW k \in Notifiers, NEW r \in Note, note' = [note EXCEPT ![k] = r],
             r.pc # "idle" => r.i >= 1, r.pc = "send" => r.ch \in Chans,
             \/ r.arr = note[k].arr /\ r.len = note[k].len
             \/ r.arr = subs.arr /\ r.len = subs.len
             \/ r.arr = 0 /\ r.len = 0
      PROVE  /\ note' \in [Notifiers -> Note]
             /\ \A n \in Notifiers :
                 /\ note'[n].pc # "idle" => note'[n].i >= 1
                 /\ note'[n].pc = "send" => note'[n].ch \in Chans
                 /\ \/ note'[n].arr = note[n].arr /\ note'[n].len = note[n].len
                    \/ note'[n].arr = subs.arr /\ note'[n].len = subs.len
                    \/ note'[n].arr = 0 /\ note'[n].len = 0
  <2>1. \A n \in Notifiers : note'[n] = IF n = k THEN r ELSE note[n]
    BY <1>2, Facts
  <2>2. note' \in [Notifiers -> Note]
    BY <1>2, Facts
  <2> QED
    BY <1>0, <1>2, <2>1, <2>2, Facts
<1>3. ASSUME NEW n \in Notifiers, NotifyCopy(n)
      PROVE  \E r \in Note : /\ note' = [note EXCEPT ![n] = r] /\ r.pc = "read" /\ r.i >= 1
                             /\ r.arr = subs.arr /\ r.len = subs.len
  <2> DEFINE r == [pc |-> "read", arr |-> subs.arr, len |-> subs.len, i |-> 1, ch |-> Nil]
  <2>1. r \in Note
    BY Facts DEF Note
  <2>2. note' = [note EXCEPT ![n] = r]
    BY <1>3 DEF NotifyCopy
  <2>3. r.pc = "read" /\ r.i >= 1 /\ r.arr = subs.arr /\ r.len = subs.len
    OBVIOUS
  <2> HIDE DEF r
  <2> QED
    BY <2>1, <2>2, <2>3
<1>4. ASSUME NEW n \in Notifiers, NotifyRead(n)
      PROVE  \E r \in Note : /\ note' = [note EXCEPT ![n] = r] /\ r.ch \in Chans /\ r.i >= 1
                             /\ r.arr = note[n].arr /\ r.len = note[n].len
  <2> DEFINE v == mem[note[n].arr][note[n].i]
             r == [note[n] EXCEPT !.pc = "send", !.ch = v]
  <2>1. v \in Chans
    BY <1>4, ReadsChan
  <2>2. note' = [note EXCEPT ![n] = r]
    BY <1>4, Facts DEF NotifyRead
  <2> HIDE DEF v
  <2>3. r \in Note /\ r.ch = v /\ r.i = note[n].i /\ r.arr = note[n].arr /\ r.len = note[n].len
    BY <2>1, Facts DEF Note
  <2> QED
    BY <1>4, <2>1, <2>2, <2>3, Facts DEF NotifyRead
<1>5. ASSUME NEW n \in Notifiers, NotifySend(n)
      PROVE  \E r \in Note : /\ note' = [note EXCEPT ![n] = r] /\ r.pc = "read" /\ r.i >= 1
                             /\ r.arr = note[n].arr /\ r.len = note[n].len
  <2> DEFINE r == [note[n] EXCEPT !.pc = "read", !.i = @ + 1]
  <2>1. note' = [note EXCEPT ![n] = r]
    <3>1. note' = [note EXCEPT ![n].pc = "read", ![n].i = @ + 1]
      BY <1>5 DEF NotifySend
    <3> QED
      BY <3>1, Facts
  <2>2. r \in Note /\ r.pc = "read" /\ r.i >= 1 /\ r.arr = note[n].arr /\ r.len = note[n].len
    <3>1. PICK q \in Note : q = note[n]
      BY Facts
    <3>2. q.i \in Nat /\ q.i + 1 \in Nat /\ q.i + 1 >= 1
      BY DEF Note
    <3>3. r = [q EXCEPT !.pc = "read", !.i = q.i + 1]
      BY <3>1
    <3> QED
      BY <3>1, <3>2, <3>3 DEF Note
  <2> QED
    BY <2>1, <2>2
<1>6. ASSUME NEW n \in Notifiers, NotifyEnd(n)
      PROVE  \E r \in Note : /\ note' = [note EXCEPT ![n] = r] /\ r.pc = "done" /\ r.i >= 1
                             /\ r.arr = note[n].arr /\ r.len = note[n].len
  <2> DEFINE r == [note[n] EXCEPT !.pc = "done"]
  <2>1. note' = [note EXCEPT ![n] = r]
    BY <1>6, Facts DEF NotifyEnd
  <2>2. /\ r \in Note /\ r.pc = "done" /\ r.i = note[n].i
        /\ r.arr = note[n].arr /\ r.len = note[n].len
    BY Facts DEF Note
  <2> QED
    BY <1>6, <2>1, <2>2, Facts DEF NotifyEnd
<1>7. ASSUME NEW n \in Notifiers, NotifyAgain(n)
      PROVE  \E r \in Note : /\ note' = [note EXCEPT ![n] = r] /\ r.pc = "idle"
                             /\ r.arr = 0 /\ r.len = 0
  <2>1. Idle \in Note /\ Idle.pc = "idle" /\ Idle.arr = 0 /\ Idle.len = 0
    BY DEF Idle, Note
  <2> QED
    BY <1>7, <2>1 DEF NotifyAgain
<1>8. ASSUME NEW c \in Chans, Subscribe(c) \/ Cancel(c) \/ Unsubscribe(c) \/ Drain(c)
      PROVE  note' = note
  BY <1>8 DEF Subscribe, Cancel, Unsubscribe, UnsubLock, UnsubShift, UnsubUnlock, CloseChan,
              Drain, calls
<1>9. UNCHANGED vars => note' = note
  BY DEF vars
<1>10. CASE \E c \in Chans : Subscribe(c) \/ Cancel(c) \/ Unsubscribe(c) \/ Drain(c)
  BY <1>1, <1>8, <1>10
<1>11. ASSUME NEW n \in Notifiers, NotifyCopy(n) \/ NotifySend(n) \/ NotifyEnd(n) \/ NotifyRead(n)
       PROVE  \E r \in Note : /\ note' = [note EXCEPT ![n] = r] /\ r.i >= 1
                              /\ r.pc = "send" => r.ch \in Chans
                              /\ \/ r.arr = note[n].arr /\ r.len = note[n].len
                                 \/ r.arr = subs.arr /\ r.len = subs.len
  BY <1>3, <1>4, <1>5, <1>6, <1>11
<1>12. CASE \E n \in Notifiers : NotifyCopy(n) \/ NotifySend(n) \/ NotifyEnd(n) \/ NotifyRead(n)
  BY <1>2, <1>11, <1>12
<1>13. CASE \E n \in Notifiers : NotifyAgain(n)
  BY <1>2, <1>7, <1>13
<1> QED
  BY <1>1, <1>9, <1>10, <1>12, <1>13 DEF Next

\* Every header, the map's and the calls', goes on covering channels.
LEMMA HeadersStep == NotifierInv /\ [Next]_vars => HeadersCover'
<1> SUFFICES ASSUME NotifierInv, [Next]_vars PROVE HeadersCover'
  OBVIOUS
<1>1. MemKept
  BY MemStep
<1>2. ASSUME NEW n \in Notifiers PROVE Covers(note[n])'
  <2>1. CASE note'[n].arr = note[n].arr /\ note'[n].len = note[n].len
    BY <1>1, <2>1, Facts, CoversKept DEF Covers
  <2>2. CASE note'[n].arr = subs.arr /\ note'[n].len = subs.len
    BY <1>1, <2>2, Facts, CoversKept DEF Covers
  <2>3. CASE note'[n].arr = 0 /\ note'[n].len = 0
    <3>1. Len(mem') \in Nat
      BY <1>1 DEF MemKept
    <3> QED
      BY <2>3, <3>1 DEF Covers
  <2> QED
    BY <2>1, <2>2, <2>3, NoteStep
<1> QED
  BY <1>2, SubsStep, NoteStep DEF HeadersCover, Note

\* The variables keep their types.
LEMMA TypeStep == NotifierInv /\ [Next]_vars => TypeOK'
<1> SUFFICES ASSUME NotifierInv, [Next]_vars PROVE TypeOK'
  OBVIOUS
<1>1. mem' \in Seq(Seq(Chans \cup {Nil}))
  BY MemStep DEF MemKept, Cell
<1>2. /\ subs'.arr \in 0 .. Len(mem')
      /\ subs'.len \in 0 .. (IF subs'.arr = 0 THEN 0 ELSE Len(mem'[subs'.arr]))
  BY SubsStep DEF Covers
<1>3. \A n \in Notifiers : /\ note'[n].pc \in {"idle", "read", "send", "done"}
                           /\ note'[n].pc = "send" => note'[n].ch \in Chans
  BY NoteStep DEF Note
<1> DEFINE Ty == /\ mu \in Chans \cup {Nil} /\ shift \in Nat
                 /\ state \in [Chans -> Stage] /\ signal \in [Chans -> BOOLEAN]
                 /\ panicked \in BOOLEAN
                 /\ listed \in [Notifiers -> SUBSET Chans]
                 /\ tried \in [Notifiers -> SUBSET Chans]
                 /\ disturbed \in [Notifiers -> BOOLEAN]
<1>4. Ty
  BY DEF NotifierInv, TypeOK
<1>5. \A n \in Notifiers : note[n].pc = "send" => note[n].ch \in Chans
  BY DEF NotifierInv, TypeOK
<1>6. Ty'
  <2>1. ASSUME NEW c \in Chans, Subscribe(c) PROVE Ty'
    BY <1>4, <2>1 DEF Subscribe, calls, Stage
  <2>2. ASSUME NEW c \in Chans, Cancel(c) PROVE Ty'
    BY <1>4, <2>2 DEF Cancel, slices, calls, Stage
  <2>3. ASSUME NEW c \in Chans, UnsubLock(c) PROVE Ty'
    <3>1. IndexOf(c) \in Nat
      <4>1. c \in Registered /\ mu = Nil
        BY <2>3 DEF UnsubLock, Registered
      <4>2. \E j \in 1 .. subs.len : mem[subs.arr][j] = c
        BY <4>1 DEF NotifierInv, ListExact, ListLen, Listed
      <4>3. IndexOf(c) \in 1 .. subs.len
        BY <4>2 DEF IndexOf
      <4> QED
        BY <4>3, Facts
    <3> QED
      BY <1>4, <2>3, <3>1 DEF UnsubLock, calls, Stage
  <2>4. ASSUME NEW c \in Chans, UnsubShift(c) PROVE Ty'
    BY <1>4, <2>4 DEF UnsubShift, calls
  <2>5. ASSUME NEW c \in Chans, UnsubUnlock(c) PROVE Ty'
    BY <1>4, <2>5 DEF UnsubUnlock, calls, Stage
  <2>6. ASSUME NEW c \in Chans, CloseChan(c) PROVE Ty'
    BY <1>4, <2>6 DEF CloseChan, slices, calls, Stage
  <2>7. ASSUME NEW c \in Chans, Drain(c) PROVE Ty'
    BY <1>4, <2>7 DEF Drain, slices, calls
  <2>8. ASSUME NEW n \in Notifiers, NotifyCopy(n) PROVE Ty'
    <3>1. Registered \in SUBSET Chans
      BY DEF Registered
    <3> QED
      BY <1>4, <2>8, <3>1 DEF NotifyCopy, slices
  <2>9. ASSUME NEW n \in Notifiers, NotifySend(n) PROVE Ty'
    <3>1. note[n].ch \in Chans
      BY <1>5, <2>9 DEF NotifySend
    <3>2. CASE state[note[n].ch] = "closed"
      BY <1>4, <2>9, <3>2 DEF NotifySend, slices
    <3>3. CASE state[note[n].ch] # "closed"
      <4>1. /\ signal' = [signal EXCEPT ![note[n].ch] = TRUE]
            /\ tried' = [tried EXCEPT ![n] = @ \cup {note[n].ch}]
            /\ UNCHANGED <<slices, state, listed, disturbed, panicked>>
        BY <2>9, <3>3 DEF NotifySend
      <4>2. signal' \in [Chans -> BOOLEAN]
        BY <1>4, <3>1, <4>1
      <4>3. tried' \in [Notifiers -> SUBSET Chans]
        BY <1>4, <3>1, <4>1
      <4> QED
        BY <1>4, <4>1, <4>2, <4>3 DEF slices
    <3> QED
      BY <3>2, <3>3
  <2>10. ASSUME NEW n \in Notifiers, NotifyRead(n) \/ NotifyEnd(n) PROVE Ty'
    BY <1>4, <2>10 DEF NotifyRead, NotifyEnd, slices
  <2>11. ASSUME NEW n \in Notifiers, NotifyAgain(n) PROVE Ty'
    BY <1>4, <2>11 DEF NotifyAgain, slices
  <2>12. CASE UNCHANGED vars
    BY <1>4, <2>12 DEF vars
  <2> HIDE DEF Ty
  <2> QED
    BY <2>1, <2>2, <2>3, <2>4, <2>5, <2>6, <2>7, <2>8, <2>9, <2>10, <2>11, <2>12
       DEF Next, Unsubscribe
<1> QED
  BY <1>1, <1>2, <1>3, <1>6 DEF TypeOK

-----------------------------------------------------------------------------
(* The list of subscribers.                                                *)

\* With the mutex free the slice is the list.
LEMMA FreeList ==
    ASSUME NotifierInv, mu = Nil
    PROVE  /\ \A j \in 1 .. subs.len : mem[subs.arr][j] \in Registered
           /\ \A c \in Registered : \E j \in 1 .. subs.len : mem[subs.arr][j] = c
           /\ \A i, j \in 1 .. subs.len : mem[subs.arr][i] = mem[subs.arr][j] => i = j
           /\ \A c \in Chans : state[c] # "removing"
BY NotifierAssumption DEF NotifierInv, ListExact, ListLen, Listed

\* While a removal runs, the slice without the slot written next is the list.
LEMMA HeldList ==
    ASSUME NotifierInv, mu # Nil
    PROVE  /\ \A j \in 1 .. (subs.len - 1) :
                mem[subs.arr][IF j >= shift THEN j + 1 ELSE j] \in Registered
           /\ \A c \in Registered : \E j \in 1 .. (subs.len - 1) :
                mem[subs.arr][IF j >= shift THEN j + 1 ELSE j] = c
           /\ \A i, j \in 1 .. (subs.len - 1) :
                mem[subs.arr][IF i >= shift THEN i + 1 ELSE i]
                    = mem[subs.arr][IF j >= shift THEN j + 1 ELSE j] => i = j
           /\ \A c \in Chans : state[c] = "removing" <=> mu = c
           /\ shift \in 1 .. subs.len
BY DEF NotifierInv, ListExact, ListLen, Listed

\* Appends and removals keep the list exact.
LEMMA ListStep == NotifierInv /\ [Next]_vars => ListExact'
<1> SUFFICES ASSUME NotifierInv, [Next]_vars PROVE ListExact'
  OBVIOUS
<1>0. /\ subs.len \in Nat /\ state \in [Chans -> Stage] /\ mu \in Chans \cup {Nil}
  BY DEF NotifierInv, TypeOK, HeadersCover
<1>1. ASSUME NEW c \in Chans, Subscribe(c) PROVE ListExact'
  <2>1. mu = Nil /\ mu' = Nil /\ state[c] = "new" /\ state' = [state EXCEPT ![c] = "live"]
    BY <1>1 DEF Subscribe
  <2>2. Registered' = Registered \cup {c} /\ c \notin Registered
    BY <1>0, <2>1 DEF Registered
  <2>3. \A d \in Chans : state'[d] # "removing"
    BY <1>0, <2>1, FreeList
  <2>4. /\ subs'.len = subs.len + 1 /\ mem'[subs'.arr][subs.len + 1] = c
        /\ \A i \in 1 .. subs.len : mem'[subs'.arr][i] = mem[subs.arr][i]
    BY <1>1, Appended
  <2>5. \A j \in 1 .. subs'.len : j \in 1 .. subs.len \/ j = subs'.len
    BY <1>0, <2>4
  <2>6. \A j \in 1 .. subs.len : j \in 1 .. subs'.len /\ j # subs'.len
    BY <1>0, <2>4
  <2>7. subs'.len \in 1 .. subs'.len
    BY <1>0, <2>4
  <2>8. \A j \in 1 .. subs'.len : mem'[subs'.arr][j] \in Registered'
    BY <2>1, <2>2, <2>4, <2>5, FreeList
  <2>9. \A d \in Registered' : \E j \in 1 .. subs'.len : mem'[subs'.arr][j] = d
    BY <2>1, <2>2, <2>4, <2>6, <2>7, FreeList
  <2>10. \A i, j \in 1 .. subs'.len : mem'[subs'.arr][i] = mem'[subs'.arr][j] => i = j
    BY <2>1, <2>2, <2>4, <2>5, FreeList
  <2> QED
    BY <2>1, <2>3, <2>8, <2>9, <2>10, NotifierAssumption DEF ListExact, ListLen, Listed
<1>2. ASSUME NEW c \in Chans, UnsubLock(c) PROVE ListExact'
  <2>1. /\ mu = Nil /\ mu' = c /\ state[c] = "cancelled"
        /\ state' = [state EXCEPT ![c] = "removing"]
        /\ mem' = mem /\ subs' = subs /\ shift' = IndexOf(c)
    BY <1>2 DEF UnsubLock
  <2>2. Registered' = Registered \ {c} /\ c \in Registered
    BY <1>0, <2>1 DEF Registered
  <2>3. \A d \in Chans : state'[d] = "removing" <=> d = c
    BY <1>0, <2>1, FreeList
  <2>4. \E j \in 1 .. subs.len : mem[subs.arr][j] = c
    BY <2>1, <2>2, FreeList
  <2>5. shift' \in 1 .. subs.len /\ mem[subs.arr][shift'] = c
    BY <2>1, <2>4 DEF IndexOf
  <2> DEFINE at(j) == IF j >= shift' THEN j + 1 ELSE j
  <2>6. \A j \in 1 .. (subs.len - 1) : at(j) \in 1 .. subs.len /\ at(j) # shift'
    BY <1>0, <2>5
  <2>7. \A i, j \in 1 .. (subs.len - 1) : at(i) = at(j) => i = j
    BY <1>0, <2>5
  <2>8. \A j \in 1 .. subs.len : j # shift' => \E i \in 1 .. (subs.len - 1) : at(i) = j
    <3> SUFFICES ASSUME NEW j \in 1 .. subs.len, j # shift'
                 PROVE  \E i \in 1 .. (subs.len - 1) : at(i) = j
      OBVIOUS
    <3>1. CASE j < shift'
      <4>1. j \in 1 .. (subs.len - 1) /\ at(j) = j
        BY <1>0, <2>5, <3>1
      <4> QED
        BY <4>1
    <3>2. CASE j > shift'
      <4>1. j - 1 \in 1 .. (subs.len - 1) /\ at(j - 1) = j
        BY <1>0, <2>5, <3>2
      <4> QED
        BY <4>1
    <3> QED
      BY <1>0, <2>5, <3>1, <3>2
  <2>0. \A j \in 1 .. (subs.len - 1) :
           mem'[subs'.arr][IF mu' # Nil /\ j >= shift' THEN j + 1 ELSE j] = mem[subs.arr][at(j)]
    BY <2>1, NotifierAssumption
  <2>9. ListLen' = subs.len - 1
    BY <2>1, NotifierAssumption DEF ListLen
  <2> HIDE DEF at
  <2>10. \A j \in 1 .. (subs.len - 1) : mem[subs.arr][at(j)] \in Registered'
    BY <2>1, <2>2, <2>5, <2>6, FreeList
  <2>11. \A d \in Registered' : \E j \in 1 .. (subs.len - 1) : mem[subs.arr][at(j)] = d
    <3> SUFFICES ASSUME NEW d \in Registered'
                 PROVE  \E j \in 1 .. (subs.len - 1) : mem[subs.arr][at(j)] = d
      OBVIOUS
    <3>1. PICK j \in 1 .. subs.len : mem[subs.arr][j] = d
      BY <2>1, <2>2, FreeList
    <3>2. j # shift'
      BY <2>2, <2>5, <3>1
    <3> QED
      BY <2>8, <3>1, <3>2
  <2>12. \A i, j \in 1 .. (subs.len - 1) :
             mem[subs.arr][at(i)] = mem[subs.arr][at(j)] => i = j
    BY <2>1, <2>6, <2>7, FreeList
  <2> QED
    BY <2>0, <2>1, <2>3, <2>5, <2>9, <2>10, <2>11, <2>12 DEF ListExact, Listed
<1>3. ASSUME NEW c \in Chans, UnsubShift(c) PROVE ListExact'
  <2>1. mu = c /\ mu # Nil /\ mu' = mu /\ subs' = subs /\ state' = state /\ shift' = shift + 1
    BY <1>3, NotifierAssumption DEF UnsubShift
  <2>2. Registered' = Registered
    BY <2>1 DEF Registered
  <2>3. /\ shift \in Nat /\ shift >= 1 /\ shift + 1 <= subs.len
        /\ subs.len <= Len(mem[subs.arr]) /\ Len(mem[subs.arr]) \in Nat
        /\ mem'[subs.arr][shift] = mem[subs.arr][shift + 1]
        /\ \A i \in 1 .. Len(mem[subs.arr]) : i # shift => mem'[subs.arr][i] = mem[subs.arr][i]
    BY <1>3, Shifted, Facts
  <2>4. \A j \in 1 .. (subs.len - 1) :
           mem'[subs.arr][IF j >= shift' THEN j + 1 ELSE j]
               = mem[subs.arr][IF j >= shift THEN j + 1 ELSE j]
    <3> SUFFICES ASSUME NEW j \in 1 .. (subs.len - 1)
                 PROVE  mem'[subs.arr][IF j >= shift' THEN j + 1 ELSE j]
                            = mem[subs.arr][IF j >= shift THEN j + 1 ELSE j]
      OBVIOUS
    <3>1. j \in Nat /\ j \in 1 .. Len(mem[subs.arr]) /\ j + 1 \in 1 .. Len(mem[subs.arr])
      BY <1>0, <2>3
    <3>2. CASE j < shift
      <4>1. ~(j >= shift) /\ ~(j >= shift') /\ j # shift
        BY <2>1, <2>3, <3>1, <3>2
      <4> QED
        BY <2>3, <3>1, <4>1
    <3>3. CASE j = shift
      <4>1. j >= shift /\ ~(j >= shift')
        BY <2>1, <2>3, <3>1, <3>3
      <4> QED
        BY <2>3, <3>3, <4>1
    <3>4. CASE j > shift
      <4>1. j >= shift /\ j >= shift' /\ j + 1 # shift
        BY <2>1, <2>3, <3>1, <3>4
      <4> QED
        BY <2>3, <3>1, <4>1
    <3> QED
      BY <2>3, <3>1, <3>2, <3>3, <3>4
  <2>5. shift' \in 1 .. subs.len
    BY <1>0, <2>1, <2>3
  <2> QED
    BY <2>1, <2>2, <2>4, <2>5, HeldList DEF ListExact, ListLen, Listed
<1>4. ASSUME NEW c \in Chans, UnsubUnlock(c) PROVE ListExact'
  <2>1. /\ mu = c /\ mu # Nil /\ mu' = Nil /\ mem' = mem /\ shift = subs.len
        /\ state' = [state EXCEPT ![c] = "removed"]
        /\ subs' = IF subs.len = 1 THEN NoSlice ELSE [subs EXCEPT !.len = @ - 1]
    BY <1>4, NotifierAssumption DEF UnsubUnlock
  <2>2. state[c] = "removing" /\ subs.len >= 1 /\ \A d \in Chans : state'[d] # "removing"
    BY <1>0, <2>1, HeldList
  <2>3. Registered' = Registered
    BY <1>0, <2>1, <2>2 DEF Registered
  <2>4. subs'.len = subs.len - 1 /\ (subs.len = 1 \/ subs'.arr = subs.arr)
    BY <2>1, <2>2, Facts DEF NoSlice
  <2>5. \A j \in 1 .. (subs.len - 1) : ~(j >= shift) /\ subs'.arr = subs.arr
    BY <1>0, <2>1, <2>2, <2>4
  <2>6. /\ \A j \in 1 .. (subs.len - 1) : mem'[subs'.arr][j] \in Registered'
        /\ \A d \in Registered' : \E j \in 1 .. (subs.len - 1) : mem'[subs'.arr][j] = d
        /\ \A i, j \in 1 .. (subs.len - 1) :
              mem'[subs'.arr][i] = mem'[subs'.arr][j] => i = j
    BY <2>1, <2>3, <2>5, HeldList
  <2> QED
    BY <2>1, <2>2, <2>4, <2>6, NotifierAssumption DEF ListExact, ListLen, Listed
<1>5. ASSUME NEW c \in Chans, Cancel(c) \/ CloseChan(c) PROVE ListExact'
  <2>1. /\ mem' = mem /\ subs' = subs /\ mu' = mu /\ shift' = shift
        /\ \/ state[c] = "live" /\ state' = [state EXCEPT ![c] = "cancelled"]
           \/ state[c] = "removed" /\ state' = [state EXCEPT ![c] = "closed"]
    BY <1>5 DEF Cancel, CloseChan, slices
  <2>2. Registered' = Registered
    BY <1>0, <2>1 DEF Registered
  <2>3. \A d \in Chans : state'[d] = "removing" <=> state[d] = "removing"
    BY <1>0, <2>1
  <2> QED
    BY <2>1, <2>2, <2>3 DEF NotifierInv, ListExact, ListLen, Listed
<1>6. CASE UNCHANGED <<mem, subs, mu, shift, state>>
  BY <1>6 DEF NotifierInv, ListExact, ListLen, Listed, Registered
<1>7. ASSUME NEW c \in Chans, Drain(c) PROVE UNCHANGED <<mem, subs, mu, shift, state>>
  BY <1>7 DEF Drain, slices
<1>8. ASSUME NEW n \in Notifiers, NotifyCopy(n) \/ NotifyRead(n) \/ NotifySend(n) \/
             NotifyEnd(n) \/ NotifyAgain(n)
      PROVE  UNCHANGED <<mem, subs, mu, shift, state>>
  BY <1>8 DEF NotifyCopy, NotifyRead, NotifySend, NotifyEnd, NotifyAgain, slices
<1>9. UNCHANGED vars => UNCHANGED <<mem, subs, mu, shift, state>>
  BY DEF vars
<1> QED
  BY <1>1, <1>2, <1>3, <1>4, <1>5, <1>6, <1>7, <1>8, <1>9 DEF Next, Unsubscribe

-----------------------------------------------------------------------------
(* The walk of a Notify.                                                   *)

\* Its loop goes on reading the list it found until a removal overlaps it.
LEMMA WalkStep == NotifierInv /\ [Next]_vars => WalkSteady'
<1> SUFFICES ASSUME NotifierInv, [Next]_vars PROVE WalkSteady'
  OBVIOUS
<1> DEFINE Steady(k) ==
              /\ mu = Nil /\ (subs.arr = note[k].arr => note[k].len <= subs.len)
              /\ \A c \in listed[k] : \E i \in 1 .. note[k].len : mem[note[k].arr][i] = c
              /\ ~panicked => \A i \in 1 .. note[k].len :
                                 i < note[k].i => mem[note[k].arr][i] \in tried[k]
              /\ note[k].pc = "send" => /\ note[k].i \in 1 .. note[k].len
                                        /\ note[k].ch = mem[note[k].arr][note[k].i]
<1>0. \A k \in Walking : Steady(k)
  BY DEF NotifierInv, WalkSteady
<1>1. /\ disturbed \in [Notifiers -> BOOLEAN] /\ listed \in [Notifiers -> SUBSET Chans]
      /\ tried \in [Notifiers -> SUBSET Chans]
  BY DEF NotifierInv, TypeOK
<1> SUFFICES ASSUME NEW k \in Notifiers, k \in Walking' PROVE Steady(k)'
  BY DEF WalkSteady, Walking
<1>2. ASSUME NEW c \in Chans, Subscribe(c) PROVE Steady(k)'
  <2>1. /\ note' = note /\ disturbed' = disturbed /\ listed' = listed /\ tried' = tried
        /\ panicked' = panicked /\ mu' = Nil
    BY <1>2 DEF Subscribe, calls
  <2>2. Steady(k)
    BY <1>0, <2>1 DEF Walking
  <2>3. /\ subs'.len = subs.len + 1 /\ subs.len \in Nat
        /\ subs'.arr = subs.arr \/ subs'.arr = Len(mem) + 1
        /\ \A a \in 1 .. Len(mem) : \A i \in 1 .. Len(mem[a]) :
              a # subs.arr \/ i # subs.len + 1 => mem'[a][i] = mem[a][i]
    BY <1>2, Appended, Facts
  <2> DEFINE a == note[k].arr
             l == note[k].len
  <2>4. a \in 0 .. Len(mem) /\ Len(mem) \in Nat /\ l \in Nat
    BY Facts DEF Covers
  <2>5. subs'.arr = a => l <= subs'.len
    BY <2>2, <2>3, <2>4
  <2>6. ASSUME NEW i \in 1 .. l PROVE mem'[a][i] = mem[a][i]
    <3>1. a \in 1 .. Len(mem) /\ l <= Len(mem[a])
      BY <2>4, <2>6, Facts DEF Covers
    <3>2. i \in 1 .. Len(mem[a])
      BY <2>4, <3>1, Facts
    <3>3. a # subs.arr \/ i # subs.len + 1
      BY <2>2, <2>3, <2>4
    <3> QED
      BY <2>3, <3>1, <3>2, <3>3
  <2> QED
    BY <2>1, <2>2, <2>5, <2>6
<1>3. ASSUME NEW c \in Chans, UnsubLock(c) PROVE Steady(k)'
  BY <1>3 DEF UnsubLock, Walking
<1>4. ASSUME NEW c \in Chans, UnsubShift(c) \/ UnsubUnlock(c) PROVE Steady(k)'
  <2>1. mu = c /\ note' = note /\ disturbed' = disturbed
    BY <1>4 DEF UnsubShift, UnsubUnlock, calls
  <2>2. mu = Nil
    BY <1>0, <2>1 DEF Walking
  <2> QED
    BY <2>1, <2>2, NotifierAssumption
<1>5. CASE UNCHANGED <<mem, subs, mu, note, panicked, listed, tried, disturbed>>
  BY <1>0, <1>5 DEF Walking
<1>6. ASSUME NEW c \in Chans, Cancel(c) \/ CloseChan(c) \/ Drain(c)
      PROVE  UNCHANGED <<mem, subs, mu, note, panicked, listed, tried, disturbed>>
  BY <1>6 DEF Cancel, CloseChan, Drain, slices, calls
<1>7. ASSUME NEW n \in Notifiers, n # k, mem' = mem, subs' = subs, mu' = mu,
             note'[k] = note[k], listed'[k] = listed[k], tried'[k] = tried[k],
             disturbed'[k] = disturbed[k], panicked \in BOOLEAN, panicked => panicked'
      PROVE  Steady(k)'
  <2>1. Steady(k)
    BY <1>0, <1>7 DEF Walking
  <2> QED
    BY <1>7, <2>1
<1>8. panicked \in BOOLEAN
  BY DEF NotifierInv, TypeOK
<1>9. ASSUME NEW n \in Notifiers, NotifyCopy(n) PROVE Steady(k)'
  <2>1. /\ mem' = mem /\ subs' = subs /\ mu' = mu /\ mu = Nil /\ panicked' = panicked
        /\ note' = [note EXCEPT ![n] = [pc |-> "read", arr |-> subs.arr,
                                        len |-> subs.len, i |-> 1, ch |-> Nil]]
        /\ listed' = [listed EXCEPT ![n] = Registered] /\ tried' = [tried EXCEPT ![n] = {}]
        /\ disturbed' = [disturbed EXCEPT ![n] = FALSE]
    BY <1>9 DEF NotifyCopy, slices
  <2>2. CASE n = k
    <3>1. /\ note'[k].pc = "read" /\ note'[k].arr = subs.arr /\ note'[k].len = subs.len
          /\ note'[k].i = 1 /\ listed'[k] = Registered
      BY <1>1, <2>1, <2>2, Facts
    <3>2. subs.len \in Nat /\ \A i \in 1 .. subs.len : ~(i < 1)
      BY Facts
    <3> QED
      BY <2>1, <3>1, <3>2, FreeList
  <2>3. CASE n # k
    <3>1. /\ note'[k] = note[k] /\ listed'[k] = listed[k] /\ tried'[k] = tried[k]
          /\ disturbed'[k] = disturbed[k]
      BY <1>1, <2>1, <2>3, Facts
    <3> QED
      BY <1>7, <1>8, <2>1, <2>3, <3>1
  <2> QED
    BY <2>2, <2>3
<1>10. ASSUME NEW n \in Notifiers, NotifyRead(n) PROVE Steady(k)'
  <2>1. /\ mem' = mem /\ subs' = subs /\ mu' = mu /\ panicked' = panicked /\ listed' = listed
        /\ tried' = tried /\ disturbed' = disturbed /\ note[n].pc = "read"
        /\ note' = [note EXCEPT ![n].pc = "send", ![n].ch = mem[note[n].arr][note[n].i]]
    BY <1>10 DEF NotifyRead, slices
  <2>2. CASE n = k
    <3>1. /\ note'[k].arr = note[k].arr /\ note'[k].len = note[k].len /\ note'[k].i = note[k].i
          /\ note'[k].ch = mem[note[k].arr][note[k].i]
      BY <2>1, <2>2, Facts DEF Note
    <3>2. note[k].i \in 1 .. note[k].len
      BY <1>10, <2>2, ReadsChan
    <3>3. Steady(k)
      BY <1>0, <2>1, <2>2 DEF Walking
    <3>4. /\ mem' = mem /\ subs' = subs /\ mu' = mu /\ panicked' = panicked
          /\ listed' = listed /\ tried' = tried
      BY <2>1
    <3> QED
      BY <3>1, <3>2, <3>3, <3>4
  <2>3. CASE n # k
    <3>1. note'[k] = note[k]
      BY <2>1, <2>3, Facts
    <3> QED
      BY <1>7, <1>8, <2>1, <2>3, <3>1
  <2> QED
    BY <2>2, <2>3
<1>11. ASSUME NEW n \in Notifiers, NotifySend(n) PROVE Steady(k)'
  <2>1. /\ mem' = mem /\ subs' = subs /\ mu' = mu /\ listed' = listed /\ ~panicked
        /\ disturbed' = disturbed /\ note[n].pc = "send"
        /\ note' = [note EXCEPT ![n].pc = "read", ![n].i = @ + 1]
        /\ panicked' = TRUE \/ tried' = [tried EXCEPT ![n] = @ \cup {note[n].ch}]
        /\ tried' = tried \/ tried' = [tried EXCEPT ![n] = @ \cup {note[n].ch}]
    BY <1>11 DEF NotifySend, slices
  <2>2. CASE n = k
    <3>1. /\ note'[k].arr = note[k].arr /\ note'[k].len = note[k].len
          /\ note'[k].i = note[k].i + 1 /\ note'[k].pc = "read"
      BY <2>1, <2>2, Facts DEF Note
    <3>2. Steady(k)
      BY <1>0, <2>1, <2>2 DEF Walking
    <3>3. ASSUME ~panicked', NEW i \in 1 .. note[k].len, i < note[k].i + 1
          PROVE  mem[note[k].arr][i] \in tried'[k]
      <4>1. tried'[k] = tried[k] \cup {note[k].ch}
        BY <1>1, <2>1, <2>2, <3>3
      <4>2. i < note[k].i \/ i = note[k].i
        BY <3>3, Facts
      <4> QED
        BY <2>1, <2>2, <3>2, <4>1, <4>2
    <3>4. /\ mu' = Nil /\ (subs'.arr = note'[k].arr => note'[k].len <= subs'.len)
          /\ \A c \in listed'[k] :
                \E i \in 1 .. note'[k].len : mem'[note'[k].arr][i] = c
      <4>1. mem' = mem /\ subs' = subs /\ mu' = mu /\ listed'[k] = listed[k]
        BY <2>1
      <4>2. note'[k].arr = note[k].arr /\ note'[k].len = note[k].len
        BY <3>1
      <4> QED
        BY <3>2, <4>1, <4>2
    <3>5. ~panicked' => \A i \in 1 .. note'[k].len :
                           i < note'[k].i => mem'[note'[k].arr][i] \in tried'[k]
      BY <2>1, <3>1, <3>3
    <3>6. note'[k].pc # "send"
      BY <3>1
    <3> HIDE DEF Steady
    <3> QED
      BY <3>4, <3>5, <3>6 DEF Steady
  <2>3. CASE n # k
    <3>1. note'[k] = note[k] /\ tried'[k] = tried[k]
      BY <1>1, <2>1, <2>3, Facts
    <3> QED
      BY <1>7, <1>8, <2>1, <2>3, <3>1
  <2> QED
    BY <2>2, <2>3
<1>12. ASSUME NEW n \in Notifiers, NotifyEnd(n) PROVE Steady(k)'
  <2>1. /\ mem' = mem /\ subs' = subs /\ mu' = mu /\ panicked' = panicked /\ listed' = listed
        /\ tried' = tried /\ disturbed' = disturbed /\ note[n].pc = "read"
        /\ note' = [note EXCEPT ![n].pc = "done"]
    BY <1>12 DEF NotifyEnd, slices
  <2>2. CASE n = k
    <3>1. /\ note'[k].arr = note[k].arr /\ note'[k].len = note[k].len /\ note'[k].i = note[k].i
          /\ note'[k].pc = "done"
      BY <2>1, <2>2, Facts DEF Note
    <3>2. Steady(k)
      BY <1>0, <2>1, <2>2 DEF Walking
    <3> QED
      BY <2>1, <3>1, <3>2
  <2>3. CASE n # k
    <3>1. note'[k] = note[k]
      BY <2>1, <2>3, Facts
    <3> QED
      BY <1>7, <1>8, <2>1, <2>3, <3>1
  <2> QED
    BY <2>2, <2>3
<1>13. ASSUME NEW n \in Notifiers, NotifyAgain(n) PROVE Steady(k)'
  <2>1. /\ mem' = mem /\ subs' = subs /\ mu' = mu /\ panicked' = panicked
        /\ note' = [note EXCEPT ![n] = Idle]
        /\ listed' = [listed EXCEPT ![n] = {}] /\ tried' = [tried EXCEPT ![n] = {}]
        /\ disturbed' = [disturbed EXCEPT ![n] = FALSE]
    BY <1>13 DEF NotifyAgain, slices
  <2>2. n # k
    BY <2>1, Facts DEF Walking, Idle
  <2>3. /\ note'[k] = note[k] /\ listed'[k] = listed[k] /\ tried'[k] = tried[k]
        /\ disturbed'[k] = disturbed[k]
    BY <1>1, <2>1, <2>2, Facts
  <2> QED
    BY <1>7, <1>8, <2>1, <2>2, <2>3
<1>14. UNCHANGED vars => UNCHANGED <<mem, subs, mu, note, panicked, listed, tried, disturbed>>
  BY DEF vars
<1> HIDE DEF Steady
<1> QED
  BY <1>2, <1>3, <1>4, <1>5, <1>6, <1>9, <1>10, <1>11, <1>12, <1>13, <1>14
     DEF Next, Unsubscribe

\* A call that ends undisturbed has tried all it found.
LEMMA ReachStep == NotifierInv /\ [Next]_vars => UndisturbedNotifyReachesAll'
<1> SUFFICES ASSUME NotifierInv, [Next]_vars, NEW k \in Notifiers,
                    note'[k].pc = "done", ~disturbed'[k]
             PROVE  listed'[k] \subseteq tried'[k]
  BY DEF UndisturbedNotifyReachesAll
<1>0. note[k].pc = "done" /\ ~disturbed[k] => listed[k] \subseteq tried[k]
  BY DEF NotifierInv, UndisturbedNotifyReachesAll
<1>1. /\ disturbed \in [Notifiers -> BOOLEAN] /\ listed \in [Notifiers -> SUBSET Chans]
      /\ tried \in [Notifiers -> SUBSET Chans]
  BY DEF NotifierInv, TypeOK
<1>2. ASSUME note'[k] = note[k], listed'[k] = listed[k], tried'[k] = tried[k],
             disturbed'[k] = disturbed[k]
      PROVE  listed'[k] \subseteq tried'[k]
  BY <1>0, <1>2
<1>3. ASSUME NEW c \in Chans, UnsubLock(c) PROVE FALSE
  BY <1>3 DEF UnsubLock
<1>4. ASSUME NEW c \in Chans, Subscribe(c) \/ Cancel(c) \/ UnsubShift(c) \/ UnsubUnlock(c) \/
             CloseChan(c) \/ Drain(c)
      PROVE  UNCHANGED <<note, listed, tried, disturbed>>
  BY <1>4 DEF Subscribe, Cancel, UnsubShift, UnsubUnlock, CloseChan, Drain, calls
<1>5. ASSUME NEW n \in Notifiers, NotifyCopy(n) PROVE listed'[k] \subseteq tried'[k]
  <2>1. /\ note' = [note EXCEPT ![n] = [pc |-> "read", arr |-> subs.arr,
                                        len |-> subs.len, i |-> 1, ch |-> Nil]]
        /\ listed' = [listed EXCEPT ![n] = Registered] /\ tried' = [tried EXCEPT ![n] = {}]
        /\ disturbed' = [disturbed EXCEPT ![n] = FALSE]
    BY <1>5 DEF NotifyCopy
  <2>2. n # k
    BY <2>1, Facts
  <2> QED
    BY <1>1, <1>2, <2>1, <2>2, Facts
<1>6. ASSUME NEW n \in Notifiers, NotifyRead(n) PROVE listed'[k] \subseteq tried'[k]
  <2>1. /\ note' = [note EXCEPT ![n].pc = "send", ![n].ch = mem[note[n].arr][note[n].i]]
        /\ listed' = listed /\ tried' = tried /\ disturbed' = disturbed
    BY <1>6 DEF NotifyRead
  <2>2. n # k
    BY <2>1, Facts DEF Note
  <2> QED
    BY <1>2, <2>1, <2>2, Facts
<1>7. ASSUME NEW n \in Notifiers, NotifySend(n) PROVE listed'[k] \subseteq tried'[k]
  <2>1. /\ note' = [note EXCEPT ![n].pc = "read", ![n].i = @ + 1]
        /\ listed' = listed /\ disturbed' = disturbed
        /\ tried' = tried \/ tried' = [tried EXCEPT ![n] = @ \cup {note[n].ch}]
    BY <1>7 DEF NotifySend
  <2>2. n # k
    BY <2>1, Facts DEF Note
  <2>3. note'[k] = note[k] /\ tried'[k] = tried[k]
    BY <1>1, <2>1, <2>2, Facts
  <2> QED
    BY <1>2, <2>1, <2>3
<1>8. ASSUME NEW n \in Notifiers, NotifyEnd(n) PROVE listed'[k] \subseteq tried'[k]
  <2>1. /\ note' = [note EXCEPT ![n].pc = "done"] /\ note[n].pc = "read" /\ ~panicked
        /\ listed' = listed /\ tried' = tried /\ disturbed' = disturbed
        /\ note[n].i > note[n].len
    BY <1>8 DEF NotifyEnd, Walked
  <2>2. CASE n = k
    <3>1. k \in Walking
      BY <2>1, <2>2 DEF Walking
    <3>2. /\ \A c \in listed[k] : \E i \in 1 .. note[k].len : mem[note[k].arr][i] = c
          /\ \A i \in 1 .. note[k].len : i < note[k].i => mem[note[k].arr][i] \in tried[k]
      BY <2>1, <3>1 DEF NotifierInv, WalkSteady
    <3>3. \A i \in 1 .. note[k].len : i < note[k].i
      BY <2>1, <2>2, Facts
    <3> QED
      BY <2>1, <3>2, <3>3
  <2>3. CASE n # k
    <3>1. note'[k] = note[k]
      BY <2>1, <2>3, Facts
    <3> QED
      BY <1>2, <2>1, <3>1
  <2> QED
    BY <2>2, <2>3
<1>9. ASSUME NEW n \in Notifiers, NotifyAgain(n) PROVE listed'[k] \subseteq tried'[k]
  <2>1. /\ note' = [note EXCEPT ![n] = Idle]
        /\ listed' = [listed EXCEPT ![n] = {}] /\ tried' = [tried EXCEPT ![n] = {}]
        /\ disturbed' = [disturbed EXCEPT ![n] = FALSE]
    BY <1>9 DEF NotifyAgain
  <2>2. n # k
    BY <2>1, Facts DEF Idle
  <2> QED
    BY <1>1, <1>2, <2>1, <2>2, Facts
<1>10. CASE UNCHANGED <<note, listed, tried, disturbed>>
  BY <1>2, <1>10
<1>11. UNCHANGED vars => UNCHANGED <<note, listed, tried, disturbed>>
  BY DEF vars
<1> QED
  BY <1>3, <1>4, <1>5, <1>6, <1>7, <1>8, <1>9, <1>10, <1>11 DEF Next, Unsubscribe

-----------------------------------------------------------------------------
(* The theorems.                                                           *)

\* The invariant is inductive: with the mutex held in the middle of a removal too,
\* the array without the slot being written holds each registered subscriber once.
THEOREM NotifierInvariant == Spec => []NotifierInv
<1>1. Init => NotifierInv
  <2> SUFFICES ASSUME Init PROVE NotifierInv
    OBVIOUS
  <2>1. mem = <<>> /\ Len(mem) = 0 /\ mem \in Seq(Seq(Chans \cup {Nil}))
    BY DEF Init
  <2>2. subs = NoSlice /\ subs.arr = 0 /\ subs.len = 0 /\ subs \in [arr : Nat, len : Nat]
    BY DEF Init, NoSlice
  <2>3. note = [n \in Notifiers |-> Idle] /\ \A n \in Notifiers : note[n] = Idle
    BY DEF Init
  <2>4. Idle \in Note /\ Idle.pc = "idle" /\ Idle.arr = 0 /\ Idle.len = 0
    BY DEF Idle, Note
  <2>5. TypeOK
    <3>1. /\ subs.arr \in 0 .. Len(mem)
          /\ subs.len \in 0 .. (IF subs.arr = 0 THEN 0 ELSE Len(mem[subs.arr]))
      BY <2>1, <2>2
    <3>2. \A n \in Notifiers : /\ note[n].pc \in {"idle", "read", "send", "done"}
                               /\ note[n].pc = "send" => note[n].ch \in Chans
      BY <2>3, <2>4
    <3>3. /\ mu \in Chans \cup {Nil} /\ shift \in Nat /\ panicked \in BOOLEAN
          /\ state \in [Chans -> Stage] /\ signal \in [Chans -> BOOLEAN]
          /\ listed \in [Notifiers -> SUBSET Chans] /\ tried \in [Notifiers -> SUBSET Chans]
          /\ disturbed \in [Notifiers -> BOOLEAN]
      BY DEF Init, Stage
    <3> QED
      BY <2>1, <3>1, <3>2, <3>3 DEF TypeOK
  <2>6. ListExact
    <3>1. mu = Nil /\ ListLen = 0 /\ Registered = {} /\ \A c \in Chans : state[c] = "new"
      BY <2>2 DEF Init, ListLen, Registered
    <3> QED
      BY <3>1, NotifierAssumption DEF ListExact
  <2>7. HeadersCover
    <3>1. Covers(subs) /\ \A n \in Notifiers : Covers(note[n])
      BY <2>1, <2>2, <2>3, <2>4 DEF Covers
    <3> QED
      BY <2>2, <2>3, <2>4, <3>1 DEF HeadersCover, Note
  <2>8. WalkSteady /\ UndisturbedNotifyReachesAll
    BY <2>3, <2>4 DEF WalkSteady, Walking, UndisturbedNotifyReachesAll
  <2> QED
    BY <2>5, <2>6, <2>7, <2>8 DEF NotifierInv
<1>2. NotifierInv /\ [Next]_vars => NotifierInv'
  BY TypeStep, ListStep, HeadersStep, WalkStep, ReachStep DEF NotifierInv
<1> QED
  BY <1>1, <1>2, PTL DEF Spec

\* Subscribe and the unsubscribe goroutines, in any interleaving, leave exactly the
\* registered channels in the slice, each once, whenever the mutex is free.
THEOREM RegistryNeverWrong == Spec => []RegistryExact
<1>1. NotifierInv => RegistryExact
  <2> SUFFICES ASSUME NotifierInv, mu = Nil
               PROVE  Elements = Registered /\ subs.len = Cardinality(Registered)
    BY DEF RegistryExact, NotifierInv
  <2>1. Elements = Registered
    BY FreeList DEF Elements
  <2> DEFINE f == [j \in 1 .. subs.len |-> mem[subs.arr][j]]
  <2>2. f \in Bijection(1 .. subs.len, Registered)
    <3>1. f \in Injection(1 .. subs.len, Registered)
      BY FreeList DEF Injection, IsInjective
    <3>2. f \in Surjection(1 .. subs.len, Registered)
      BY FreeList DEF Surjection
    <3> QED
      BY <3>1, <3>2 DEF Bijection
  <2>3. subs.len \in Nat
    BY Facts
  <2>4. ExistsBijection(1 .. subs.len, Registered)
    BY <2>2 DEF ExistsBijection
  <2>5. IsFiniteSet(Registered)
    BY NotifierAssumption, FS_Subset DEF Registered
  <2> QED
    BY <2>1, <2>3, <2>4, <2>5, FS_CountingElements
<1> QED
  BY <1>1, NotifierInvariant, PTL

\* A Notify that no removal overlaps tries every subscriber that was registered when
\* it copied the header, whatever is appended while it walks.
THEOREM UndisturbedReachesAll == Spec => []UndisturbedNotifyReachesAll
<1>1. NotifierInv => UndisturbedNotifyReachesAll
  BY DEF NotifierInv
<1> QED
  BY <1>1, NotifierInvariant, PTL
=============================================================================
