---------------------------- MODULE KernelLemmas ----------------------------
(***************************************************************************)
(* Lemmas about the operators of the kernel, for every size of its tables  *)
(* and queues: the ready ring keeps its type and its shape under each of its *)
(* operations, what the scheduler returns is a ring or a table, the wake-ups *)
(* of a broadcast fit in the ring, and inboxes stay sequences of messages. *)
(* A queue of processes of equal priority is a line: who joins stands at its *)
(* end, who gets the CPU stood at its head, and there is room for everyone. *)
(***************************************************************************)
EXTENDS Ipc, SequenceLemmas, TLAPS, FiniteSetTheorems, SequenceTheorems

-----------------------------------------------------------------------------
(* The ready ring.                                                         *)

\* Remainders on the range the ring uses them on.
LEMMA ModIn == \A n \in Nat \ {0} : \A i \in Int : i % n \in 0 .. n - 1
  OBVIOUS

\* Of a window that starts at h and holds c entries: the slot after its end,
\* the slot before its end, and its end seen from the slot after its start.
LEMMA ModSucc ==
  \A n \in Nat \ {0} : \A h \in 0 .. n - 1, c \in 0 .. n - 1 :
     (((h + c) % n) + 1) % n = (h + (c + 1)) % n
  OBVIOUS

LEMMA ModPred ==
  \A n \in Nat \ {0} : \A h \in 0 .. n - 1, c \in 1 .. n :
     (((h + c) % n) - 1) % n = (h + (c - 1)) % n
  OBVIOUS

LEMMA ModShift ==
  \A n \in Nat \ {0} : \A h \in 0 .. n - 1, c \in 1 .. n :
     (((h + 1) % n) + (c - 1)) % n = (h + c) % n
  OBVIOUS

LEMMA ModGrow ==
  \A n \in Nat \ {0} : \A h \in 0 .. n - 1, c, m \in 0 .. n :
     c + m <= n => (((h + c) % n) + m) % n = (h + (c + m)) % n
  OBVIOUS

\* Different entries of a window are in different slots, and none of them is
\* in the slot after a window that is not full.
LEMMA ModDistinct ==
  \A n \in Nat \ {0} : \A h \in 0 .. n - 1, j, k \in 0 .. n - 1 :
     (h + j) % n = (h + k) % n => j = k
  OBVIOUS

\* In a window that does not wrap no remainder is taken.
LEMMA ModSmall ==
  \A n \in Nat \ {0} : \A i \in 0 .. n - 1 : i % n = i
  OBVIOUS

LEMMA SlotAtIdx ==
  ASSUME NEW r \in RingType, NEW k \in Nat
  PROVE  SlotAt(r, k) \in RingIdx
<1>1. r.head + k \in Int BY DEF RingType, RingIdx
<1> QED BY <1>1, ModIn, QueueSizeAssumption DEF SlotAt, RingIdx

LEMMA EntryAtType ==
  ASSUME NEW r \in RingType, NEW k \in Nat
  PROVE  EntryAt(r, k) \in EntryType
<1>1. r.slots \in [RingIdx -> EntryType] BY DEF RingType
<1> QED BY <1>1, SlotAtIdx DEF EntryAt

LEMMA EmptyRingType == EmptyRing \in RingType /\ WellShaped(EmptyRing)
<1>1. NoEntry \in EntryType BY DEF NoEntry, EntryType
<1>2. 0 \in RingIdx BY QueueSizeAssumption DEF RingIdx
<1>3. (0 + 0) % QueueSize = 0 BY QueueSizeAssumption
<1> QED BY <1>1, <1>2, <1>3, QueueSizeAssumption
        DEF EmptyRing, RingType, WellShaped, RingIdx

\* An insertion at the tail of a ring that has room.
LEMMA PushType ==
  ASSUME NEW r \in RingType, NEW e \in EntryType, r.count < QueueSize
  PROVE  Push(r, e) \in RingType
<1>1. r.tail + 1 \in Int BY DEF RingType, RingIdx
<1>2. (r.tail + 1) % QueueSize \in RingIdx
  BY <1>1, ModIn, QueueSizeAssumption DEF RingIdx
<1>3. r.count + 1 \in 0 .. QueueSize
  BY QueueSizeAssumption DEF RingType
<1>4. [r.slots EXCEPT ![r.tail] = e] \in [RingIdx -> EntryType]
  BY DEF RingType
<1>5. r.head \in RingIdx BY DEF RingType
<1> QED BY <1>2, <1>3, <1>4, <1>5 DEF Push, RingType

LEMMA PushShape ==
  ASSUME NEW r \in RingType, NEW e \in EntryType, r.count < QueueSize, WellShaped(r)
  PROVE  WellShaped(Push(r, e))
<1>1. r.head \in 0 .. QueueSize - 1 /\ r.count \in 0 .. QueueSize - 1
  BY QueueSizeAssumption DEF RingType, RingIdx
<1>2. (((r.head + r.count) % QueueSize) + 1) % QueueSize
        = (r.head + (r.count + 1)) % QueueSize
  BY <1>1, ModSucc, QueueSizeAssumption
<1> QED BY <1>2 DEF Push, WellShaped

\* The closing of the gap only copies entries.
LEMMA ShiftedType ==
  ASSUME NEW slots \in [RingIdx -> EntryType], NEW b \in RingIdx, NEW n \in Int
  PROVE  Shifted(slots, b, n) \in [RingIdx -> EntryType]
<1> DEFINE From(d) == slots[(b + d) % QueueSize]
<1>1. ASSUME NEW d \in Int PROVE From(d) \in EntryType
  <2>1. b + d \in Int BY DEF RingIdx
  <2>2. (b + d) % QueueSize \in RingIdx
    BY <2>1, ModIn, QueueSizeAssumption DEF RingIdx
  <2> QED BY <2>2
<1>2. ASSUME NEW i \in RingIdx
      PROVE  (LET j == (i - b) % QueueSize
              IN  IF j + QueueSize < n THEN From(j + 2)
                  ELSE IF j >= n THEN slots[i]
                  ELSE IF j = QueueSize - 1 THEN From(1)
                  ELSE From(j + 1)) \in EntryType
  <2> DEFINE j == (i - b) % QueueSize
  <2>1. i - b \in Int BY DEF RingIdx
  <2>2. j \in Int BY <2>1, ModIn, QueueSizeAssumption
  <2>3. From(j + 2) \in EntryType /\ From(1) \in EntryType /\ From(j + 1) \in EntryType
    BY <2>2, <1>1
  <2> QED BY <2>3
<1> QED BY <1>2 DEF Shifted

\* A removal from a ring that is not empty.
LEMMA RemoveSlotType ==
  ASSUME NEW r \in RingType, NEW b \in RingIdx, r.count > 0
  PROVE  RemoveSlot(r, b) \in RingType
<1>1. r.count - 1 \in 0 .. QueueSize BY QueueSizeAssumption DEF RingType
<1>2. r.head + 1 \in Int /\ r.tail - 1 \in Int /\ ShiftLength(r, b) \in Int
  BY QueueSizeAssumption DEF RingType, RingIdx, ShiftLength
<1>3. (r.head + 1) % QueueSize \in RingIdx /\ (r.tail - 1) % QueueSize \in RingIdx
  BY <1>2, ModIn, QueueSizeAssumption DEF RingIdx
<1>4. r.slots \in [RingIdx -> EntryType] BY DEF RingType
<1>5. Shifted(r.slots, b, ShiftLength(r, b)) \in [RingIdx -> EntryType]
  BY <1>2, <1>4, ShiftedType
<1> QED BY <1>1, <1>3, <1>5 DEF RemoveSlot, RingType

LEMMA RemoveSlotShape ==
  ASSUME NEW r \in RingType, NEW b \in RingIdx, r.count > 0, WellShaped(r)
  PROVE  WellShaped(RemoveSlot(r, b))
<1>1. r.head \in 0 .. QueueSize - 1 /\ r.count \in 1 .. QueueSize
  BY QueueSizeAssumption DEF RingType, RingIdx
<1>2. CASE b = r.head
  <2>1. (((r.head + 1) % QueueSize) + (r.count - 1)) % QueueSize
          = (r.head + r.count) % QueueSize
    BY <1>1, ModShift, QueueSizeAssumption
  <2>2. /\ RemoveSlot(r, b).head = (r.head + 1) % QueueSize
        /\ RemoveSlot(r, b).count = r.count - 1
        /\ RemoveSlot(r, b).tail = r.tail
    BY <1>2 DEF RemoveSlot, RingType
  <2> QED BY <2>1, <2>2 DEF WellShaped
<1>3. CASE b # r.head
  <2>1. (((r.head + r.count) % QueueSize) - 1) % QueueSize
          = (r.head + (r.count - 1)) % QueueSize
    BY <1>1, ModPred, QueueSizeAssumption
  <2>2. /\ RemoveSlot(r, b).head = r.head
        /\ RemoveSlot(r, b).count = r.count - 1
        /\ RemoveSlot(r, b).tail = (r.tail - 1) % QueueSize
    BY <1>3 DEF RemoveSlot, RingType
  <2> QED BY <2>1, <2>2 DEF WellShaped
<1> QED BY <1>2, <1>3

-----------------------------------------------------------------------------
(* The scheduler.                                                          *)

TableType == [Slots -> PcbType]

LEMMA SlotOfIn == \A pid \in Int : SlotOf(pid) \in Slots
<1> SUFFICES ASSUME NEW pid \in Int PROVE SlotOf(pid) \in Slots
  OBVIOUS
<1>1. pid - 1 \in Int OBVIOUS
<1> QED BY <1>1, ModIn, ProcAssumption DEF SlotOf, Slots

LEMMA SlotOfKernel == SlotOf(KERNEL) = 0
<1>1. \A n \in Nat \ {0} : (1 - 1) % n = 0 OBVIOUS
<1> QED BY <1>1, ProcAssumption DEF SlotOf, KERNEL

LEMMA EntryForType ==
  ASSUME NEW p \in PcbType, NEW pid \in Nat
  PROVE  EntryFor(p, pid) \in EntryType
BY SchedAssumption DEF EntryFor, EntryType, PcbType

LEMMA EnqueueRingOk ==
  ASSUME NEW pcbs \in TableType, NEW r \in RingType, NEW pid \in Nat
  PROVE  /\ EnqueueRing(pcbs, r, pid) \in RingType
         /\ WellShaped(r) => WellShaped(EnqueueRing(pcbs, r, pid))
<1>1. SlotOf(pid) \in Slots BY SlotOfIn
<1>2. EntryFor(pcbs[SlotOf(pid)], pid) \in EntryType
  BY <1>1, EntryForType DEF TableType
<1> QED BY <1>2, PushType, PushShape DEF EnqueueRing, CanEnqueue

LEMMA EnqueuePcbOk ==
  ASSUME NEW pcbs \in TableType, NEW r, NEW pid \in Nat
  PROVE  EnqueuePcb(pcbs, r, pid) \in TableType
<1>1. SlotOf(pid) \in Slots BY SlotOfIn
<1> QED BY <1>1 DEF EnqueuePcb, TableType, PcbType, States

\* Rewriting entries in place leaves the ends where they are.
LEMMA RewriteOk ==
  ASSUME NEW r \in RingType, NEW slots \in [RingIdx -> EntryType]
  PROVE  /\ [r EXCEPT !.slots = slots] \in RingType
         /\ WellShaped(r) => WellShaped([r EXCEPT !.slots = slots])
         /\ [r EXCEPT !.slots = slots].count = r.count
BY DEF RingType, WellShaped

LEMMA AgedOk ==
  ASSUME NEW r \in RingType
  PROVE  /\ Aged(r) \in RingType
         /\ WellShaped(r) => WellShaped(Aged(r))
         /\ Aged(r).count = r.count
<1> DEFINE slots == [i \in RingIdx |->
              [r.slots[i] EXCEPT !.age = IF @ < AgeCap THEN @ + 1 ELSE AgeCap]]
<1>1. AgeCap \in Nat BY SchedAssumption DEF AgeCap
<1>2. slots \in [RingIdx -> EntryType] BY <1>1 DEF RingType, EntryType
<1> QED BY <1>2, RewriteOk DEF Aged

LEMMA BoostedOk ==
  ASSUME NEW e \in EntryType
  PROVE  Boosted(e) \in EntryType
BY SchedAssumption DEF Boosted, EntryType

LEMMA BoostRingOk ==
  ASSUME NEW r \in RingType
  PROVE  /\ BoostRing(r) \in RingType
         /\ WellShaped(r) => WellShaped(BoostRing(r))
         /\ BoostRing(r).count = r.count
<1> DEFINE slots == [i \in RingIdx |->
              IF i \in Occupied(r) THEN Boosted(r.slots[i]) ELSE r.slots[i]]
<1>1. slots \in [RingIdx -> EntryType] BY BoostedOk DEF RingType
<1> QED BY <1>1, RewriteOk DEF BoostRing

LEMMA BoostPcbsOk ==
  ASSUME NEW pcbs \in TableType, NEW r \in RingType
  PROVE  BoostPcbs(pcbs, r) \in TableType
<1>1. ASSUME NEW i \in Slots, \E k \in Positions(r) : IsLastBoost(r, k, i)
      PROVE  Boosted(EntryAt(r, CHOOSE k \in Positions(r) : IsLastBoost(r, k, i))).prio \in Nat
  <2> DEFINE c == CHOOSE k \in Positions(r) : IsLastBoost(r, k, i)
  <2>1. c \in Positions(r) BY <1>1
  <2>2. c \in Nat BY <2>1 DEF Positions, RingType
  <2>3. EntryAt(r, c) \in EntryType BY <2>2, EntryAtType
  <2> QED BY <2>3, BoostedOk DEF EntryType
<1>2. ASSUME NEW i \in Slots, NEW n \in Nat
      PROVE  [pcbs[i] EXCEPT !.prio = n] \in PcbType
  BY DEF TableType, PcbType
<1> QED BY <1>1, <1>2 DEF BoostPcbs, TableType

\* A boost only changes priorities.
LEMMA BoostPcbsSame ==
  ASSUME NEW pcbs \in TableType, NEW r, NEW i \in Slots
  PROVE  /\ BoostPcbs(pcbs, r)[i].state = pcbs[i].state
         /\ BoostPcbs(pcbs, r)[i].pid = pcbs[i].pid
         /\ BoostPcbs(pcbs, r)[i].agent = pcbs[i].agent
         /\ BoostPcbs(pcbs, r)[i].bc = pcbs[i].bc
         /\ BoostPcbs(pcbs, r)[i].waiting = pcbs[i].waiting
         /\ BoostPcbs(pcbs, r)[i].parent = pcbs[i].parent
BY DEF BoostPcbs, TableType, PcbType

\* The ring the scheduler dequeues from.
LEMMA SwitchRingOk ==
  ASSUME pcb \in TableType, ring \in RingType, schedCur \in Nat
  PROVE  /\ SwitchRing \in RingType
         /\ WellShaped(ring) => WellShaped(SwitchRing)
BY AgedOk, EnqueueRingOk DEF SwitchRing

\* What a context switch does, in terms of the entry it takes.
LEMMA SwitchToOk ==
  ASSUME pcb \in TableType, ring \in RingType, schedCur \in Nat, slice \in Nat,
         boostTimer \in Nat, SwitchTo
  PROVE  /\ pcb' \in TableType
         /\ ring' \in RingType
         /\ WellShaped(ring) => WellShaped(ring')
         /\ schedCur' \in Nat /\ kcur' = schedCur'
         /\ slice' \in Nat /\ boostTimer' \in Nat
         /\ \A i \in Slots :
               /\ pcb'[i].state = "UNUSED" <=> pcb[i].state = "UNUSED"
               /\ pcb'[i].pid = pcb[i].pid
               /\ pcb'[i].agent = pcb[i].agent
               /\ pcb'[i].bc = pcb[i].bc
<1> DEFINE r    == BoostRing(SwitchRing)
           pcbs == BoostPcbs(pcb, SwitchRing)
<1>1. /\ r \in RingType /\ pcbs \in TableType
      /\ WellShaped(ring) => WellShaped(r)
  BY SwitchRingOk, BoostRingOk, BoostPcbsOk
<1>2. \A i \in Slots : /\ pcbs[i].state = pcb[i].state /\ pcbs[i].pid = pcb[i].pid
                       /\ pcbs[i].agent = pcb[i].agent /\ pcbs[i].bc = pcb[i].bc
  BY BoostPcbsSame
<1>3. PICK k \in Positions(r) : /\ SwitchToEntry(EntryAt(r, k), pcbs)
                                /\ ring' = RemoveSlot(r, SlotAt(r, k))
  BY DEF SwitchTo
<1> HIDE DEF r, pcbs
<1>4. k \in Nat /\ r.count > 0 BY <1>1, <1>3 DEF Positions, RingType
<1>5. EntryAt(r, k) \in EntryType /\ SlotAt(r, k) \in RingIdx
  BY <1>1, <1>4, EntryAtType, SlotAtIdx
<1>6. ring' \in RingType /\ (WellShaped(ring) => WellShaped(ring'))
  BY <1>1, <1>3, <1>4, <1>5, RemoveSlotType, RemoveSlotShape
<1>7. EntryAt(r, k).pid \in Nat /\ EntryAt(r, k).slice \in Nat
  BY <1>5 DEF EntryType
<1>8. SlotOf(EntryAt(r, k).pid) \in Slots BY <1>7, SlotOfIn
<1>9. /\ schedCur' \in Nat /\ kcur' = schedCur' /\ slice' \in Nat
      /\ pcb' \in TableType
  BY <1>1, <1>3, <1>7, <1>8 DEF SwitchToEntry, TableType, PcbType, States
<1>10. \A i \in Slots : /\ pcb'[i].state = "UNUSED" <=> pcbs[i].state = "UNUSED"
                        /\ pcb'[i].pid = pcbs[i].pid
                        /\ pcb'[i].agent = pcbs[i].agent
                        /\ pcb'[i].bc = pcbs[i].bc
  BY <1>1, <1>3, <1>7, <1>8 DEF SwitchToEntry, TableType, PcbType, States, Exists
<1>11. boostTimer' \in Nat
  BY DEF SwitchTo
<1> QED BY <1>2, <1>6, <1>9, <1>10, <1>11

-----------------------------------------------------------------------------
(* Messaging.                                                              *)

InboxType == [Inboxes -> Seq(MsgType)]

LEMMA MsgOk ==
  ASSUME NEW from \in Nat, NEW to \in Nat, msgId \in Nat
  PROVE  Msg(from, to) \in MsgType
BY DEF Msg, MsgType

\* Taking a message leaves sequences of messages.
LEMMA TakeMatchOk ==
  ASSUME inbox \in InboxType, NEW pid, NEW filter, TakeMatch(pid, filter)
  PROVE  inbox' \in InboxType
<1>1. PICK k \in DOMAIN inbox[pid] : inbox' = [inbox EXCEPT ![pid] = RemoveAt(@, k)]
  BY DEF TakeMatch
<1>2. ASSUME pid \in Inboxes PROVE RemoveAt(inbox[pid], k) \in Seq(MsgType)
  <2>1. inbox[pid] \in Seq(MsgType) BY <1>2 DEF InboxType
  <2> QED BY <2>1, RemoveAtOk
<1> QED BY <1>1, <1>2 DEF InboxType

\* A broadcast pushes no more entries than the ring has room for.
LEMMA BroadcastRingOk ==
  ASSUME pcb \in TableType, ring \in RingType, NEW sender \in Nat,
         BroadcastPcb(sender) \in TableType
  PROVE  /\ BroadcastRing(sender) \in RingType
         /\ WellShaped(ring) => WellShaped(BroadcastRing(sender))
<1> DEFINE new     == BroadcastWoken(sender) \ QueuedPids(ring)
           below(p) == {q \in new : q < p}
           rank(p) == Cardinality({q \in new : q < p})
           added   == {p \in new : ring.count + rank(p) < QueueSize}
           place(p) == (ring.tail + rank(p)) % QueueSize
           room    == QueueSize - ring.count
<1>1. new \subseteq 1 .. MaxProcs
  BY DEF BroadcastWoken, BroadcastTargets, Inboxes
<1>2. IsFiniteSet(new)
  <2>1. IsFiniteSet(1 .. MaxProcs) BY FS_Interval, ProcAssumption
  <2> QED BY <1>1, <2>1, FS_Subset
<1>3. \A p \in new : IsFiniteSet(below(p)) /\ rank(p) \in Nat
  <2> SUFFICES ASSUME NEW p \in new PROVE IsFiniteSet(below(p)) /\ rank(p) \in Nat
    OBVIOUS
  <2>1. below(p) \in SUBSET new OBVIOUS
  <2>2. IsFiniteSet(below(p)) BY <1>2, <2>1, FS_Subset
  <2> QED BY <2>2, FS_CardinalityType
<1>4. \A p, q \in new : p < q => rank(p) # rank(q)
  <2> SUFFICES ASSUME NEW p \in new, NEW q \in new, p < q PROVE rank(p) # rank(q)
    OBVIOUS
  <2>1. below(p) \in SUBSET below(q) BY <1>1
  <2>2. p \in below(q) /\ p \notin below(p) BY <1>1
  <2>3. IsFiniteSet(below(q)) BY <1>3
  <2>4. Cardinality(below(q)) = Cardinality(below(p)) => below(q) = below(p)
    BY <2>1, <2>3, FS_Subset
  <2> QED BY <2>2, <2>4
<1>5. room \in 0 .. QueueSize /\ ring.count \in 0 .. QueueSize
  BY QueueSizeAssumption DEF RingType
<1>6. Cardinality(added) \in Nat /\ Cardinality(added) <= room
  <2> DEFINE f == [p \in added |-> rank(p)]
  <2>1. f \in [added -> 0 .. room - 1]
    <3>1. ASSUME NEW p \in added PROVE rank(p) \in 0 .. room - 1
      <4>1. rank(p) \in Nat /\ ring.count + rank(p) < QueueSize BY <1>3
      <4> HIDE DEF rank
      <4> QED BY <4>1, <1>5, QueueSizeAssumption
    <3> QED BY <3>1
  <2>2. \A p, q \in added : f[p] = f[q] => p = q
    BY <1>1, <1>4
  <2>3. f \in Injection(added, 0 .. room - 1)
    BY <2>1, <2>2 DEF Injection, IsInjective
  <2>4. IsFiniteSet(0 .. room - 1) /\ Cardinality(0 .. room - 1) = room
    <3>1. /\ IsFiniteSet(0 .. room - 1)
          /\ Cardinality(0 .. room - 1) = IF 0 > room - 1 THEN 0 ELSE room - 1 - 0 + 1
      <4>1. 0 \in Int /\ room - 1 \in Int BY <1>5, QueueSizeAssumption
      <4> HIDE DEF room
      <4> QED BY <4>1, FS_Interval
    <3> QED BY <1>5, <3>1, QueueSizeAssumption
  <2>5. IsFiniteSet(added) /\ Cardinality(added) <= room
    BY <2>3, <2>4, FS_Injection
  <2> QED BY <2>5, FS_CardinalityType
<1>7. ASSUME NEW p \in added
      PROVE  EntryFor(BroadcastPcb(sender)[SlotOf(p)], p) \in EntryType
  <2>1. p \in Nat /\ SlotOf(p) \in Slots BY <1>1, SlotOfIn, ProcAssumption
  <2> QED BY <2>1, EntryForType DEF TableType
<1> DEFINE slots == [i \in RingIdx |->
                       IF \E p \in added : place(p) = i
                       THEN LET p == CHOOSE p \in added : place(p) = i
                            IN  EntryFor(BroadcastPcb(sender)[SlotOf(p)], p)
                       ELSE ring.slots[i]]
<1>8. slots \in [RingIdx -> EntryType]
  <2>1. \A i \in RingIdx : ring.slots[i] \in EntryType BY DEF RingType
  <2> QED BY <1>7, <2>1
<1>9. BroadcastRing(sender) =
        [slots |-> slots, head |-> ring.head,
         tail |-> (ring.tail + Cardinality(added)) % QueueSize,
         count |-> ring.count + Cardinality(added)]
  BY DEF BroadcastRing
<1> HIDE DEF slots, added
<1>10. (ring.tail + Cardinality(added)) % QueueSize \in RingIdx
  <2>1. ring.tail + Cardinality(added) \in Int BY <1>6 DEF RingType, RingIdx
  <2> QED BY <2>1, ModIn, QueueSizeAssumption DEF RingIdx
<1>11. ring.count + Cardinality(added) \in 0 .. QueueSize
  BY <1>5, <1>6, QueueSizeAssumption
<1>12. BroadcastRing(sender) \in RingType
  BY <1>8, <1>9, <1>10, <1>11 DEF RingType
<1>13. ASSUME WellShaped(ring) PROVE WellShaped(BroadcastRing(sender))
  <2>1. /\ ring.head \in 0 .. QueueSize - 1 /\ ring.count \in 0 .. QueueSize
        /\ Cardinality(added) \in 0 .. QueueSize
        /\ ring.count + Cardinality(added) <= QueueSize
    BY <1>5, <1>6, <1>11, QueueSizeAssumption DEF RingType, RingIdx
  <2>2. (((ring.head + ring.count) % QueueSize) + Cardinality(added)) % QueueSize
          = (ring.head + (ring.count + Cardinality(added))) % QueueSize
    BY <2>1, ModGrow, QueueSizeAssumption
  <2> QED BY <1>9, <1>13, <2>2 DEF WellShaped
<1> QED BY <1>12, <1>13

LEMMA BroadcastPcbOk ==
  ASSUME pcb \in TableType, NEW sender
  PROVE  /\ BroadcastPcb(sender) \in TableType
         /\ \A i \in Slots :
               /\ BroadcastPcb(sender)[i].state = "UNUSED" <=> pcb[i].state = "UNUSED"
               /\ BroadcastPcb(sender)[i].pid = pcb[i].pid
               /\ BroadcastPcb(sender)[i].agent = pcb[i].agent
               /\ BroadcastPcb(sender)[i].bc = pcb[i].bc
<1>1. \A i \in Slots : (\E p \in BroadcastWoken(sender) : SlotOf(p) = i)
                        => pcb[i].state = "AGENT_IDLE"
  BY DEF BroadcastWoken
<1> QED BY <1>1 DEF BroadcastPcb, TableType, PcbType, States

-----------------------------------------------------------------------------
(* The queue as a line of processes of equal priority.                     *)

LEMMA PidRange ==
  /\ MaxPid \in Nat \ {0} /\ QueueSize \in Nat \ {0} /\ MaxProcs \in Nat \ {0}
  /\ DefaultPrio \in Nat
  BY ProcAssumption, QueueSizeAssumption

\* A queue in which every entry is of another process, and no process before
\* the others.
Fair(r) ==
    /\ r \in RingType /\ WellShaped(r)
    /\ \A k \in Positions(r) : /\ EntryAt(r, k).pid \in 2 .. MaxPid
                               /\ EntryAt(r, k).prio = DefaultPrio
    /\ \A j, k \in Positions(r) : EntryAt(r, j).pid = EntryAt(r, k).pid => j = k

\* Who is queued in r has the same place in s.
Grows(r, s) ==
    \A k \in Positions(r) : k \in Positions(s) /\ EntryAt(s, k).pid = EntryAt(r, k).pid

LEMMA FairCount ==
  ASSUME NEW r, Fair(r)
  PROVE  r.count \in 0 .. QueueSize /\ r.head \in 0 .. QueueSize - 1 /\ r.count \in Nat
BY PidRange DEF Fair, RingType, RingIdx

\* The queue holds as many processes as it has entries.
LEMMA QueueIs ==
  ASSUME NEW r, Fair(r)
  PROVE  /\ QueuedPids(r) \subseteq 2 .. MaxPid
         /\ IsFiniteSet(QueuedPids(r)) /\ Cardinality(QueuedPids(r)) = r.count
<1> DEFINE f == [k \in Positions(r) |-> EntryAt(r, k).pid]
           Q == QueuedPids(r)
<1>1. f \in [Positions(r) -> Q] BY DEF QueuedPids
<1>2. f \in Surjection(Positions(r), Q) BY <1>1 DEF QueuedPids, Surjection
<1>3. f \in Injection(Positions(r), Q) BY <1>1 DEF Fair, Injection, IsInjective
<1> HIDE DEF f, Q
<1>4. IsFiniteSet(Positions(r)) /\ Cardinality(Positions(r)) = r.count
  <2>1. r.count \in Nat /\ 0 \in Int /\ r.count - 1 \in Int BY FairCount
  <2>2. /\ IsFiniteSet(0 .. r.count - 1)
        /\ Cardinality(0 .. r.count - 1) = IF 0 > r.count - 1 THEN 0 ELSE r.count - 1 - 0 + 1
    BY <2>1, FS_Interval
  <2> QED BY <2>1, <2>2 DEF Positions
<1>5. IsFiniteSet(Q) /\ Cardinality(Q) = r.count BY <1>2, <1>3, <1>4, FS_Surjection
<1>6. Q \subseteq 2 .. MaxPid BY DEF Q, QueuedPids, Fair
<1> QED BY <1>5, <1>6 DEF Q

\* Processes that are not queued all find room.
LEMMA RoomForAll ==
  ASSUME MaxPid <= QueueSize + 1, NEW r, Fair(r), NEW new \in SUBSET (2 .. MaxPid),
         new \cap QueuedPids(r) = {}
  PROVE  IsFiniteSet(new) /\ Cardinality(new) \in Nat /\ r.count + Cardinality(new) <= QueueSize
<1> DEFINE Q == QueuedPids(r)
           P == 2 .. MaxPid
<1>1. IsFiniteSet(P) /\ Cardinality(P) = MaxPid - 1
  <2>1. IsFiniteSet(2 .. MaxPid)
        /\ Cardinality(2 .. MaxPid) = IF 2 > MaxPid THEN 0 ELSE MaxPid - 2 + 1
    BY PidRange, FS_Interval
  <2> QED BY <2>1, PidRange
<1>2. Q \subseteq P /\ IsFiniteSet(Q) /\ Cardinality(Q) = r.count BY QueueIs
<1> HIDE DEF Q, P
<1>3. IsFiniteSet(new) /\ Cardinality(new) \in Nat
  BY <1>1, FS_Subset, FS_CardinalityType DEF P
<1>4. Cardinality(Q \cup new) = Cardinality(Q) + Cardinality(new) - Cardinality(Q \cap new)
  BY <1>2, <1>3, FS_Union
<1>5. Q \cap new = {} BY DEF Q
<1>6. Cardinality(Q \cap new) = 0 BY <1>5, FS_EmptySet
<1>7. Q \cup new \in SUBSET P BY <1>2 DEF P
<1>8. Cardinality(Q \cup new) <= MaxPid - 1 BY <1>1, <1>7, FS_Subset
<1> QED BY <1>2, <1>3, <1>4, <1>6, <1>8, PidRange, FairCount

\* The number of members of s before p.
Rank(s, p) == Cardinality({q \in s : q < p})

LEMMA RankIs ==
  ASSUME NEW s \in SUBSET Nat, IsFiniteSet(s)
  PROVE  /\ \A p \in s : Rank(s, p) \in 0 .. Cardinality(s) - 1
         /\ \A p, q \in s : Rank(s, p) = Rank(s, q) => p = q
         /\ \A n \in 0 .. Cardinality(s) - 1 : \E p \in s : Rank(s, p) = n
<1> DEFINE below(p) == {q \in s : q < p}
           m == Cardinality(s)
           f == [p \in s |-> Rank(s, p)]
<1>1. m \in Nat BY FS_CardinalityType
<1>2. \A p \in s : IsFiniteSet(below(p)) /\ Rank(s, p) \in Nat
  <2> SUFFICES ASSUME NEW p \in s PROVE IsFiniteSet(below(p)) /\ Rank(s, p) \in Nat
    OBVIOUS
  <2>1. below(p) \in SUBSET s OBVIOUS
  <2>2. IsFiniteSet(below(p)) BY <2>1, FS_Subset
  <2> QED BY <2>2, FS_CardinalityType DEF Rank
<1>3. ASSUME NEW p \in s PROVE Rank(s, p) \in 0 .. m - 1
  <2>1. below(p) \in SUBSET s /\ p \notin below(p)
    <3>1. p \in Nat OBVIOUS
    <3> QED BY <3>1
  <2>2. Rank(s, p) <= m /\ Rank(s, p) # m BY <2>1, FS_Subset DEF Rank
  <2>3. Rank(s, p) \in Nat BY <1>2
  <2> HIDE DEF m
  <2> QED BY <2>3, <1>1, <1>2, <2>2
<1>4. ASSUME NEW p \in s, NEW q \in s, p < q PROVE Rank(s, p) # Rank(s, q)
  <2>1. below(p) \in SUBSET below(q)
    <3>1. p \in Nat /\ q \in Nat /\ \A x \in s : x \in Nat OBVIOUS
    <3>2. \A x \in s : x < p => x < q BY <1>4, <3>1
    <3> QED BY <3>2
  <2>2. p \in below(q) /\ p \notin below(p)
    <3>1. p \in Nat OBVIOUS
    <3> QED BY <1>4, <3>1
  <2>3. IsFiniteSet(below(q)) BY <1>2
  <2>4. Cardinality(below(q)) = Cardinality(below(p)) => below(q) = below(p)
    BY <2>1, <2>3, FS_Subset
  <2> QED BY <2>2, <2>4 DEF Rank
<1>5. \A p, q \in s : Rank(s, p) = Rank(s, q) => p = q
  <2>1. \A p \in s : p \in Nat OBVIOUS
  <2> QED BY <1>4, <2>1
<1>6. f \in Injection(s, 0 .. m - 1)
  BY <1>3, <1>5 DEF Injection, IsInjective
<1>7. IsFiniteSet(0 .. m - 1) /\ Cardinality(0 .. m - 1) = m
  <2> HIDE DEF m
  <2>1. 0 \in Int /\ m - 1 \in Int BY <1>1
  <2>2. /\ IsFiniteSet(0 .. m - 1)
        /\ Cardinality(0 .. m - 1) = IF 0 > m - 1 THEN 0 ELSE m - 1 - 0 + 1
    BY <2>1, FS_Interval
  <2> QED BY <1>1, <2>2
<1>8. f \in Surjection(s, 0 .. m - 1)
  BY <1>6, <1>7, FS_Injection
<1>9. ASSUME NEW n \in 0 .. m - 1 PROVE \E p \in s : Rank(s, p) = n
  <2>1. PICK p \in s : f[p] = n BY <1>8 DEF Surjection
  <2> QED BY <2>1
<1> QED BY <1>3, <1>5, <1>9

LEMMA PushIs ==
  ASSUME NEW r \in RingType, WellShaped(r), r.count < QueueSize, NEW e \in EntryType
  PROVE  /\ Push(r, e) \in RingType /\ WellShaped(Push(r, e))
         /\ Push(r, e).count = r.count + 1
         /\ EntryAt(Push(r, e), r.count) = e
         /\ \A k \in Positions(r) : EntryAt(Push(r, e), k) = EntryAt(r, k)
<1> DEFINE s == Push(r, e)
<1>1. s \in RingType /\ WellShaped(s) BY PushType, PushShape
<1>2. /\ s.count = r.count + 1 /\ s.head = r.head /\ s.slots = [r.slots EXCEPT ![r.tail] = e]
  BY DEF Push
<1>3. /\ r.slots \in [RingIdx -> EntryType] /\ r.tail \in RingIdx
      /\ r.tail = SlotAt(r, r.count)
      /\ r.count \in 0 .. QueueSize - 1 /\ r.head \in 0 .. QueueSize - 1
  BY PidRange DEF RingType, WellShaped, SlotAt, RingIdx
<1>4. \A k : SlotAt(s, k) = SlotAt(r, k) BY <1>2 DEF SlotAt
<1> HIDE DEF s
<1>5. EntryAt(s, r.count) = e BY <1>2, <1>3, <1>4 DEF EntryAt
<1>6. ASSUME NEW k \in Positions(r) PROVE EntryAt(s, k) = EntryAt(r, k)
  <2>1. k \in 0 .. QueueSize - 1 /\ k # r.count BY <1>3, PidRange DEF Positions
  <2>2. SlotAt(r, k) # r.tail
    BY <1>3, <2>1, ModDistinct, PidRange DEF SlotAt
  <2>3. SlotAt(r, k) \in RingIdx BY <2>1, SlotAtIdx
  <2> QED BY <1>2, <1>3, <1>4, <2>2, <2>3 DEF EntryAt
<1> QED BY <1>1, <1>2, <1>5, <1>6 DEF s

LEMMA FairPush ==
  ASSUME NEW r, Fair(r), r.count < QueueSize, NEW e \in EntryType,
         e.pid \in 2 .. MaxPid, e.prio = DefaultPrio, e.pid \notin QueuedPids(r)
  PROVE  /\ Fair(Push(r, e))
         /\ QueuedPids(Push(r, e)) = QueuedPids(r) \cup {e.pid}
         /\ Grows(r, Push(r, e))
<1> DEFINE s == Push(r, e)
<1>1. /\ s \in RingType /\ WellShaped(s) /\ s.count = r.count + 1
      /\ EntryAt(s, r.count) = e
      /\ \A k \in Positions(r) : EntryAt(s, k) = EntryAt(r, k)
  BY PushIs DEF Fair
<1> HIDE DEF s
<1>2. Positions(s) = Positions(r) \cup {r.count} /\ r.count \notin Positions(r)
  BY <1>1, FairCount DEF Positions
<1>3. \A k \in Positions(r) : EntryAt(r, k).pid # e.pid BY DEF QueuedPids
<1>4. Fair(s) BY <1>1, <1>2, <1>3 DEF Fair
<1>5. QueuedPids(s) = QueuedPids(r) \cup {e.pid} BY <1>1, <1>2 DEF QueuedPids
<1>6. Grows(r, s) BY <1>1, <1>2 DEF Grows
<1> QED BY <1>4, <1>5, <1>6 DEF s

\* flux_sched_enqueue never fails for want of room.
LEMMA FairEnqueue ==
  ASSUME MaxPid <= QueueSize + 1, NEW r, Fair(r), NEW pcbs \in TableType, NEW pid \in 2 .. MaxPid,
         Exists(pcbs, pid), pcbs[SlotOf(pid)].prio = DefaultPrio
  PROVE  /\ Fair(EnqueueRing(pcbs, r, pid))
         /\ QueuedPids(EnqueueRing(pcbs, r, pid)) = QueuedPids(r) \cup {pid}
         /\ Grows(r, EnqueueRing(pcbs, r, pid))
<1>1. CASE pid \in QueuedPids(r)
  BY <1>1 DEF EnqueueRing, CanEnqueue, Grows
<1>2. CASE pid \notin QueuedPids(r)
  <2> DEFINE e == EntryFor(pcbs[SlotOf(pid)], pid)
  <2>1. r.count < QueueSize
    <3>1. {pid} \in SUBSET (2 .. MaxPid) /\ {pid} \cap QueuedPids(r) = {} BY <1>2
    <3>2. r.count + Cardinality({pid}) <= QueueSize BY <3>1, RoomForAll
    <3>3. Cardinality({pid}) = 1 BY FS_Singleton
    <3>4. r.count \in Nat BY FairCount
    <3> QED BY <3>2, <3>3, <3>4, PidRange
  <2>2. EnqueueRing(pcbs, r, pid) = Push(r, e) BY <1>2, <2>1 DEF EnqueueRing, CanEnqueue
  <2>3. pid \in Nat /\ SlotOf(pid) \in Slots BY SlotOfIn
  <2>4. e \in EntryType BY <2>3, EntryForType DEF TableType
  <2>5. e.pid = pid /\ e.prio = DefaultPrio BY DEF EntryFor
  <2> HIDE DEF e
  <2> QED BY <1>2, <2>1, <2>2, <2>4, <2>5, FairPush
<1> QED BY <1>1, <1>2

LEMMA FairAged ==
  ASSUME NEW r, Fair(r)
  PROVE  /\ Fair(Aged(r)) /\ QueuedPids(Aged(r)) = QueuedPids(r)
         /\ Grows(r, Aged(r)) /\ Aged(r).count = r.count
<1> DEFINE s == Aged(r)
<1>1. r \in RingType /\ s \in RingType /\ WellShaped(s) /\ s.count = r.count
  BY AgedOk DEF Fair
<1>2. s.head = r.head /\ s.slots = [i \in RingIdx |->
        [r.slots[i] EXCEPT !.age = IF @ < AgeCap THEN @ + 1 ELSE AgeCap]]
  BY <1>1 DEF Aged, RingType
<1>3. \A i \in RingIdx : s.slots[i].pid = r.slots[i].pid /\ s.slots[i].prio = r.slots[i].prio
  BY <1>1, <1>2 DEF RingType, EntryType
<1> HIDE DEF s
<1>4. Positions(s) = Positions(r) BY <1>1 DEF Positions
<1>5. ASSUME NEW k \in Positions(r)
      PROVE  EntryAt(s, k).pid = EntryAt(r, k).pid /\ EntryAt(s, k).prio = EntryAt(r, k).prio
  <2>1. SlotAt(s, k) = SlotAt(r, k) BY <1>2 DEF SlotAt
  <2>2. k \in Nat BY DEF Positions
  <2>3. SlotAt(r, k) \in RingIdx BY <1>1, <2>2, SlotAtIdx
  <2> QED BY <1>3, <2>1, <2>3 DEF EntryAt
<1>6. Fair(s) BY <1>1, <1>4, <1>5 DEF Fair
<1>7. QueuedPids(s) = QueuedPids(r) BY <1>4, <1>5 DEF QueuedPids
<1>8. Grows(r, s) BY <1>4, <1>5 DEF Grows
<1> QED BY <1>1, <1>6, <1>7, <1>8 DEF s

\* Nobody is below the priority that aging gives.
LEMMA NobodyBoosted ==
  ASSUME BoostInterval = 0 \/ MaxBoost <= DefaultPrio, NEW r, Fair(r), NEW pcbs \in TableType
  PROVE  BoostRing(r) = r /\ BoostPcbs(pcbs, r) = pcbs
<1>1. CASE ~AgingDue BY <1>1 DEF BoostRing, BoostPcbs
<1>2. CASE AgingDue
  <2>1. MaxBoost <= DefaultPrio BY <1>2 DEF AgingDue
  <2>2. \A k \in Positions(r) : ~Boostable(EntryAt(r, k))
    BY <2>1, PidRange, SchedAssumption DEF Fair, Boostable
  <2>3. BoostRing(r) = r
    <3> DEFINE slots == [i \in RingIdx |->
                            IF i \in Occupied(r) THEN Boosted(r.slots[i]) ELSE r.slots[i]]
    <3>1. \A i \in Occupied(r) : Boosted(r.slots[i]) = r.slots[i]
      BY <2>2 DEF Occupied, Boosted, EntryAt
    <3>2. r.slots \in [RingIdx -> EntryType] BY DEF Fair, RingType
    <3>3. slots = r.slots BY <3>1, <3>2
    <3> HIDE DEF slots
    <3>4. [r EXCEPT !.slots = slots] = r BY <3>3 DEF Fair, RingType
    <3> QED BY <1>2, <3>4 DEF BoostRing, slots
  <2>4. \A i \in Slots : ~\E k \in Positions(r) : IsLastBoost(r, k, i)
    BY <2>2 DEF IsLastBoost, Boosts
  <2>5. BoostPcbs(pcbs, r) = [i \in Slots |-> pcbs[i]]
    BY <1>2, <2>4 DEF BoostPcbs
  <2> QED BY <2>3, <2>5 DEF TableType
<1> QED BY <1>1, <1>2

\* flux_sched_dequeue takes the head.
LEMMA FairTaken ==
  ASSUME NEW r, Fair(r), NEW k \in Positions(r), IsBest(r, k),
         NEW s, s = RemoveSlot(r, SlotAt(r, k))
  PROVE  /\ k = 0 /\ Fair(s)
         /\ QueuedPids(s) = QueuedPids(r) \ {EntryAt(r, k).pid}
         /\ \A j \in Positions(s) : j + 1 \in Positions(r) /\ EntryAt(s, j) = EntryAt(r, j + 1)
<1>1. /\ r.count \in 1 .. QueueSize /\ r.head \in 0 .. QueueSize - 1
      /\ k \in 0 .. r.count - 1 /\ 0 \in Positions(r)
  BY FairCount DEF Positions
<1>2. k = 0 BY <1>1, PidRange DEF IsBest, Fair
<1>3. SlotAt(r, 0) = r.head BY <1>1, ModSmall, PidRange DEF SlotAt
<1>4. s = [r EXCEPT !.head = (r.head + 1) % QueueSize, !.count = @ - 1]
  BY <1>2, <1>3 DEF RemoveSlot
<1>5. r \in RingType /\ r.head \in RingIdx /\ r.count > 0 /\ WellShaped(r)
  BY <1>1 DEF Fair, RingType
<1>6. s \in RingType /\ WellShaped(s)
  BY <1>2, <1>3, <1>5, RemoveSlotType, RemoveSlotShape
<1>7. s.head = (r.head + 1) % QueueSize /\ s.count = r.count - 1 /\ s.slots = r.slots
  BY <1>4, <1>5 DEF RingType
<1>8. ASSUME NEW j \in Positions(s)
      PROVE  j + 1 \in Positions(r) /\ EntryAt(s, j) = EntryAt(r, j + 1)
  <2>1. j \in 0 .. r.count - 2 /\ j + 1 \in 1 .. QueueSize
    BY <1>1, <1>7, PidRange DEF Positions
  <2>2. (((r.head + 1) % QueueSize) + ((j + 1) - 1)) % QueueSize = (r.head + (j + 1)) % QueueSize
    <3>1. r.head \in 0 .. QueueSize - 1 /\ QueueSize \in Nat \ {0} BY <1>1, PidRange
    <3> QED BY <2>1, <3>1, ModShift
  <2>3. (j + 1) - 1 = j BY <2>1
  <2>4. SlotAt(s, j) = SlotAt(r, j + 1) BY <1>7, <2>2, <2>3 DEF SlotAt
  <2> QED BY <1>1, <1>7, <2>1, <2>4 DEF Positions, EntryAt
<1>9. ASSUME NEW j \in Positions(r), j # 0
      PROVE  j - 1 \in Positions(s) /\ EntryAt(s, j - 1) = EntryAt(r, j)
  <2>1. j \in 1 .. r.count - 1 /\ (j - 1) + 1 = j BY <1>1, <1>9 DEF Positions
  <2>2. j - 1 \in Positions(s) BY <1>1, <1>7, <2>1 DEF Positions
  <2> QED BY <1>8, <2>1, <2>2
<1>10. ASSUME NEW i \in Positions(s), NEW j \in Positions(s),
              EntryAt(s, i).pid = EntryAt(s, j).pid
       PROVE  i = j
  <2>1. i + 1 = j + 1 BY <1>8, <1>10 DEF Fair
  <2>2. i \in Int /\ j \in Int BY DEF Positions
  <2> QED BY <2>1, <2>2
<1>11. Fair(s) BY <1>6, <1>8, <1>10 DEF Fair
<1>12. QueuedPids(s) \subseteq QueuedPids(r) \ {EntryAt(r, 0).pid}
  <2>1. ASSUME NEW j \in Positions(s) PROVE EntryAt(r, j + 1).pid # EntryAt(r, 0).pid
    <3>1. j + 1 # 0 BY DEF Positions
    <3> QED BY <1>1, <1>8, <3>1 DEF Fair
  <2> QED BY <1>8, <2>1 DEF QueuedPids
<1>13. QueuedPids(r) \ {EntryAt(r, 0).pid} \subseteq QueuedPids(s)
  BY <1>9 DEF QueuedPids
<1> QED BY <1>2, <1>8, <1>11, <1>12, <1>13

\* flux_a2a_broadcast pushes every agent it wakes.
LEMMA FairBroadcast ==
  ASSUME MaxPid <= QueueSize + 1, Fair(ring), NEW sender, NEW table, table = BroadcastPcb(sender),
         table \in TableType,
         BroadcastWoken(sender) \subseteq 2 .. MaxPid,
         \A p \in BroadcastWoken(sender) : table[SlotOf(p)].prio = DefaultPrio,
         BroadcastRing(sender) \in RingType, WellShaped(BroadcastRing(sender)),
         NEW s, s = BroadcastRing(sender)
  PROVE  /\ Fair(s) /\ Grows(ring, s)
         /\ QueuedPids(s) = QueuedPids(ring) \cup BroadcastWoken(sender)
<1> DEFINE new == BroadcastWoken(sender) \ QueuedPids(ring)
           added == {p \in new : ring.count + Rank(new, p) < QueueSize}
           place(p) == (ring.tail + Rank(new, p)) % QueueSize
           entry(p) == EntryFor(table[SlotOf(p)], p)
           m == Cardinality(new)
           c == ring.count
<1>1. /\ c \in 0 .. QueueSize /\ ring.head \in 0 .. QueueSize - 1
      /\ ring.tail = (ring.head + c) % QueueSize /\ QueueSize \in Nat \ {0}
      /\ ring \in RingType /\ ring.slots \in [RingIdx -> EntryType]
  BY FairCount, PidRange DEF Fair, WellShaped, RingType
<1>2. s = [slots |-> [i \in RingIdx |->
                        IF \E p \in added : place(p) = i
                        THEN LET p == CHOOSE p \in added : place(p) = i IN entry(p)
                        ELSE ring.slots[i]],
           head  |-> ring.head,
           tail  |-> (ring.tail + Cardinality(added)) % QueueSize,
           count |-> ring.count + Cardinality(added)]
  BY DEF BroadcastRing, Rank
<1>3. new \in SUBSET (2 .. MaxPid) /\ new \cap QueuedPids(ring) = {} OBVIOUS
<1>4. IsFiniteSet(new) /\ m \in Nat /\ c + m <= QueueSize BY <1>3, RoomForAll
<1>5. new \in SUBSET Nat /\ \A p \in new : p \in 2 .. MaxPid BY <1>3, PidRange
<1> HIDE DEF new
<1>6. /\ \A p \in new : Rank(new, p) \in 0 .. m - 1
      /\ \A p, q \in new : Rank(new, p) = Rank(new, q) => p = q
      /\ \A n \in 0 .. m - 1 : \E p \in new : Rank(new, p) = n
  BY <1>4, <1>5, RankIs
<1> HIDE DEF m, c
<1>7. added = new
  <2>1. ASSUME NEW p \in new PROVE c + Rank(new, p) < QueueSize
    <3>1. Rank(new, p) \in 0 .. m - 1 BY <1>6
    <3> QED BY <1>1, <1>4, <3>1
  <2> QED BY <2>1 DEF c
<1> HIDE DEF added
<1>8. s.count = c + m /\ s.head = ring.head BY <1>2, <1>7 DEF m, c
<1>9. \A k : SlotAt(s, k) = SlotAt(ring, k) BY <1>8 DEF SlotAt
\* A woken agent is as far behind the old end as there are others before it.
<1>10. ASSUME NEW p \in new
       PROVE  /\ c + Rank(new, p) \in c .. c + m - 1 /\ c + Rank(new, p) \in 0 .. QueueSize - 1
              /\ place(p) = SlotAt(ring, c + Rank(new, p))
  <2>1. Rank(new, p) \in 0 .. m - 1 BY <1>6
  <2>2. Rank(new, p) \in 0 .. QueueSize /\ c + Rank(new, p) <= QueueSize
        /\ c + Rank(new, p) \in c .. c + m - 1 /\ c + Rank(new, p) \in 0 .. QueueSize - 1
    BY <1>1, <1>4, <2>1
  <2>3. (((ring.head + c) % QueueSize) + Rank(new, p)) % QueueSize
           = (ring.head + (c + Rank(new, p))) % QueueSize
    BY <1>1, <2>2, ModGrow
  <2> QED BY <1>1, <2>2, <2>3 DEF SlotAt
<1> HIDE DEF place
<1>11. \A j, k \in 0 .. QueueSize - 1 : SlotAt(ring, j) = SlotAt(ring, k) => j = k
  BY <1>1, ModDistinct DEF SlotAt
<1>12. \A k \in Nat : SlotAt(ring, k) \in RingIdx BY <1>1, SlotAtIdx
\* Who was queued keeps its place.
<1>13. ASSUME NEW k \in Positions(ring)
       PROVE  k \in Positions(s) /\ EntryAt(s, k) = EntryAt(ring, k)
  <2>1. k \in 0 .. c - 1 /\ k \in 0 .. QueueSize - 1 BY <1>1 DEF Positions, c
  <2>2. ~\E p \in new : place(p) = SlotAt(ring, k)
    <3> SUFFICES ASSUME NEW p \in new, place(p) = SlotAt(ring, k) PROVE FALSE
      OBVIOUS
    <3>1. k = c + Rank(new, p) BY <1>10, <1>11, <2>1
    <3> QED BY <1>1, <1>10, <2>1, <3>1
  <2>3. s.slots[SlotAt(ring, k)] = ring.slots[SlotAt(ring, k)]
    BY <1>2, <1>7, <1>12, <2>1, <2>2
  <2>4. k \in Positions(s) BY <1>1, <1>4, <1>8, <2>1 DEF Positions
  <2> QED BY <1>9, <2>3, <2>4 DEF EntryAt
\* A woken agent's entry.
<1>14. ASSUME NEW p \in new
       PROVE  EntryAt(s, c + Rank(new, p)) = entry(p)
  <2>1. SlotAt(ring, c + Rank(new, p)) \in RingIdx /\ place(p) = SlotAt(ring, c + Rank(new, p))
    BY <1>10, <1>12
  <2>2. \A q \in new : place(q) = place(p) => q = p
    <3> SUFFICES ASSUME NEW q \in new, place(q) = place(p) PROVE q = p
      OBVIOUS
    <3>1. c + Rank(new, q) = c + Rank(new, p) BY <1>10, <1>11
    <3>2. Rank(new, q) \in Int /\ Rank(new, p) \in Int /\ c \in Int BY <1>1, <1>6
    <3>3. Rank(new, q) = Rank(new, p) BY <3>1, <3>2
    <3> QED BY <1>6, <3>3
  <2>3. (CHOOSE q \in new : place(q) = place(p)) = p BY <2>2
  <2> HIDE DEF entry
  <2>4. s.slots[place(p)] = entry(p) BY <1>2, <1>7, <2>1, <2>3
  <2> QED BY <1>9, <2>1, <2>4 DEF EntryAt
<1>15. ASSUME NEW k \in Positions(s), k \notin Positions(ring)
       PROVE  \E p \in new : k = c + Rank(new, p)
  <2>1. k \in c .. c + m - 1 BY <1>1, <1>4, <1>8, <1>15 DEF Positions, c
  <2>2. k - c \in 0 .. m - 1 BY <1>1, <1>4, <2>1
  <2>3. PICK p \in new : Rank(new, p) = k - c BY <1>6, <2>2
  <2>4. k = c + Rank(new, p) BY <1>1, <2>1, <2>3
  <2> QED BY <2>4
<1>16. \A p \in new : entry(p).pid = p /\ entry(p).prio = DefaultPrio
  BY DEF EntryFor, new
<1>17. \A p \in new : c + Rank(new, p) \in Positions(s)
  <2> SUFFICES ASSUME NEW p \in new PROVE c + Rank(new, p) \in Positions(s)
    OBVIOUS
  <2>1. c + Rank(new, p) \in c .. c + m - 1 BY <1>10
  <2> QED BY <1>1, <1>4, <1>8, <2>1 DEF Positions
<1>18. \A k \in Positions(ring) : EntryAt(ring, k).pid \notin new
  BY <1>3 DEF QueuedPids
<1> HIDE DEF entry
<1>19. Grows(ring, s) BY <1>13 DEF Grows
<1>20. QueuedPids(s) = QueuedPids(ring) \cup new
  <2>1. QueuedPids(ring) \subseteq QueuedPids(s) BY <1>13 DEF QueuedPids
  <2>2. new \subseteq QueuedPids(s) BY <1>14, <1>16, <1>17 DEF QueuedPids
  <2>3. ASSUME NEW k \in Positions(s)
        PROVE  EntryAt(s, k).pid \in QueuedPids(ring) \cup new
    <3>1. CASE k \in Positions(ring) BY <1>13, <3>1 DEF QueuedPids
    <3>2. CASE k \notin Positions(ring) BY <1>14, <1>15, <1>16, <3>2
    <3> QED BY <3>1, <3>2
  <2> QED BY <2>1, <2>2, <2>3 DEF QueuedPids
<1>21. \A k \in Positions(s) : EntryAt(s, k).pid \in 2 .. MaxPid /\ EntryAt(s, k).prio = DefaultPrio
  <2> SUFFICES ASSUME NEW k \in Positions(s)
               PROVE  EntryAt(s, k).pid \in 2 .. MaxPid /\ EntryAt(s, k).prio = DefaultPrio
    OBVIOUS
  <2>1. CASE k \in Positions(ring) BY <1>13, <2>1 DEF Fair
  <2>2. CASE k \notin Positions(ring) BY <1>5, <1>14, <1>15, <1>16, <2>2
  <2> QED BY <2>1, <2>2
<1>22. ASSUME NEW j \in Positions(s), NEW k \in Positions(s),
              EntryAt(s, j).pid = EntryAt(s, k).pid
       PROVE  j = k
  <2>1. \A i \in Positions(s) \ Positions(ring) :
           EntryAt(s, i).pid \in new /\ i = c + Rank(new, EntryAt(s, i).pid)
    BY <1>14, <1>15, <1>16
  <2>2. \A i \in Positions(ring) : EntryAt(s, i).pid = EntryAt(ring, i).pid BY <1>13
  <2> QED BY <1>18, <1>22, <2>1, <2>2 DEF Fair
<1>23. Fair(s) BY <1>21, <1>22 DEF Fair
<1> QED BY <1>19, <1>20, <1>23 DEF new
=============================================================================
