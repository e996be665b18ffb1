----------------------------- MODULE ReadyRing -----------------------------
(***************************************************************************)
(* The circular ready queue of kernel/sched.c: s_ready_queue with          *)
(* s_queue_head, s_queue_tail and s_queue_count, as a record, and the      *)
(* operations the scheduler performs on it.  Slots outside the occupied    *)
(* window keep what was last written to them, as the C array does.         *)
(*                                                                         *)
(* An entry carries the fields of sched_entry_t that decide something: its *)
(* pid, priority and time slice, and age, the ticks since wait_start       *)
(* (saturating just above the boost interval, the only threshold the code  *)
(* compares it with).                                                      *)
(***************************************************************************)
EXTENDS Integers

CONSTANT QueueSize      \* FLUX_SCHED_QUEUE_SIZE

ASSUME QueueSizeAssumption == QueueSize \in Nat \ {0}

RingIdx == 0 .. QueueSize - 1

EntryType == [pid: Nat, prio: Nat, age: Nat, slice: Nat]

RingType ==
    [slots: [RingIdx -> EntryType], head: RingIdx, tail: RingIdx,
     count: 0 .. QueueSize]

NoEntry == [pid |-> 0, prio |-> 0, age |-> 0, slice |-> 0]

EmptyRing == [slots |-> [i \in RingIdx |-> NoEntry],
              head |-> 0, tail |-> 0, count |-> 0]

\* The slot of the k-th oldest entry (k counts from 0), and that entry.
SlotAt(r, k) == (r.head + k) % QueueSize
EntryAt(r, k) == r.slots[SlotAt(r, k)]

Positions(r) == 0 .. r.count - 1
QueuedPids(r) == {EntryAt(r, k).pid : k \in Positions(r)}

\* The occupied window ends at the tail.
WellShaped(r) == r.tail = (r.head + r.count) % QueueSize

\* What a ring stands for: its entries, oldest first.
RingSeq(r) == [k \in 1 .. r.count |-> EntryAt(r, k - 1)]

\* Variant: the tail does not come around.
PushNoWrap(r, e) == [slots |-> [r.slots EXCEPT ![r.tail] = e],
                     head  |-> r.head,
                     tail  |-> r.tail + 1,
                     count |-> r.count + 1]

Push(r, e) == [slots |-> [r.slots EXCEPT ![r.tail] = e],
               head  |-> r.head,
               tail  |-> (r.tail + 1) % QueueSize,
               count |-> r.count + 1]

\* A tie is not first-come first-served in this variant.
IsBestLastOfTies(r, k) ==
    \A j \in Positions(r) :
        \/ EntryAt(r, j).prio < EntryAt(r, k).prio
        \/ EntryAt(r, j).prio = EntryAt(r, k).prio /\ j <= k

\* sched_find_highest_priority: entry k is the first one of the highest
\* priority.
IsBest(r, k) ==
    \A j \in Positions(r) :
        \/ EntryAt(r, j).prio < EntryAt(r, k).prio
        \/ EntryAt(r, j).prio = EntryAt(r, k).prio /\ k <= j

\* The length of the shift that closes the gap at slot b.  The subtraction
\* is on raw slot numbers, so it is too long by QueueSize when b lies in the
\* part of the window that wrapped around (b < head).
ShiftLength(r, b) == r.count - (b - r.head + 1)

\* Variant: the shift as if it never came around the array.
ShiftedOneLap(slots, b, n) ==
    LET From(d) == slots[(b + d) % QueueSize]
    IN  [i \in RingIdx |->
            LET j == (i - b) % QueueSize
            IN  IF j >= n THEN slots[i] ELSE From(j + 1)]

\* The slots after dst = src copies b+1 -> b, b+2 -> b+1, ... done n times in
\* place.  A slot at distance j from b is rewritten on the first lap when
\* j < n and again on the second when j + QueueSize < n; the last slot of
\* the first lap reads slot b, which that lap has already overwritten.
Shifted(slots, b, n) ==
    LET From(d) == slots[(b + d) % QueueSize]
    IN  [i \in RingIdx |->
            LET j == (i - b) % QueueSize
            IN  IF j + QueueSize < n THEN From(j + 2)
                ELSE IF j >= n THEN slots[i]
                ELSE IF j = QueueSize - 1 THEN From(1)
                ELSE From(j + 1)]

\* The head advances without looking at which entry was chosen.
RemoveHeadOnly(r, b) == [r EXCEPT !.head = (r.head + 1) % QueueSize, !.count = @ - 1]

\* The removal in flux_sched_dequeue of the entry in slot b.
RemoveSlot(r, b) ==
    IF b = r.head
    THEN [r EXCEPT !.head = (r.head + 1) % QueueSize, !.count = @ - 1]
    ELSE [r EXCEPT !.slots = Shifted(r.slots, b, ShiftLength(r, b)),
                   !.tail  = (r.tail - 1) % QueueSize,
                   !.count = @ - 1]
=============================================================================
