-------------------------- MODULE ComponentProofs --------------------------
(***************************************************************************)
(* Proofs about the components that stand alone.  The inbox buffer of      *)
(* ipc.c implements the mailbox, for every depth and every set of          *)
(* messages; the kernel log's ring shows the last messages, for every size *)
(* and every number of messages; the hosted hardware layer hands out pages *)
(* that are apart, for every size of memory and of pages, all drivers and  *)
(* all requests, and keeps its device list sound, for every limit and all  *)
(* names.                                                                  *)
(***************************************************************************)
EXTENDS InboxRing, LogRing, Hal, SequenceLemmas, FiniteSetTheorems, TLAPS

-----------------------------------------------------------------------------
(* The inbox buffer.                                                       *)

LEMMA ModSmall == \A d \in Nat \ {0} : \A i \in 0 .. d - 1 : i % d = i
  OBVIOUS

LEMMA ModFull == \A d \in Nat \ {0} : d % d = 0
  OBVIOUS

LEMMA ModMinus == \A d \in Nat \ {0} : (0 - 1) % d = d - 1
  OBVIOUS

\* A message in the window is found in the slot of its rank, since the head
\* of the buffer never moves.
LEMMA AtSlot ==
  ASSUME RingInv, NEW i \in 0 .. Depth - 1
  PROVE  At(i) = messages[i]
<1>1. head = 0 BY DEF RingInv
<1>2. (0 + i) % Depth = i BY ModSmall, DepthAssumption
<1> QED BY <1>1, <1>2 DEF At

LEMMA InitInv == Init => RingInv
<1> SUFFICES ASSUME Init PROVE RingInv
  OBVIOUS
<1>1. 0 % Depth = 0 BY ModSmall, DepthAssumption
<1> QED BY <1>1, DepthAssumption DEF Init, RingInv, Idx

\* What ipc_enqueue_message does to the window.
LEMMA EnqueueStep ==
  ASSUME RingInv, NEW m \in Messages, Enqueue(m)
  PROVE  /\ RingInv'
         /\ messages'[count] = m
         /\ \A j \in 0 .. count - 1 : messages'[j] = messages[j]
<1>1. count \in 0 .. Depth - 1
  BY DepthAssumption DEF RingInv, Enqueue, HasRoom
<1>2. tail = count
  BY <1>1, ModSmall, DepthAssumption DEF RingInv
<1>3. tail' = (count + 1) % Depth /\ count' = count + 1 /\ head' = 0
  BY <1>2 DEF Enqueue, RingInv
<1>4. /\ messages' \in [Idx -> Messages \cup {None}]
      /\ messages'[count] = m
      /\ \A j \in 0 .. count - 1 : messages'[j] = messages[j]
  BY <1>1, <1>2, DepthAssumption DEF Enqueue, RingInv, Idx
<1>5. \A i \in 0 .. count' - 1 : messages'[i] \in Messages
  BY <1>1, <1>3, <1>4 DEF RingInv
<1>6. count' \in 0 .. Depth
  BY <1>1, <1>3, DepthAssumption
<1> QED BY <1>3, <1>4, <1>5, <1>6 DEF RingInv

\* What ipc_remove_message does to the window: the messages before the gap
\* stay, the later ones move up by one.
LEMMA RemoveStep ==
  ASSUME RingInv, NEW i \in 0 .. count - 1, RemoveMessage(i)
  PROVE  /\ RingInv'
         /\ count' = count - 1
         /\ \A j \in 0 .. count - 2 :
               messages'[j] = IF j < i THEN messages[j] ELSE messages[j + 1]
<1>1. count \in 1 .. Depth /\ head = 0
  BY DepthAssumption DEF RingInv
<1>2. count' = count - 1 /\ head' = 0
  BY <1>1 DEF RemoveMessage
<1>3. \A s \in Idx : (s - head) % Depth = s
  BY <1>1, ModSmall, DepthAssumption DEF Idx
<1>4. ASSUME NEW s \in Idx
      PROVE  messages'[s] = IF i <= s /\ s < count - 1 THEN messages[s + 1] ELSE messages[s]
  <2>1. messages'[s] = IF i <= s /\ s < count - 1 THEN At(s + 1) ELSE messages[s]
    BY <1>3 DEF RemoveMessage, ShiftedFrom
  <2>2. CASE s < count - 1
    <3>1. s + 1 \in 0 .. Depth - 1 BY <1>1, <2>2, DepthAssumption DEF Idx
    <3> QED BY <2>1, <3>1, AtSlot
  <2>3. CASE ~(s < count - 1)
    BY <2>1, <2>3
  <2> QED BY <2>2, <2>3
<1>5. \A j \in 0 .. count - 2 :
         messages'[j] = IF j < i THEN messages[j] ELSE messages[j + 1]
  BY <1>1, <1>4, DepthAssumption DEF Idx
<1>6. messages' \in [Idx -> Messages \cup {None}]
  <2>1. messages' = [s \in Idx |-> messages'[s]]
    BY DEF RemoveMessage, ShiftedFrom
  <2>2. \A s \in Idx : messages'[s] \in Messages \cup {None}
    BY <1>1, <1>4, DepthAssumption DEF RingInv, Idx
  <2> QED BY <2>1, <2>2
<1>7. \A j \in 0 .. count' - 1 : messages'[j] \in Messages
  BY <1>1, <1>2, <1>5, DepthAssumption DEF RingInv
<1>8. tail' = count' % Depth
  <2>1. CASE count = Depth
    <3>1. tail = 0 BY <2>1, ModFull, DepthAssumption DEF RingInv
    <3>2. tail' = Depth - 1 BY <3>1, ModMinus, DepthAssumption DEF RemoveMessage
    <3> QED BY <1>2, <2>1, <3>2, ModSmall, DepthAssumption
  <2>2. CASE count # Depth
    <3>1. tail = count BY <1>1, <2>2, ModSmall, DepthAssumption DEF RingInv
    <3> QED BY <1>2, <3>1 DEF RemoveMessage
  <2> QED BY <2>1, <2>2
<1> QED BY <1>1, <1>2, <1>5, <1>6, <1>7, <1>8, DepthAssumption DEF RingInv

LEMMA RingInvariant == Spec => []RingInv
<1>1. Init => RingInv
  BY InitInv
<1>2. RingInv /\ [Next]_vars => RingInv'
  <2> SUFFICES ASSUME RingInv, [Next]_vars PROVE RingInv'
    OBVIOUS
  <2>1. CASE \E m \in Messages : Enqueue(m)
    BY <2>1, EnqueueStep
  <2>2. CASE RecvAny
    <3>1. 0 \in 0 .. count - 1 BY <2>2, DepthAssumption DEF RecvAny, RingInv
    <3> QED BY <2>2, <3>1, RemoveStep DEF RecvAny
  <2>3. CASE \E sender \in Senders : RecvFrom(sender)
    BY <2>3, RemoveStep DEF RecvFrom
  <2>4. CASE UNCHANGED vars
    BY <2>4 DEF vars, RingInv
  <2> QED BY <2>1, <2>2, <2>3, <2>4 DEF Next
<1> QED BY <1>1, <1>2, PTL DEF Spec

\* The sequence the buffer stands for, before and after a step.
LEMMA MailNow ==
  ASSUME RingInv
  PROVE  /\ mailOf = [k \in 1 .. count |-> messages[k - 1]]
         /\ mailOf \in Seq(Messages)
         /\ Len(mailOf) = count
<1>1. count \in 0 .. Depth /\ count \in Nat BY DepthAssumption DEF RingInv
<1>2. \A k \in 1 .. count : At(k - 1) = messages[k - 1] /\ messages[k - 1] \in Messages
  <2> TAKE k \in 1 .. count
  <2>1. k - 1 \in 0 .. Depth - 1 /\ k - 1 \in 0 .. count - 1
    BY <1>1, DepthAssumption
  <2> QED BY <2>1, AtSlot DEF RingInv
<1>3. mailOf = [k \in 1 .. count |-> messages[k - 1]]
  BY <1>2 DEF mailOf
<1>4. mailOf \in Seq(Messages)
  BY <1>1, <1>2, <1>3
<1> QED BY <1>1, <1>3, <1>4

LEMMA MailNext ==
  ASSUME RingInv'
  PROVE  mailOf' = [k \in 1 .. count' |-> messages'[k - 1]]
<1>1. count' \in 0 .. Depth /\ head' = 0 BY DepthAssumption DEF RingInv
<1>2. \A k \in 1 .. count' : At(k - 1)' = messages'[k - 1]
  <2> TAKE k \in 1 .. count'
  <2>1. k - 1 \in 0 .. Depth - 1 BY <1>1, DepthAssumption
  <2>2. (0 + (k - 1)) % Depth = k - 1 BY <2>1, ModSmall, DepthAssumption
  <2> QED BY <1>1, <2>2 DEF At
<1> QED BY <1>2 DEF mailOf

\* Enqueueing delivers.
LEMMA EnqueueDelivers ==
  ASSUME RingInv, NEW m \in Messages, Enqueue(m)
  PROVE  MB!Deliver(m)
<1>1. count \in 0 .. Depth - 1 /\ count' = count + 1
  BY DepthAssumption DEF RingInv, Enqueue, HasRoom
<1>2. mailOf' = [k \in 1 .. count + 1 |-> messages'[k - 1]]
  BY <1>1, EnqueueStep, MailNext
<1>3. \A k \in 1 .. count + 1 :
         messages'[k - 1] = IF k <= count THEN mailOf[k] ELSE m
  <2> TAKE k \in 1 .. count + 1
  <2>1. CASE k <= count
    <3>1. k - 1 \in 0 .. count - 1 /\ k \in 1 .. count BY <1>1, <2>1
    <3> QED BY <2>1, <3>1, EnqueueStep, MailNow
  <2>2. CASE ~(k <= count)
    <3>1. k - 1 = count BY <1>1, <2>2
    <3> QED BY <2>2, <3>1, EnqueueStep
  <2> QED BY <2>1, <2>2
<1>4. mailOf' = Append(mailOf, m)
  <2> DEFINE after == Append(mailOf, m)
  <2>1. /\ after \in Seq(Messages)
        /\ Len(after) = count + 1
        /\ \A k \in 1 .. count : after[k] = mailOf[k]
        /\ after[count + 1] = m
    BY MailNow, AppendProperties
  <2>2. mailOf' \in Seq(Messages) /\ Len(mailOf') = count + 1
    <3>1. \A k \in 1 .. count + 1 : messages'[k - 1] \in Messages
      BY <1>1, EnqueueStep DEF RingInv
    <3>2. count + 1 \in Nat BY <1>1
    <3> QED BY <1>2, <3>1, <3>2
  <2>3. \A k \in 1 .. count + 1 : mailOf'[k] = after[k]
    BY <1>1, <1>2, <1>3, <2>1
  <2> QED BY <2>1, <2>2, <2>3, SeqEqual
<1> QED BY <1>1, <1>4, MailNow, DepthAssumption DEF MB!Deliver

\* Removing the message of rank i takes message i + 1 out of the mailbox.
LEMMA RemoveTakes ==
  ASSUME RingInv, NEW i \in 0 .. count - 1, RemoveMessage(i)
  PROVE  mailOf' = MB!Without(i + 1)
<1>1. count \in 1 .. Depth /\ count' = count - 1
  BY RemoveStep, DepthAssumption DEF RingInv
<1>2. mailOf' = [k \in 1 .. count - 1 |-> messages'[k - 1]]
  BY <1>1, RemoveStep, MailNext
<1>3. ASSUME NEW k \in 1 .. count - 1
      PROVE  messages'[k - 1] = IF k < i + 1 THEN mailOf[k] ELSE mailOf[k + 1]
  <2>1. /\ k - 1 \in 0 .. count - 2
        /\ k \in 1 .. count /\ k + 1 \in 1 .. count
        /\ k - 1 < i <=> k < i + 1
        /\ (k - 1) + 1 = (k + 1) - 1
    BY <1>1
  <2>2. messages'[k - 1] = IF k - 1 < i THEN messages[k - 1] ELSE messages[(k - 1) + 1]
    BY <2>1, RemoveStep
  <2>3. mailOf[k] = messages[k - 1] /\ mailOf[k + 1] = messages[(k + 1) - 1]
    BY <2>1, MailNow
  <2> QED BY <2>1, <2>2, <2>3
<1>4. MB!Without(i + 1) =
         [k \in 1 .. count - 1 |-> IF k < i + 1 THEN mailOf[k] ELSE mailOf[k + 1]]
  BY MailNow DEF MB!Without
<1> QED BY <1>2, <1>3, <1>4

\* The buffer of ipc.c implements the mailbox: whatever is sent and received,
\* filtered or not, no message is lost, repeated or reordered
\* (ipc_enqueue_message, ipc_peek_message, ipc_remove_message).
THEOREM BufferImplementsMailbox == Spec => Implements
<1>1. Init => MB!Init
  <2> SUFFICES ASSUME Init PROVE mailOf = << >>
    BY DEF MB!Init
  <2>1. count = 0 /\ RingInv BY InitInv DEF Init
  <2> QED BY <2>1, MailNow
<1>2. RingInv /\ [Next]_vars => [MB!Next]_mailOf
  <2> SUFFICES ASSUME RingInv, [Next]_vars
               PROVE  MB!Next \/ UNCHANGED mailOf
    OBVIOUS
  <2>1. CASE \E m \in Messages : Enqueue(m)
    BY <2>1, EnqueueDelivers DEF MB!Next
  <2>2. CASE RecvAny
    <3>1. count > 0 /\ 0 \in 0 .. count - 1 /\ RemoveMessage(0)
      BY <2>2, DepthAssumption DEF RecvAny, RingInv
    <3>2. mailOf' = MB!Without(1) /\ Len(mailOf) > 0
      BY <3>1, RemoveTakes, MailNow
    <3> QED BY <3>2 DEF MB!Next, MB!TakeOldest
  <2>3. CASE \E sender \in Senders : RecvFrom(sender)
    <3>1. PICK sender \in Senders : RecvFrom(sender)
      BY <2>3
    <3>2. PICK i \in 0 .. count - 1 :
             /\ At(i).from = sender
             /\ \A j \in 0 .. i - 1 : At(j).from # sender
             /\ RemoveMessage(i)
      BY <3>1 DEF RecvFrom
    <3>3. count \in Nat /\ i + 1 \in 1 .. Len(mailOf)
      <4>1. count \in Nat BY DepthAssumption DEF RingInv
      <4>2. Len(mailOf) = count BY MailNow
      <4> QED BY <4>1, <4>2
    <3>4. \A k \in 1 .. count : mailOf[k] = At(k - 1)
      BY DEF mailOf
    <3>5. mailOf[i + 1].from = sender
      BY <3>2, <3>3, <3>4, MailNow
    <3>6. \A k \in 1 .. (i + 1) - 1 : mailOf[k].from # sender
      <4> TAKE k \in 1 .. (i + 1) - 1
      <4>1. k - 1 \in 0 .. i - 1 /\ k \in 1 .. count BY <3>3
      <4> QED BY <3>2, <3>4, <4>1
    <3>7. mailOf' = MB!Without(i + 1)
      BY <3>2, RemoveTakes
    <3>8. MB!TakeFrom(sender)
      BY <3>3, <3>5, <3>6, <3>7 DEF MB!TakeFrom
    <3> QED BY <3>8 DEF MB!Next, MB!Sender, Senders
  <2>4. CASE UNCHANGED vars
    BY <2>4 DEF vars, mailOf, At
  <2> QED BY <2>1, <2>2, <2>3, <2>4 DEF Next
<1> QED BY <1>1, <1>2, RingInvariant, PTL DEF Spec, Implements, MB!Spec

----------------------------------------------------------------------------
(* The kernel log: arithmetic of a ring of n slots.                         *)

LEMMA SlotIn == \A n \in Nat \ {0} : \A i \in Int : i % n \in 0 .. n - 1
  OBVIOUS

LEMMA SlotAround == \A n \in Nat \ {0} : \A h \in 0 .. n - 1 :
    n % n = 0 /\ (h + n) % n = h
  OBVIOUS

\* The k-th slot from the slot after h is the one behind the k-th from h.
LEMMA SlotAfter ==
  \A n \in Nat \ {0} : \A h \in 0 .. n - 1, k \in 0 .. n :
     (((h + 1) % n) + k) % n = (h + (k + 1)) % n
  OBVIOUS

\* Going round the ring one comes back to h after n slots and not before.
LEMMA SlotOther ==
  \A n \in Nat \ {0} : \A h \in 0 .. n - 1, k \in 1 .. n - 1 : (h + k) % n # h
  OBVIOUS

----------------------------------------------------------------------------
(* The inductive invariant: before the ring is full the messages lie at its *)
(* start, in order; from then on the oldest of the last LogSize messages is *)
(* at the head.                                                             *)

LogTypes ==
    /\ logRing \in [LogSlots -> Entry]
    /\ written \in Seq(Entry)
    /\ logCount = Len(written)
    /\ logHead \in LogSlots

LogOrder ==
    /\ logCount < LogSize =>
         /\ logHead = logCount
         /\ \A i \in 0 .. logCount - 1 : logRing[i] = written[i + 1]
    /\ logCount >= LogSize =>
         \A k \in 0 .. LogSize - 1 :
            logRing[(logHead + k) % LogSize] = written[logCount - LogSize + k + 1]

LogInv == LogTypes /\ LogOrder

\* flux_log_record.
LEMMA RecordKeeps ==
    ASSUME LogInv, NEW entry \in Entry, Record(entry)
    PROVE  LogInv'
  <1> DEFINE n == LogSize
             h == logHead
  <1>1. n \in Nat \ {0} BY LogAssumption
  <1>2. /\ logRing' = [logRing EXCEPT ![h] = entry]
        /\ logHead' = (h + 1) % n
        /\ logCount' = logCount + 1
        /\ written' = Append(written, entry)
    BY DEF Record, NextHead
  <1>3. h \in 0 .. n - 1 /\ logCount \in Nat /\ logCount = Len(written)
    BY DEF LogInv, LogTypes, LogSlots
  <1>4. /\ written' \in Seq(Entry) /\ Len(written') = logCount + 1
        /\ \A i \in 1 .. logCount : written'[i] = written[i]
        /\ written'[logCount + 1] = entry
    BY <1>2, <1>3 DEF LogInv, LogTypes
  <1>5. /\ logRing' \in [LogSlots -> Entry]
        /\ logRing'[h] = entry
        /\ \A i \in 0 .. n - 1 : i # h => logRing'[i] = logRing[i]
    BY <1>2, <1>3 DEF LogInv, LogTypes, LogSlots
  <1>6. LogTypes'
    <2>1. logHead' \in 0 .. n - 1 BY <1>1, <1>2, <1>3, SlotIn
    <2> QED BY <1>2, <1>4, <1>5, <2>1 DEF LogTypes, LogSlots
  <1>7. CASE logCount + 1 < n
    <2>1. /\ h = logCount
          /\ \A i \in 0 .. logCount - 1 : logRing[i] = written[i + 1]
      BY <1>1, <1>3, <1>7 DEF LogInv, LogOrder
    <2>2. logHead' = logCount + 1 BY <1>1, <1>2, <1>3, <1>7, <2>1, ModSmall
    <2>3. \A i \in 0 .. logCount : logRing'[i] = written'[i + 1]
      BY <1>1, <1>3, <1>4, <1>5, <1>7, <2>1
    <2>4. /\ logCount' < LogSize /\ ~(logCount' >= LogSize)
          /\ logHead' = logCount'
          /\ logCount' - 1 = logCount
      BY <1>1, <1>2, <1>3, <1>7, <2>2
    <2>5. LogOrder' BY <2>3, <2>4 DEF LogOrder
    <2> QED BY <1>6, <2>5 DEF LogInv
  <1>8. CASE logCount + 1 = n
    <2>1. /\ h = logCount
          /\ \A i \in 0 .. logCount - 1 : logRing[i] = written[i + 1]
      BY <1>1, <1>3, <1>8 DEF LogInv, LogOrder
    <2>2. logHead' = 0 BY <1>1, <1>2, <1>8, <2>1, SlotAround
    <2>3. \A i \in 0 .. n - 1 : logRing'[i] = written'[i + 1]
      BY <1>1, <1>3, <1>4, <1>5, <1>8, <2>1
    <2>4. \A k \in 0 .. n - 1 : (0 + k) % n = k BY <1>1, ModSmall
    <2>5. \A k \in 0 .. n - 1 :
             logRing'[(logHead' + k) % n] = written'[logCount' - n + k + 1]
      <3> TAKE k \in 0 .. n - 1
      <3>1. (logHead' + k) % n = k BY <2>2, <2>4
      <3>2. logCount' - n + k + 1 = k + 1 BY <1>1, <1>2, <1>8
      <3> QED BY <2>3, <3>1, <3>2
    <2>6. ~(logCount' < LogSize) BY <1>1, <1>2, <1>3, <1>8
    <2>7. LogOrder' BY <2>5, <2>6 DEF LogOrder
    <2> QED BY <1>6, <2>7 DEF LogInv
  <1>9. CASE logCount >= n
    <2>1. \A k \in 0 .. n - 1 :
             logRing[(h + k) % n] = written[logCount - n + k + 1]
      BY <1>9 DEF LogInv, LogOrder
    <2>2. ASSUME NEW k \in 0 .. n - 1
          PROVE  logRing'[(logHead' + k) % n] = written'[logCount' - n + k + 1]
      <3>1. (logHead' + k) % n = (h + (k + 1)) % n
        BY <1>1, <1>2, <1>3, SlotAfter
      <3>2. logCount' - n + k + 1 = logCount - n + (k + 1) + 1
        BY <1>1, <1>2, <1>3
      <3>3. CASE k = n - 1
        <4>1. (h + (k + 1)) % n = h BY <1>1, <1>3, <3>3, SlotAround
        <4>2. logCount - n + (k + 1) + 1 = logCount + 1 BY <1>1, <1>3, <3>3
        <4> QED BY <1>4, <1>5, <3>1, <3>2, <4>1, <4>2
      <3>4. CASE k # n - 1
        <4>1. k + 1 \in 1 .. n - 1 BY <1>1, <3>4
        <4>2. (h + (k + 1)) % n # h BY <1>1, <1>3, <4>1, SlotOther
        <4>3. (h + (k + 1)) % n \in 0 .. n - 1 BY <1>1, <1>3, SlotIn
        <4>4. logCount - n + (k + 1) + 1 \in 1 .. logCount
          BY <1>1, <1>3, <1>9, <4>1
        <4>5. logRing[(h + (k + 1)) % n] = written[logCount - n + (k + 1) + 1]
          BY <1>1, <2>1, <4>1
        <4> QED BY <1>4, <1>5, <3>1, <3>2, <4>2, <4>3, <4>4, <4>5
      <3> QED BY <3>3, <3>4
    <2>3. ~(logCount' < LogSize) BY <1>1, <1>2, <1>3, <1>9
    <2>4. LogOrder' BY <2>2, <2>3 DEF LogOrder
    <2> QED BY <1>6, <2>4 DEF LogInv
  <1> QED BY <1>1, <1>3, <1>7, <1>8, <1>9

\* flux_log_init: the ring is empty, or holds the greeting alone.
LEMMA ClearedKeeps ==
    ASSUME LogInitAgain
    PROVE  LogInv'
  <1>1. LogSize \in Nat \ {0} BY LogAssumption
  <1>2. Greeting \in Entry /\ ClearedEntry \in Entry
    BY DEF Greeting, ClearedEntry, Entry, LogLevels, INFO, ERROR, DEBUG
  <1>3. logRing' = [i \in LogSlots |-> ClearedEntry] BY DEF LogInitAgain
  <1>4. logRing' \in [LogSlots -> Entry] BY <1>2, <1>3
  <1>5. 0 \in LogSlots BY <1>1 DEF LogSlots
  <1>6. CASE INFO > minLevel
    <2>1. written' = << >> /\ logCount' = 0 /\ logHead' = 0
      BY <1>6 DEF LogInitAgain
    <2>2. LogTypes' BY <1>4, <1>5, <2>1 DEF LogTypes
    <2>3. LogOrder' BY <1>1, <2>1 DEF LogOrder
    <2> QED BY <2>2, <2>3 DEF LogInv
  <1>7. CASE ~(INFO > minLevel)
    <2>1. written' = << Greeting >> /\ logCount' = 1 /\ logHead' = (0 + 1) % LogSize
      BY <1>7 DEF LogInitAgain, NextHead
    <2>2. logHead' \in LogSlots BY <1>1, <2>1, SlotIn DEF LogSlots
    <2>3. LogTypes' BY <1>2, <1>4, <2>1, <2>2 DEF LogTypes
    <2>4. logRing'[0] = written'[1] BY <1>3, <1>5, <2>1 DEF ClearedEntry
    <2>5. CASE LogSize = 1
      <3>1. \A k \in 0 .. 0 : (logHead' + k) % LogSize = 0
        BY <2>1, <2>5
      <3>2. \A k \in 0 .. LogSize - 1 :
              logRing'[(logHead' + k) % LogSize] = written'[logCount' - LogSize + k + 1]
        BY <2>1, <2>4, <2>5, <3>1
      <3>3. LogOrder' BY <2>1, <2>5, <3>2 DEF LogOrder
      <3> QED BY <2>3, <3>3 DEF LogInv
    <2>6. CASE LogSize # 1
      <3>1. logHead' = 1 BY <1>1, <2>1, <2>6, ModSmall
      <3>2. LogOrder' BY <1>1, <2>1, <2>4, <2>6, <3>1 DEF LogOrder
      <3> QED BY <2>3, <3>2 DEF LogInv
    <2> QED BY <2>5, <2>6
  <1> QED BY <1>6, <1>7

LEMMA LogInvNext ==
    ASSUME LogInv, [LogNext]_logVars
    PROVE  LogInv'
  <1>1. ASSUME UNCHANGED <<logRing, logHead, logCount, written>> PROVE LogInv'
    BY <1>1 DEF LogInv, LogTypes, LogOrder
  <1>2. ASSUME NEW level \in LogLevels, NEW text \in Texts \cup {Hello}, Log(level, text)
        PROVE  LogInv'
    <2>1. [level |-> level, text |-> text] \in Entry BY DEF Entry
    <2> QED BY <1>1, <1>2, <2>1, RecordKeeps DEF Log
  <1>3. INFO \in LogLevels BY DEF INFO, LogLevels, ERROR, DEBUG
  <1>4. CASE LogNext
    BY <1>1, <1>2, <1>3, <1>4, ClearedKeeps DEF LogNext, SetLevel
  <1>5. CASE UNCHANGED logVars BY <1>1, <1>5 DEF logVars
  <1> QED BY <1>4, <1>5

----------------------------------------------------------------------------
(* What the readers see.                                                    *)

\* flux_log_dump_ring of the whole ring.
LEMMA DumpIsRecent ==
    ASSUME LogInv
    PROVE  Dump(LogSize) = Recent(LogSize)
  <1> DEFINE n == LogSize
  <1>1. n \in Nat \ {0} BY LogAssumption
  <1>2. /\ logCount \in Nat /\ logCount = Len(written) /\ written \in Seq(Entry)
        /\ logHead \in 0 .. n - 1
    BY DEF LogInv, LogTypes, LogSlots
  <1>3. CASE logCount < n
    <2>1. \A i \in 0 .. logCount - 1 : logRing[i] = written[i + 1]
      BY <1>3 DEF LogInv, LogOrder
    <2>2. Dump(n) = [i \in 1 .. logCount |-> logRing[(0 + i - 1) % n]]
      BY <1>1, <1>2, <1>3 DEF Dump, RingFull, DumpStart
    <2>3. \A i \in 1 .. logCount : (0 + i - 1) % n = i - 1
      BY <1>1, <1>2, <1>3, ModSmall
    <2>4. Dump(n) = [i \in 1 .. logCount |-> written[i]]
      BY <1>2, <2>1, <2>2, <2>3
    <2>5. Recent(n) = [i \in 1 .. logCount |-> written[i]]
      <3>1. (IF n < logCount THEN n ELSE logCount) = logCount BY <1>1, <1>2, <1>3
      <3>2. Recent(n) = SubSeq(written, logCount - logCount + 1, logCount)
        BY <1>2, <3>1 DEF Recent
      <3>3. logCount - logCount + 1 = 1 BY <1>2
      <3>4. SubSeq(written, 1, logCount) = [i \in 1 .. logCount |-> written[i]]
        BY <1>2
      <3> QED BY <3>2, <3>3, <3>4
    <2> QED BY <2>4, <2>5
  <1>4. CASE logCount >= n
    <2>1. \A k \in 0 .. n - 1 :
             logRing[(logHead + k) % n] = written[logCount - n + k + 1]
      BY <1>4 DEF LogInv, LogOrder
    <2>2. Dump(n) = [i \in 1 .. n |-> logRing[(logHead + i - 1) % n]]
      BY <1>1, <1>2, <1>4 DEF Dump, RingFull, DumpStart
    <2>3. ASSUME NEW i \in 1 .. n
          PROVE  logRing[(logHead + i - 1) % n] = written[logCount - n + i]
      <3>1. logHead + i - 1 = logHead + (i - 1) /\ i - 1 \in 0 .. n - 1
        BY <1>1, <1>2
      <3>2. logCount - n + (i - 1) + 1 = logCount - n + i BY <1>1, <1>2
      <3> QED BY <2>1, <3>1, <3>2
    <2>4. Recent(n) = [i \in 1 .. n |-> written[logCount - n + i]]
      <3>1. (IF n < logCount THEN n ELSE logCount) = n BY <1>1, <1>2, <1>4
      <3>2. Recent(n) = SubSeq(written, logCount - n + 1, logCount)
        BY <1>2, <3>1 DEF Recent
      <3> DEFINE m == logCount - n + 1
                 last == SubSeq(written, m, logCount)
      <3>3. m \in Int /\ m >= 1 /\ logCount - m + 1 = n /\ m <= logCount
        BY <1>1, <1>2, <1>4
      <3>4. \A i \in m .. logCount : written[i] \in Entry BY <1>2, <3>3
      <3>5. /\ last \in Seq(Entry) /\ Len(last) = n
            /\ \A i \in 1 .. n : last[i] = written[m + i - 1]
        <4> HIDE DEF m
        <4> QED BY <1>2, <3>3, <3>4, SubSeqProperties
      <3>6. \A i \in 1 .. n : m + i - 1 = logCount - n + i BY <1>1, <1>2
      <3> HIDE DEF m, last
      <3>7. last = [i \in 1 .. n |-> last[i]] BY <3>5, LenProperties
      <3>8. last = [i \in 1 .. n |-> written[logCount - n + i]] BY <3>5, <3>6, <3>7
      <3> QED BY <3>2, <3>8 DEF m, last
    <2> QED BY <2>2, <2>3, <2>4
  <1> QED BY <1>1, <1>2, <1>3, <1>4

\* flux_log_get_entry of a full ring.
LEMMA EntryIsRecent ==
    ASSUME LogInv, RingFull, NEW k \in LogSlots
    PROVE  logRing[EntrySlot(k)] = written[Len(written) - k]
  <1> DEFINE n == LogSize
             j == n - 1 - k
  <1>1. n \in Nat \ {0} BY LogAssumption
  <1>2. /\ logCount \in Nat /\ logCount = Len(written)
        /\ logHead \in 0 .. n - 1
    BY DEF LogInv, LogTypes, LogSlots
  <1>3. j \in 0 .. n - 1 BY <1>1 DEF LogSlots
  <1>4. logRing[(logHead + j) % n] = written[logCount - n + j + 1]
    BY <1>3 DEF LogInv, LogOrder, RingFull
  <1>5. EntrySlot(k) = (logHead + j) % n
    <2>1. logHead + n - 1 - k = logHead + j BY <1>1, <1>2 DEF LogSlots
    <2> QED BY <2>1 DEF EntrySlot, RingFull
  <1>6. logCount - n + j + 1 = logCount - k BY <1>1, <1>2 DEF LogSlots
  <1> QED BY <1>2, <1>4, <1>5, <1>6

\* A dump of the whole ring shows the last messages recorded, each once and in
\* order, and flux_log_get_entry of a full ring counts back from the newest.
THEOREM RecentStaysKept == LogSpec => []RecentKept
<1>1. LogInit => LogInv
  <2>1. ClearedEntry \in Entry
    BY DEF ClearedEntry, Greeting, Entry, LogLevels, INFO, ERROR, DEBUG
  <2>2. LogSize \in Nat \ {0} BY LogAssumption
  <2>3. LogInit => LogTypes BY <2>1, <2>2 DEF LogInit, LogTypes, LogSlots
  <2>4. LogInit => LogOrder BY <2>2 DEF LogInit, LogOrder
  <2> QED BY <2>3, <2>4 DEF LogInv
<1>2. LogInv /\ [LogNext]_logVars => LogInv' BY LogInvNext
<1>3. LogInv => RecentKept BY DumpIsRecent, EntryIsRecent DEF RecentKept
<1> QED BY <1>1, <1>2, <1>3, PTL DEF LogSpec

-----------------------------------------------------------------------------
(* The page bitmap of the hosted hardware layer.                           *)

PageTypes ==
    /\ usedPages \subseteq PhysPages
    /\ holds \in [Drivers -> [addr : Nat, size : Sizes \cup {0}]]

PageInv == PageTypes /\ PagesApart

\* The sums of the page arithmetic.
LEMMA NothingNeeded == PagesNeeded(0) = 0
  <1>1. PageSize \in Nat \ {0} BY HalAssumption
  <1>2. (PageSize - 1) \div PageSize = 0 BY <1>1
  <1> QED BY <1>1, <1>2 DEF PagesNeeded

LEMMA NoPages == PagesOf(NoRange) = {}
  <1>1. PageSize \in Nat \ {0} BY HalAssumption
  <1>2. 0 \div PageSize = 0 BY <1>1
  <1>3. PagesOf(NoRange) = {page \in PhysPages : page >= 0 /\ page < 0 + 0}
    BY <1>2, NothingNeeded DEF PagesOf, NoRange
  <1> QED BY <1>3 DEF PhysPages

LEMMA PageOfAddress ==
    ASSUME NEW first \in Nat
    PROVE  /\ first * PageSize \in Nat
           /\ (first * PageSize) \div PageSize = first
  <1>1. PageSize \in Nat \ {0} BY HalAssumption
  <1>2. first * PageSize \in Nat BY <1>1
  <1>3. (first * PageSize) \div PageSize = first BY <1>1
  <1> QED BY <1>2, <1>3

LEMMA NeededIsNat ==
    ASSUME NEW size \in Nat
    PROVE  PagesNeeded(size) \in Nat
  <1>1. PageSize \in Nat \ {0} BY HalAssumption
  <1>2. size + PageSize - 1 \in Nat BY <1>1
  <1>3. (size + PageSize - 1) \div PageSize \in Nat BY <1>1, <1>2
  <1> QED BY <1>3 DEF PagesNeeded

\* native_mem_alloc_phys takes pages that were free, and not page 0.
LEMMA AllocKeeps ==
    ASSUME PageInv, NEW d \in Drivers, NEW size \in Sizes, AllocPhys(d, size)
    PROVE  PageInv'
  <1>1. PICK first \in 1 .. PageCount - 1 :
            LET range == [addr |-> first * PageSize, size |-> size]
            IN  /\ RunFree(first, PagesNeeded(size))
                /\ usedPages' = usedPages \cup PagesOf(range)
                /\ holds' = [holds EXCEPT ![d] = range]
    BY DEF AllocPhys
  <1> DEFINE range == [addr |-> first * PageSize, size |-> size]
             taken == PagesOf(range)
  <1>2. size \in Nat /\ first \in Nat /\ first >= 1 /\ PageCount \in Nat
    BY HalAssumption
  <1>3. range \in [addr : Nat, size : Sizes \cup {0}] BY <1>2, PageOfAddress
  <1>4. /\ taken \subseteq PhysPages
        /\ \A page \in taken : page \in first .. first + PagesNeeded(size) - 1
    <2>1. PagesNeeded(size) \in Nat BY <1>2, NeededIsNat
    <2>2. (first * PageSize) \div PageSize = first BY <1>2, PageOfAddress
    <2>3. taken = {page \in PhysPages : page >= first /\ page < first + PagesNeeded(size)}
      BY <2>2 DEF PagesOf
    <2> QED BY <1>2, <2>1, <2>3 DEF PhysPages
  <1>5. taken \cap usedPages = {} BY <1>1, <1>4 DEF RunFree
  <1>6. 0 \in usedPages BY DEF PageInv, PagesApart
  <1>7. usedPages' = usedPages \cup taken /\ holds' = [holds EXCEPT ![d] = range]
    BY <1>1
  <1> HIDE DEF range, taken
  <1>8. PageTypes' BY <1>3, <1>4, <1>7 DEF PageInv, PageTypes, PhysPages
  <1>9. /\ holds'[d] = range
        /\ \A e \in Drivers \ {d} : holds'[e] = holds[e]
    BY <1>7 DEF PageInv, PageTypes
  <1>10. PagesOf(holds'[d]) = taken BY <1>9 DEF taken
  <1>11. PagesOf(holds[d]) = {} BY NoPages DEF AllocPhys
  <1>12. \A e \in Drivers : PagesOf(holds[e]) \subseteq usedPages
    BY DEF PageInv, PagesApart
  <1>13. \A e \in Drivers \ {d} : PagesOf(holds'[e]) = PagesOf(holds[e]) BY <1>9
  <1>14. \A e, f \in Drivers : e # f => PagesOf(holds'[e]) \cap PagesOf(holds'[f]) = {}
    <2>1. \A e, f \in Drivers : e # f => PagesOf(holds[e]) \cap PagesOf(holds[f]) = {}
      BY DEF PageInv, PagesApart
    <2> QED BY <1>5, <1>10, <1>12, <1>13, <2>1
  <1>15. usedPages' = {0} \cup UNION {PagesOf(holds'[e]) : e \in Drivers}
    <2>1. usedPages = {0} \cup UNION {PagesOf(holds[e]) : e \in Drivers}
      BY DEF PageInv, PagesApart
    <2>2. \A page : (\E e \in Drivers : page \in PagesOf(holds'[e]))
                    <=> (page \in taken \/ \E e \in Drivers : page \in PagesOf(holds[e]))
      BY <1>10, <1>11, <1>13
    <2> QED BY <1>7, <2>1, <2>2
  <1>16. \A e \in Drivers : 0 \notin PagesOf(holds'[e])
    BY <1>5, <1>6, <1>10, <1>13 DEF PageInv, PagesApart
  <1> QED BY <1>8, <1>14, <1>15, <1>16 DEF PageInv, PagesApart

\* native_mem_free_phys gives back the pages of its caller and no others.
LEMMA FreeKeeps ==
    ASSUME PageInv, NEW d \in Drivers, FreePhys(d)
    PROVE  PageInv'
  <1>1. /\ usedPages' = usedPages \ PagesOf(holds[d])
        /\ holds' = [holds EXCEPT ![d] = NoRange]
    BY DEF FreePhys
  <1>2. PageTypes' BY <1>1 DEF PageInv, PageTypes, NoRange
  <1>3. /\ holds'[d] = NoRange
        /\ \A e \in Drivers \ {d} : holds'[e] = holds[e]
    BY <1>1 DEF PageInv, PageTypes
  <1>4. PagesOf(holds'[d]) = {} BY <1>3, NoPages
  <1>5. \A e \in Drivers \ {d} : PagesOf(holds'[e]) = PagesOf(holds[e]) BY <1>3
  <1>6. /\ \A e, f \in Drivers : e # f => PagesOf(holds[e]) \cap PagesOf(holds[f]) = {}
        /\ usedPages = {0} \cup UNION {PagesOf(holds[e]) : e \in Drivers}
        /\ \A e \in Drivers : 0 \notin PagesOf(holds[e])
    BY DEF PageInv, PagesApart
  <1>7. \A e, f \in Drivers : e # f => PagesOf(holds'[e]) \cap PagesOf(holds'[f]) = {}
    BY <1>4, <1>5, <1>6
  <1>8. usedPages' = {0} \cup UNION {PagesOf(holds'[e]) : e \in Drivers}
    <2>1. \A page : (\E e \in Drivers : page \in PagesOf(holds'[e]))
                    <=> \E e \in Drivers \ {d} : page \in PagesOf(holds[e])
      BY <1>4, <1>5
    <2>2. \A page : page \in usedPages' <=>
              page = 0 \/ \E e \in Drivers \ {d} : page \in PagesOf(holds[e])
      BY <1>1, <1>6
    <2> QED BY <2>1, <2>2
  <1>9. \A e \in Drivers : 0 \notin PagesOf(holds'[e]) BY <1>4, <1>5, <1>6
  <1> QED BY <1>2, <1>7, <1>8, <1>9 DEF PageInv, PagesApart

\* No page is held twice, page 0 is never handed out, and none leaks.
THEOREM PagesStayApart == HalSpec => []PagesApart
<1>1. HalInit => PageInv
  <2>1. PageCount \in Nat \ {0} BY HalAssumption
  <2>2. ASSUME HalInit PROVE \A d \in Drivers : PagesOf(holds[d]) = {}
    BY <2>2, NoPages DEF HalInit
  <2>3. HalInit => PageTypes
    BY <2>1 DEF HalInit, PageTypes, PhysPages, NoRange
  <2>4. HalInit => PagesApart
    BY <2>2 DEF HalInit, PagesApart
  <2> QED BY <2>3, <2>4 DEF PageInv
<1>2. PageInv /\ [HalNext]_halVars => PageInv'
  <2> SUFFICES ASSUME PageInv, [HalNext]_halVars PROVE PageInv'
    OBVIOUS
  <2>1. ASSUME UNCHANGED pageVars PROVE PageInv'
    BY <2>1 DEF pageVars, PageInv, PageTypes, PagesApart
  <2>2. CASE PagesNext BY <2>2, AllocKeeps, FreeKeeps DEF PagesNext
  <2>3. CASE DevicesNext BY <2>1, <2>3 DEF DevicesNext, Register, Unregister
  <2>4. CASE UNCHANGED halVars BY <2>1, <2>4 DEF halVars
  <2> QED BY <2>2, <2>3, <2>4 DEF HalNext
<1>3. PageInv => PagesApart BY DEF PageInv
<1> QED BY <1>1, <1>2, <1>3, PTL DEF HalSpec
-----------------------------------------------------------------------------
(* The device list.                                                        *)

Places == 0 .. DeviceMax
NodeOrNone == Nodes \cup {NoNode}

DevTypes ==
    /\ devNodes \subseteq Nodes
    /\ devNext \in [Nodes -> NodeOrNone]
    /\ devName \in [Nodes -> DeviceNames \cup {NoNode}]
    /\ registered \in Seq(DeviceNames)

\* c is the walk from the head: n different nodes, then none; the tail is its
\* last node or forgotten.
Chain(c, n) ==
    /\ \A k \in Places : IF k < n THEN c[k] \in devNodes ELSE c[k] = NoNode
    /\ \A j, k \in 0 .. n - 1 : c[j] = c[k] => j = k
    /\ c[0] = devHead
    /\ \A k \in 1 .. n : c[k] = devNext[c[k - 1]]
    /\ devTail # NoNode => n > 0 /\ devTail = c[n - 1]

\* Each node of the walk has a registration of its own, of its name.
Answers(c, n, reg) ==
    /\ \A k \in 0 .. n - 1 :
          reg[k] \in 1 .. Len(registered) /\ registered[reg[k]] = devName[c[k]]
    /\ \A j, k \in 0 .. n - 1 : reg[j] = reg[k] => j = k

Listed(c, n, reg) ==
    /\ n \in Places /\ c \in [Places -> NodeOrNone] /\ reg \in [Places -> Nat]
    /\ Chain(c, n) /\ Answers(c, n, reg)

DevInv == DevTypes /\ \E c, n, reg : Listed(c, n, reg)

LEMMA MaxIsNat == DeviceMax \in Nat /\ DeviceMax > 0 /\ NoNode \notin Nodes
  BY HalAssumption DEF Nodes

\* What the code's loop meets is the walk.
LEMMA NodeAtIs ==
    ASSUME DevTypes, NEW c, NEW n \in Places, NEW reg, Listed(c, n, reg)
    PROVE  \A k \in Places : NodeAt[k] = c[k]
  <1> DEFINE Walk(f) == [k \in Places |-> IF k = 0 THEN devHead
                                          ELSE IF f[k - 1] = NoNode THEN NoNode
                                          ELSE devNext[f[k - 1]]]
             at == CHOOSE f : f = Walk(f)
  <1>1. ASSUME NEW k \in Places PROVE c[k] = Walk(c)[k]
    <2>1. CASE k = 0 BY <2>1 DEF Listed, Chain
    <2>2. CASE k # 0
      <3>1. k \in 1 .. DeviceMax /\ k - 1 \in Places /\ n \in Nat
        BY <2>2, MaxIsNat DEF Places
      <3>2. CASE k <= n
        <4>1. k \in 1 .. n /\ k - 1 < n BY <3>1, <3>2
        <4>2. c[k] = devNext[c[k - 1]] BY <4>1 DEF Listed, Chain
        <4>3. c[k - 1] \in devNodes BY <3>1, <4>1 DEF Listed, Chain
        <4>4. c[k - 1] # NoNode BY <4>3, MaxIsNat DEF DevTypes
        <4> QED BY <2>2, <4>2, <4>4
      <3>3. CASE ~(k <= n)
        <4>1. ~(k < n) /\ ~(k - 1 < n) BY <3>1, <3>3
        <4>2. c[k] = NoNode /\ c[k - 1] = NoNode BY <3>1, <4>1 DEF Listed, Chain
        <4> QED BY <2>2, <4>2
      <3> QED BY <3>2, <3>3
    <2> QED BY <2>1, <2>2
  <1>2. c = Walk(c) BY <1>1 DEF Listed
  <1>3. at = Walk(at) BY <1>2
  <1>4. NodeAt = at BY DEF NodeAt, Places
  <1> HIDE DEF at
  <1> DEFINE Bad == {k \in Places : at[k] # c[k]}
  <1>5. Bad = {}
    <2> SUFFICES ASSUME Bad # {} PROVE FALSE
      OBVIOUS
    <2>1. PICK k \in Bad : \A j \in Bad : k <= j
      <3>1. Bad \in SUBSET Nat BY MaxIsNat DEF Places
      <3> HIDE DEF Bad
      <3> QED BY <3>1, LeastOf
    <2>2. at[0] = c[0] BY <1>2, <1>3, MaxIsNat DEF Places
    <2>3. k \in 1 .. DeviceMax BY <2>2, MaxIsNat DEF Places
    <2>4. k - 1 \in Places /\ ~(k <= k - 1) BY <2>3, MaxIsNat DEF Places
    <2>5. at[k - 1] = c[k - 1] BY <2>1, <2>4
    <2>6. at[k] = Walk(at)[k] /\ c[k] = Walk(c)[k] BY <1>2, <1>3
    <2>7. Walk(at)[k] = Walk(c)[k] BY <2>5
    <2> QED BY <2>6, <2>7
  <1> QED BY <1>4, <1>5

\* The walk has no more nodes than there are.
LEMMA WalkHasRoom ==
    ASSUME DevTypes, NEW c, NEW n \in Places, NEW reg, Listed(c, n, reg),
           NEW node \in Nodes \ devNodes
    PROVE  n < DeviceMax
  <1> DEFINE f == [k \in 0 .. n |-> IF k < n THEN c[k] ELSE node]
  <1>0. n \in Nat /\ DeviceMax \in Nat /\ n <= DeviceMax BY MaxIsNat DEF Places
  <1>1. \A k \in 0 .. n - 1 : c[k] \in devNodes BY <1>0 DEF Listed, Chain, Places
  <1>2. f \in [0 .. n -> Nodes] BY <1>0, <1>1 DEF DevTypes
  <1>3. ASSUME NEW j \in 0 .. n, NEW k \in 0 .. n, f[j] = f[k] PROVE j = k
    <2>1. CASE j < n /\ k < n BY <1>0, <1>3, <2>1 DEF Listed, Chain
    <2>2. CASE j < n /\ ~(k < n) BY <1>0, <1>1, <1>3, <2>2
    <2>3. CASE ~(j < n) /\ k < n BY <1>0, <1>1, <1>3, <2>3
    <2>4. CASE ~(j < n) /\ ~(k < n) BY <1>0, <2>4
    <2> QED BY <2>1, <2>2, <2>3, <2>4
  <1>4. f \in Injection(0 .. n, Nodes)
    <2> HIDE DEF f
    <2> QED BY <1>2, <1>3 DEF Injection, IsInjective
  <1>5. IsFiniteSet(Nodes) /\ Cardinality(Nodes) = DeviceMax
    <2>1. 1 \in Int /\ DeviceMax \in Int BY <1>0
    <2> QED BY <1>0, <2>1, FS_Interval DEF Nodes
  <1>6. Cardinality(0 .. n) = n + 1
    <2>1. 0 \in Int /\ n \in Int BY <1>0
    <2> QED BY <1>0, <2>1, FS_Interval
  <1> HIDE DEF f
  <1>7. Cardinality(0 .. n) <= Cardinality(Nodes) BY <1>4, <1>5, FS_Injection
  <1> QED BY <1>0, <1>5, <1>6, <1>7

\* native_device_register, when the tail is known: the walk gets longer.
LEMMA RegisterAppends ==
    ASSUME DevTypes, NEW c, NEW n, NEW reg, Listed(c, n, reg), devTail # NoNode,
           NEW name \in DeviceNames, NEW node \in Nodes \ devNodes,
           devNodes' = devNodes \cup {node},
           devName' = [devName EXCEPT ![node] = name],
           devNext' = [devNext EXCEPT ![node] = NoNode, ![devTail] = node],
           devHead' = devHead, devTail' = node,
           registered' = Append(registered, name)
    PROVE  \E d, m, new : Listed(d, m, new)'
  <1>0. n \in Places /\ c \in [Places -> NodeOrNone] /\ reg \in [Places -> Nat]
    BY DEF Listed
  <1>1. /\ n \in 1 .. DeviceMax - 1 /\ devTail = c[n - 1]
        /\ n - 1 \in Places /\ n \in Nat /\ n + 1 \in Places
    <2>1. n > 0 /\ devTail = c[n - 1] BY DEF Listed, Chain
    <2>2. n < DeviceMax BY <1>0, WalkHasRoom
    <2> QED BY <1>0, <2>1, <2>2, MaxIsNat DEF Places
  <1>2. PICK d \in [Places -> NodeOrNone], new \in [Places -> Nat] :
          /\ d[n] = node /\ new[n] = Len(registered) + 1
          /\ \A k \in Places \ {n} : d[k] = c[k] /\ new[k] = reg[k]
    <2> DEFINE dd == [c EXCEPT ![n] = node]
               nn == [reg EXCEPT ![n] = Len(registered) + 1]
    <2>1. Len(registered) + 1 \in Nat BY DEF DevTypes
    <2>2. node \in NodeOrNone BY DEF NodeOrNone
    <2>3. /\ dd \in [Places -> NodeOrNone] /\ nn \in [Places -> Nat]
          /\ dd[n] = node /\ nn[n] = Len(registered) + 1
          /\ \A k \in Places \ {n} : dd[k] = c[k] /\ nn[k] = reg[k]
      BY <1>0, <2>1, <2>2
    <2> HIDE DEF dd, nn
    <2> QED BY <2>3
  <1>3. \A k \in 0 .. n - 1 : k \in Places \ {n} /\ c[k] \in devNodes
    <2>1. \A k \in 0 .. n - 1 : k \in Places \ {n} /\ k < n BY <1>1, MaxIsNat DEF Places
    <2> QED BY <2>1 DEF Listed, Chain
  <1>4. devTail \in devNodes BY <1>1, <1>3
  <1>5. /\ devNext'[devTail] = node /\ devNext'[node] = NoNode
        /\ \A other \in Nodes \ {node, devTail} : devNext'[other] = devNext[other]
    BY <1>4 DEF DevTypes
  <1>6. /\ devName'[node] = name
        /\ \A other \in Nodes \ {node} : devName'[other] = devName[other]
    BY DEF DevTypes
  <1>7. /\ Len(registered') = Len(registered) + 1 /\ Len(registered) \in Nat
        /\ registered'[Len(registered) + 1] = name
        /\ \A k \in 1 .. Len(registered) : registered'[k] = registered[k]
    BY DEF DevTypes
  <1>8. \A k \in Places : IF k < n + 1 THEN d[k] \in devNodes' ELSE d[k] = NoNode
    <2> TAKE k \in Places
    <2>1. k \in Nat BY MaxIsNat DEF Places
    <2>2. CASE k = n BY <1>1, <1>2, <2>2
    <2>3. CASE k # n
      <3>1. d[k] = c[k] /\ (k < n + 1 <=> k < n) BY <1>1, <1>2, <2>1, <2>3
      <3>2. IF k < n THEN c[k] \in devNodes ELSE c[k] = NoNode BY DEF Listed, Chain
      <3> QED BY <3>1, <3>2
    <2> QED BY <2>2, <2>3
  <1>9. \A j, k \in 0 .. n : d[j] = d[k] => j = k
    <2> SUFFICES ASSUME NEW j \in 0 .. n, NEW k \in 0 .. n, d[j] = d[k] PROVE j = k
      OBVIOUS
    <2>1. CASE j = n /\ k = n BY <2>1
    <2>2. CASE j = n /\ k # n
      <3>1. k \in 0 .. n - 1 BY <1>1, <2>2
      <3> QED BY <1>2, <1>3, <2>2, <3>1
    <2>3. CASE j # n /\ k = n
      <3>1. j \in 0 .. n - 1 BY <1>1, <2>3
      <3> QED BY <1>2, <1>3, <2>3, <3>1
    <2>4. CASE j # n /\ k # n
      <3>1. j \in 0 .. n - 1 /\ k \in 0 .. n - 1 BY <1>1, <2>4
      <3>2. c[j] = c[k] BY <1>2, <1>3, <3>1
      <3> QED BY <3>1, <3>2 DEF Listed, Chain
    <2> QED BY <2>1, <2>2, <2>3, <2>4
  <1>10. d[0] = devHead'
    BY <1>1, <1>2, MaxIsNat DEF Listed, Chain, Places
  <1>11. \A k \in 1 .. n + 1 : d[k] = devNext'[d[k - 1]]
    <2> TAKE k \in 1 .. n + 1
    <2>1. CASE k = n + 1
      <3>1. k - 1 = n /\ k \in Places \ {n} BY <1>1, <2>1
      <3>2. d[k] = c[k] BY <1>2, <3>1
      <3>3. ~(k < n) BY <1>1, <2>1
      <3>4. c[k] = NoNode BY <3>1, <3>3 DEF Listed, Chain
      <3> QED BY <1>2, <1>5, <3>1, <3>2, <3>4
    <2>2. CASE k = n
      <3>1. k - 1 \in 0 .. n - 1 BY <1>1, <2>2
      <3>2. d[k - 1] = devTail BY <1>1, <1>2, <1>3, <2>2, <3>1
      <3> QED BY <1>2, <1>5, <2>2, <3>2
    <2>3. CASE k \in 1 .. n - 1
      <3>1. k \in 0 .. n - 1 /\ k - 1 \in 0 .. n - 1 /\ k \in 1 .. n /\ k - 1 # n - 1 /\ n - 1 \in 0 .. n - 1
        BY <1>1, <2>3
      <3>2. d[k] = c[k] /\ d[k - 1] = c[k - 1] BY <1>2, <1>3, <3>1
      <3>3. c[k] = devNext[c[k - 1]] BY <3>1 DEF Listed, Chain
      <3>4. c[k - 1] # c[n - 1] BY <3>1 DEF Listed, Chain
      <3>5. c[k - 1] \in Nodes \ {node, devTail} BY <1>1, <1>3, <3>1, <3>4 DEF DevTypes
      <3> QED BY <1>5, <3>2, <3>3, <3>5
    <2>4. k = n + 1 \/ k = n \/ k \in 1 .. n - 1 BY <1>1
    <2> QED BY <2>1, <2>2, <2>3, <2>4
  <1>12. \A k \in 0 .. n : /\ new[k] \in 1 .. Len(registered')
                           /\ registered'[new[k]] = devName'[d[k]]
    <2> TAKE k \in 0 .. n
    <2>1. CASE k = n BY <1>2, <1>6, <1>7, <2>1
    <2>2. CASE k # n
      <3>1. k \in 0 .. n - 1 BY <1>1, <2>2
      <3>2. new[k] = reg[k] /\ d[k] = c[k] BY <1>2, <1>3, <3>1
      <3>3. reg[k] \in 1 .. Len(registered) /\ registered[reg[k]] = devName[c[k]]
        BY <3>1 DEF Listed, Answers
      <3>4. devName'[c[k]] = devName[c[k]] BY <1>3, <1>6, <3>1 DEF DevTypes
      <3> QED BY <1>7, <3>2, <3>3, <3>4
    <2> QED BY <2>1, <2>2
  <1>13. \A j, k \in 0 .. n : new[j] = new[k] => j = k
    <2> SUFFICES ASSUME NEW j \in 0 .. n, NEW k \in 0 .. n, new[j] = new[k] PROVE j = k
      OBVIOUS
    <2>1. \A l \in 0 .. n - 1 : new[l] = reg[l] /\ reg[l] \in 1 .. Len(registered)
      BY <1>2, <1>3 DEF Listed, Answers
    <2>2. CASE j = n /\ k = n BY <2>2
    <2>3. CASE j = n /\ k # n
      <3>1. k \in 0 .. n - 1 BY <1>1, <2>3
      <3> QED BY <1>2, <1>7, <2>1, <2>3, <3>1
    <2>4. CASE j # n /\ k = n
      <3>1. j \in 0 .. n - 1 BY <1>1, <2>4
      <3> QED BY <1>2, <1>7, <2>1, <2>4, <3>1
    <2>5. CASE j # n /\ k # n
      <3>1. j \in 0 .. n - 1 /\ k \in 0 .. n - 1 BY <1>1, <2>5
      <3>2. reg[j] = reg[k] BY <2>1, <3>1
      <3> QED BY <3>1, <3>2 DEF Listed, Answers
    <2> QED BY <2>2, <2>3, <2>4, <2>5
  <1>14. PICK m \in Places : m = n + 1 BY <1>1
  <1>15. m > 0 /\ m - 1 = n BY <1>1, <1>14
  <1>16. 0 .. m - 1 = 0 .. n BY <1>15
  <1>17. devTail' = d[m - 1] BY <1>1, <1>2, <1>15
  <1>18. Chain(d, m)' BY <1>8, <1>9, <1>10, <1>11, <1>14, <1>15, <1>16, <1>17 DEF Chain
  <1>19. Answers(d, m, new)' BY <1>12, <1>13, <1>16 DEF Answers
  <1>20. Listed(d, m, new)' BY <1>2, <1>14, <1>18, <1>19 DEF Listed
  <1> QED BY <1>20

\* native_device_register, when the tail is forgotten: the walk begins anew.
LEMMA RegisterBegins ==
    ASSUME DevTypes, NEW name \in DeviceNames, NEW node \in Nodes \ devNodes,
           devNodes' = devNodes \cup {node},
           devName' = [devName EXCEPT ![node] = name],
           devNext' = [devNext EXCEPT ![node] = NoNode],
           devHead' = node, devTail' = node,
           registered' = Append(registered, name)
    PROVE  \E d, m, new : Listed(d, m, new)'
  <1>1. /\ Len(registered) + 1 \in Nat /\ Len(registered') = Len(registered) + 1
        /\ Len(registered) + 1 \in 1 .. Len(registered')
        /\ registered'[Len(registered) + 1] = name
    BY DEF DevTypes
  <1>2. 0 \in Places /\ 1 \in Places /\ \A k \in Places : k \in Nat BY MaxIsNat DEF Places
  <1>3. PICK d \in [Places -> NodeOrNone], new \in [Places -> Nat] :
          \A k \in Places : /\ d[k] = IF k = 0 THEN node ELSE NoNode
                            /\ new[k] = Len(registered) + 1
    <2> DEFINE dd == [k \in Places |-> IF k = 0 THEN node ELSE NoNode]
               nn == [k \in Places |-> Len(registered) + 1]
    <2>1. /\ dd \in [Places -> NodeOrNone] /\ nn \in [Places -> Nat]
          /\ \A k \in Places : /\ dd[k] = IF k = 0 THEN node ELSE NoNode
                               /\ nn[k] = Len(registered) + 1
      BY <1>1 DEF NodeOrNone
    <2> HIDE DEF dd, nn
    <2> QED BY <2>1
  <1>4. devNext'[node] = NoNode /\ devName'[node] = name BY DEF DevTypes
  <1>5. \A k \in 0 .. 1 - 1 : k = 0 OBVIOUS
  <1>6. \A k \in 1 .. 1 : k = 1 /\ k - 1 = 0 OBVIOUS
  <1>7. d[0] = node /\ d[1] = NoNode /\ new[0] = Len(registered) + 1 BY <1>2, <1>3
  <1>8. \A k \in Places : IF k < 1 THEN d[k] \in devNodes' ELSE d[k] = NoNode
    <2> TAKE k \in Places
    <2>1. k < 1 <=> k = 0 BY <1>2
    <2> QED BY <1>3, <2>1
  <1>9. \A k \in 1 .. 1 : d[k] = devNext'[d[k - 1]] BY <1>4, <1>6, <1>7
  <1>10. Chain(d, 1)' BY <1>5, <1>7, <1>8, <1>9 DEF Chain
  <1>11. Answers(d, 1, new)' BY <1>1, <1>4, <1>5, <1>7 DEF Answers
  <1>12. Listed(d, 1, new)' BY <1>2, <1>3, <1>10, <1>11 DEF Listed
  <1> QED BY <1>12

\* native_device_unregister: the node at place k leaves the walk, and a
\* registration of its name is given up.
LEMMA UnregisterUnlinks ==
    ASSUME DevTypes, NEW c, NEW n, NEW reg, Listed(c, n, reg),
           NEW k \in 0 .. n - 1, devName[c[k]] \in DeviceNames,
           NEW i \in 1 .. Len(registered), registered[i] = devName[c[k]],
           devHead' = IF k = 0 THEN devNext[c[k]] ELSE devHead,
           devNext' = IF k = 0 THEN devNext ELSE [devNext EXCEPT ![c[k - 1]] = devNext[c[k]]],
           devTail' = TailAfter(c[k]),
           devNodes' = devNodes \ {c[k]}, devName' = devName,
           registered' = RemoveAt(registered, i)
    PROVE  \E d, m, new : Listed(d, m, new)'
  <1>0. /\ n \in Places /\ n \in Nat /\ DeviceMax \in Nat /\ n <= DeviceMax
        /\ c \in [Places -> NodeOrNone] /\ reg \in [Places -> Nat]
    BY MaxIsNat DEF Listed, Places
  <1>1. \A j \in 0 .. n - 1 : j \in Places /\ j + 1 \in Places /\ c[j] \in devNodes /\ c[j] \in Nodes
    BY <1>0 DEF Listed, Chain, Places, DevTypes
  <1>2. \A j, l \in 0 .. n - 1 : c[j] = c[l] => j = l BY DEF Listed, Chain
  <1>3. \A j \in 1 .. n : c[j] = devNext[c[j - 1]] BY DEF Listed, Chain
  <1> DEFINE Old(j) == IF j < k THEN j ELSE j + 1
             Kept(j) == IF reg[Old(j)] = i THEN reg[k] ELSE reg[Old(j)]
             Moved(p) == IF p < i THEN p ELSE p - 1
  <1>4. \A j \in 0 .. n - 2 : Old(j) \in 0 .. n - 1 /\ Old(j) # k BY <1>0
  <1>5. \A j, l \in 0 .. n - 2 : Old(j) = Old(l) => j = l BY <1>0
  <1>sums. /\ k + 1 \in 1 .. n /\ (k + 1) - 1 = k
           /\ \A j \in 0 .. n - 1 : j = n - 1 \/ j \in 0 .. n - 2
    BY <1>0
  <1>6. PICK d \in [Places -> NodeOrNone] :
          \A j \in Places : d[j] = IF j < n - 1 THEN c[Old(j)] ELSE NoNode
    <2> DEFINE dd == [j \in Places |-> IF j < n - 1 THEN c[Old(j)] ELSE NoNode]
    <2>1. ASSUME NEW j \in Places PROVE dd[j] \in NodeOrNone
      <3>1. CASE j < n - 1
        <4>1. j \in 0 .. n - 2 BY <1>0, <3>1 DEF Places
        <4>2. Old(j) \in 0 .. n - 1 BY <1>4, <4>1
        <4> HIDE DEF Old
        <4> QED BY <1>1, <3>1, <4>2 DEF NodeOrNone
      <3>2. CASE ~(j < n - 1) BY <3>2 DEF NodeOrNone
      <3> QED BY <3>1, <3>2
    <2>2. /\ dd \in [Places -> NodeOrNone]
          /\ \A j \in Places : dd[j] = IF j < n - 1 THEN c[Old(j)] ELSE NoNode
      BY <2>1
    <2> HIDE DEF dd
    <2> QED BY <2>2
  <1>7. /\ \A j \in 0 .. n - 1 : reg[j] \in 1 .. Len(registered) /\ registered[reg[j]] = devName[c[j]]
        /\ \A j, l \in 0 .. n - 1 : reg[j] = reg[l] => j = l
    BY DEF Listed, Answers
  <1>8. ASSUME NEW j \in 0 .. n - 2
        PROVE  /\ Kept(j) \in 1 .. Len(registered) /\ Kept(j) # i
               /\ registered[Kept(j)] = devName[c[Old(j)]]
    <2>1. Old(j) \in 0 .. n - 1 /\ Old(j) # k BY <1>4
    <2> HIDE DEF Old
    <2>2. CASE reg[Old(j)] = i BY <1>7, <2>1, <2>2
    <2>3. CASE reg[Old(j)] # i BY <1>7, <2>1, <2>3
    <2> QED BY <2>2, <2>3
  <1>9. ASSUME NEW j \in 0 .. n - 2, NEW l \in 0 .. n - 2, Kept(j) = Kept(l)
        PROVE  j = l
    <2>1. /\ Old(j) \in 0 .. n - 1 /\ Old(j) # k
          /\ Old(l) \in 0 .. n - 1 /\ Old(l) # k
          /\ Old(j) = Old(l) => j = l
      BY <1>4, <1>5
    <2> HIDE DEF Old
    <2> QED BY <1>7, <1>9, <2>1
  <1>10. /\ registered' \in Seq(DeviceNames) /\ Len(registered') = Len(registered) - 1
         /\ Len(registered) \in Nat
         /\ \A p \in 1 .. Len(registered) - 1 :
               registered'[p] = IF p < i THEN registered[p] ELSE registered[p + 1]
    <2>1. registered \in Seq(DeviceNames) /\ i \in DOMAIN registered /\ Len(registered) \in Nat
      BY DEF DevTypes
    <2> QED BY <2>1, RemoveAtOk
  <1>11. ASSUME NEW p \in 1 .. Len(registered), p # i
         PROVE  /\ Moved(p) \in 1 .. Len(registered') /\ Moved(p) \in Nat
                /\ registered'[Moved(p)] = registered[p]
    <2>1. CASE p < i
      <3>1. p \in 1 .. Len(registered) - 1 BY <1>10, <2>1
      <3> QED BY <1>10, <2>1, <3>1
    <2>2. CASE ~(p < i)
      <3>1. p - 1 \in 1 .. Len(registered) - 1 /\ ~(p - 1 < i) /\ p - 1 + 1 = p
        BY <1>10, <1>11, <2>2
      <3> QED BY <1>10, <2>2, <3>1
    <2> QED BY <2>1, <2>2
  <1>12. \A p, q \in 1 .. Len(registered) : p # i /\ q # i /\ Moved(p) = Moved(q) => p = q
    BY <1>10
  <1>13. PICK new \in [Places -> Nat] : \A j \in 0 .. n - 2 : new[j] = Moved(Kept(j))
    <2> DEFINE nn == [j \in Places |-> IF j < n - 1 THEN Moved(Kept(j)) ELSE 0]
    <2>1. ASSUME NEW j \in Places PROVE nn[j] \in Nat
      <3>1. CASE j < n - 1
        <4>1. j \in 0 .. n - 2 BY <1>0, <3>1 DEF Places
        <4>2. Kept(j) \in 1 .. Len(registered) /\ Kept(j) # i BY <1>8, <4>1
        <4> HIDE DEF Kept
        <4>3. Moved(Kept(j)) \in Nat BY <1>11, <4>2
        <4> HIDE DEF Moved
        <4> QED BY <3>1, <4>3
      <3>2. CASE ~(j < n - 1) BY <3>2
      <3> QED BY <3>1, <3>2
    <2>2. nn \in [Places -> Nat]
      <3> HIDE DEF Kept, Moved
      <3> QED BY <2>1
    <2>3. \A j \in 0 .. n - 2 : j \in Places /\ j < n - 1 BY <1>0 DEF Places
    <2>4. \A j \in 0 .. n - 2 : nn[j] = Moved(Kept(j))
      <3> HIDE DEF Kept, Moved
      <3> QED BY <2>3
    <2> HIDE DEF nn, Kept, Moved
    <2> QED BY <2>2, <2>4
  <1>14. \A j \in 0 .. n - 2 : j \in Places /\ d[j] = c[Old(j)]
    <2>1. \A j \in 0 .. n - 2 : j \in Places /\ j < n - 1 BY <1>0 DEF Places
    <2> HIDE DEF Old
    <2> QED BY <1>6, <2>1
  <1>15. \A j \in Places : IF j < n - 1 THEN d[j] \in devNodes' ELSE d[j] = NoNode
    <2> TAKE j \in Places
    <2>1. CASE j < n - 1
      <3>1. j \in 0 .. n - 2 BY <1>0, <2>1 DEF Places
      <3>2. Old(j) \in 0 .. n - 1 /\ Old(j) # k /\ d[j] = c[Old(j)] BY <1>4, <1>14, <3>1
      <3> HIDE DEF Old
      <3> QED BY <1>1, <1>2, <2>1, <3>2
    <2>2. CASE ~(j < n - 1) BY <1>6, <2>2
    <2> QED BY <2>1, <2>2
  <1>16. \A j, l \in 0 .. n - 2 : d[j] = d[l] => j = l
    <2> SUFFICES ASSUME NEW j \in 0 .. n - 2, NEW l \in 0 .. n - 2, d[j] = d[l] PROVE j = l
      OBVIOUS
    <2>1. c[Old(j)] = c[Old(l)] /\ Old(j) \in 0 .. n - 1 /\ Old(l) \in 0 .. n - 1
      BY <1>4, <1>14
    <2>2. Old(j) = Old(l)
      <3> HIDE DEF Old
      <3> QED BY <1>2, <2>1
    <2> QED BY <1>5, <2>2
  <1>17. /\ n \in 1 .. DeviceMax /\ c[n] = NoNode
         /\ \A j \in 0 .. n - 1 : d[j] = c[Old(j)]
    <2>1. n \in 1 .. DeviceMax /\ ~(n < n) BY <1>0
    <2>2. c[n] = NoNode BY <1>0, <2>1 DEF Listed, Chain
    <2>3. ASSUME NEW j \in 0 .. n - 1 PROVE d[j] = c[Old(j)]
      <3>1. CASE j = n - 1
        <4>1. j \in Places /\ ~(j < n - 1) /\ Old(j) = n BY <1>0, <3>1 DEF Places
        <4> HIDE DEF Old
        <4> QED BY <1>6, <2>2, <4>1
      <3>2. CASE j # n - 1
        <4>1. j \in 0 .. n - 2 BY <1>sums, <3>2
        <4> HIDE DEF Old
        <4> QED BY <1>14, <4>1
      <3> QED BY <3>1, <3>2
    <2> HIDE DEF Old
    <2> QED BY <2>1, <2>2, <2>3
  <1>18. d[0] = devHead'
    <2>1. 0 \in 0 .. n - 1 /\ 1 \in 1 .. n BY <1>0
    <2>2. d[0] = c[Old(0)]
      <3> HIDE DEF Old
      <3> QED BY <1>17, <2>1
    <2>3. CASE k = 0
      <3>1. Old(0) = 1 BY <2>3
      <3>2. c[1] = devNext[c[0]] BY <1>3, <2>1
      <3> HIDE DEF Old
      <3> QED BY <2>2, <2>3, <3>1, <3>2
    <2>4. CASE k # 0
      <3>1. Old(0) = 0 BY <1>0, <2>4
      <3>2. c[0] = devHead BY DEF Listed, Chain
      <3> HIDE DEF Old
      <3> QED BY <2>2, <2>4, <3>1, <3>2
    <2> QED BY <2>3, <2>4
  <1>19. c[k + 1] = devNext[c[k]]
    <2>1. c[k + 1] = devNext[c[(k + 1) - 1]] BY <1>3, <1>sums
    <2> QED BY <1>sums, <2>1
  <1>20. /\ k # 0 => devNext'[c[k - 1]] = c[k + 1]
         /\ \A j \in 0 .. n - 1 : j # k - 1 => devNext'[c[j]] = devNext[c[j]]
    <2>1. CASE k = 0 BY <2>1
    <2>2. CASE k # 0
      <3>1. k - 1 \in 0 .. n - 1 BY <1>0, <2>2
      <3>2. c[k - 1] \in Nodes /\ devNext' = [devNext EXCEPT ![c[k - 1]] = c[k + 1]]
        BY <1>1, <1>19, <2>2, <3>1
      <3>3. /\ devNext'[c[k - 1]] = c[k + 1]
            /\ \A other \in Nodes \ {c[k - 1]} : devNext'[other] = devNext[other]
        BY <3>2 DEF DevTypes
      <3>4. \A j \in 0 .. n - 1 : j # k - 1 => c[j] \in Nodes \ {c[k - 1]}
        BY <1>1, <1>2, <3>1
      <3> QED BY <3>3, <3>4
    <2> QED BY <2>1, <2>2
  <1>21. \A j \in 1 .. n - 1 : d[j] = devNext'[d[j - 1]]
    <2> TAKE j \in 1 .. n - 1
    <2>1. j \in 0 .. n - 1 /\ j - 1 \in 0 .. n - 1 BY <1>0
    <2>2. d[j] = c[Old(j)] /\ d[j - 1] = c[Old(j - 1)]
      <3> HIDE DEF Old
      <3> QED BY <1>17, <2>1
    <2>3. CASE j < k
      <3>1. /\ Old(j) = j /\ Old(j - 1) = j - 1 /\ j - 1 # k - 1 /\ j \in 1 .. n
        BY <1>0, <2>3
      <3>2. c[j] = devNext[c[j - 1]] BY <1>3, <3>1
      <3> HIDE DEF Old
      <3> QED BY <1>20, <2>1, <2>2, <3>1, <3>2
    <2>4. CASE j = k
      <3>1. Old(j) = k + 1 /\ Old(j - 1) = k - 1 /\ k # 0 BY <1>0, <2>4
      <3> HIDE DEF Old
      <3> QED BY <1>20, <2>2, <3>1
    <2>5. CASE j > k
      <3>1. /\ Old(j) = j + 1 /\ Old(j - 1) = j /\ j # k - 1
            /\ j + 1 \in 1 .. n /\ j + 1 - 1 = j
        BY <1>0, <2>5
      <3>2. c[j + 1] = devNext[c[j]] BY <1>3, <3>1
      <3> HIDE DEF Old
      <3> QED BY <1>20, <2>1, <2>2, <3>1, <3>2
    <2>6. j < k \/ j = k \/ j > k BY <1>0
    <2> QED BY <2>3, <2>4, <2>5, <2>6
  <1>22. devTail' # NoNode => n - 1 > 0 /\ devTail' = d[n - 2]
    <2> SUFFICES ASSUME devTail' # NoNode PROVE n - 1 > 0 /\ devTail' = d[n - 2]
      OBVIOUS
    <2>1. k \in 0 .. n - 1 /\ n - 1 \in 0 .. n - 1 BY <1>0
    <2>2. devTail = c[k] => devTail # NoNode BY <1>1, <2>1, MaxIsNat
    <2>3. devTail # NoNode => devTail = c[n - 1] BY DEF Listed, Chain
    <2>4. devTail # c[k]
      <3> SUFFICES ASSUME devTail = c[k] PROVE FALSE
        OBVIOUS
      <3>1. c[k] = c[n - 1] BY <2>2, <2>3
      <3>2. k = n - 1 BY <1>2, <2>1, <3>1
      <3>3. k + 1 = n BY <1>0, <3>2
      <3>4. devTail' = devNext[c[k]] BY DEF TailAfter
      <3> QED BY <1>17, <1>19, <3>3, <3>4
    <2>5. devTail' = devTail BY <2>4 DEF TailAfter
    <2>6. devTail' = c[n - 1] /\ n - 1 # k BY <2>3, <2>4, <2>5
    <2>7. n - 1 > 0 /\ n - 2 \in 0 .. n - 1 /\ Old(n - 2) = n - 1 BY <1>0, <2>6
    <2> HIDE DEF Old
    <2> QED BY <1>17, <2>6, <2>7
  <1>23. \A j \in 0 .. n - 2 : /\ new[j] \in 1 .. Len(registered')
                               /\ registered'[new[j]] = devName'[d[j]]
    <2> TAKE j \in 0 .. n - 2
    <2>1. new[j] = Moved(Kept(j)) /\ d[j] = c[Old(j)]
      <3> HIDE DEF Moved, Kept, Old
      <3> QED BY <1>13, <1>14
    <2>2. /\ Kept(j) \in 1 .. Len(registered) /\ Kept(j) # i
          /\ registered[Kept(j)] = devName[c[Old(j)]]
      BY <1>8
    <2> HIDE DEF Kept, Old
    <2>3. Moved(Kept(j)) \in 1 .. Len(registered') /\ registered'[Moved(Kept(j))] = registered[Kept(j)]
      BY <1>11, <2>2
    <2> HIDE DEF Moved
    <2> QED BY <2>1, <2>2, <2>3
  <1>24. \A j, l \in 0 .. n - 2 : new[j] = new[l] => j = l
    <2> SUFFICES ASSUME NEW j \in 0 .. n - 2, NEW l \in 0 .. n - 2, new[j] = new[l] PROVE j = l
      OBVIOUS
    <2>1. Moved(Kept(j)) = Moved(Kept(l))
      <3> HIDE DEF Moved, Kept
      <3> QED BY <1>13
    <2>2. /\ Kept(j) \in 1 .. Len(registered) /\ Kept(j) # i
          /\ Kept(l) \in 1 .. Len(registered) /\ Kept(l) # i
      <3> HIDE DEF Kept, Old
      <3> QED BY <1>8
    <2>3. Kept(j) = Kept(l)
      <3> HIDE DEF Moved, Kept
      <3> QED BY <1>12, <2>1, <2>2
    <2> QED BY <1>9, <2>3
  <1> HIDE DEF Old, Kept, Moved
  <1>25. n - 1 \in Places /\ n - 1 - 1 = n - 2 BY <1>0, <1>17 DEF Places
  <1>26. Chain(d, n - 1)' BY <1>15, <1>16, <1>18, <1>21, <1>22, <1>25 DEF Chain
  <1>27. Answers(d, n - 1, new)' BY <1>23, <1>24, <1>25 DEF Answers
  <1>28. Listed(d, n - 1, new)' BY <1>25, <1>26, <1>27 DEF Listed
  <1> QED BY <1>28

\* Every call keeps the list.
LEMMA DevicesKeep ==
    ASSUME DevInv, DevicesNext
    PROVE  DevInv'
  <1> PICK c, n, reg : Listed(c, n, reg) BY DEF DevInv
  <1>0. DevTypes /\ n \in Places BY DEF DevInv, Listed
  <1>1. ASSUME NEW name \in DeviceNames, Register(name) PROVE DevInv'
    <2>1. PICK node \in Nodes \ devNodes :
            /\ devNodes' = devNodes \cup {node}
            /\ devName' = [devName EXCEPT ![node] = name]
            /\ devNext' = IF devTail = NoNode
                          THEN [devNext EXCEPT ![node] = NoNode]
                          ELSE [devNext EXCEPT ![node] = NoNode, ![devTail] = node]
            /\ devHead' = IF devTail = NoNode THEN node ELSE devHead
            /\ devTail' = node
      BY <1>1 DEF Register
    <2>2. registered' = Append(registered, name) BY <1>1 DEF Register
    <2>3. DevTypes'
      <3>1. node \in NodeOrNone /\ NoNode \in NodeOrNone BY DEF NodeOrNone
      <3>2. devNext' \in [Nodes -> NodeOrNone]
        <4>1. CASE devTail = NoNode BY <1>0, <2>1, <3>1, <4>1 DEF DevTypes
        <4>2. CASE devTail # NoNode BY <1>0, <2>1, <3>1, <4>2 DEF DevTypes
        <4> QED BY <4>1, <4>2
      <3>3. devNodes' \subseteq Nodes BY <1>0, <2>1 DEF DevTypes
      <3>4. devName' \in [Nodes -> DeviceNames \cup {NoNode}] BY <1>0, <2>1 DEF DevTypes
      <3>5. registered' \in Seq(DeviceNames) BY <1>0, <2>2 DEF DevTypes
      <3> QED BY <3>2, <3>3, <3>4, <3>5 DEF DevTypes
    <2>4. CASE devTail = NoNode
      <3>1. \E d, m, new : Listed(d, m, new)' BY <1>0, <2>1, <2>2, <2>4, RegisterBegins
      <3> QED BY <2>3, <3>1 DEF DevInv
    <2>5. CASE devTail # NoNode
      <3>1. \E d, m, new : Listed(d, m, new)' BY <1>0, <2>1, <2>2, <2>5, RegisterAppends
      <3> QED BY <2>3, <3>1 DEF DevInv
    <2> QED BY <2>4, <2>5
  <1>2. ASSUME NEW name \in DeviceNames, Unregister(name) PROVE DevInv'
    <2>1. PICK k \in Places :
            /\ FoundAt(k, name)
            /\ devHead' = IF k = 0 THEN devNext[NodeAt[k]] ELSE devHead
            /\ devNext' = IF k = 0 THEN devNext
                          ELSE [devNext EXCEPT ![NodeAt[k - 1]] = devNext[NodeAt[k]]]
            /\ devTail' = TailAfter(NodeAt[k])
            /\ devNodes' = devNodes \ {NodeAt[k]}
      BY <1>2 DEF Unregister, Places
    <2>2. PICK i \in 1 .. Len(registered) :
            /\ registered[i] = name
            /\ registered' = RemoveAt(registered, i)
      BY <1>2 DEF Unregister, RemoveAt
    <2>3. devName' = devName BY <1>2 DEF Unregister
    <2>4. NodeAt[k] = c[k] /\ (k # 0 => NodeAt[k - 1] = c[k - 1])
      <3>1. k # 0 => k - 1 \in Places BY MaxIsNat DEF Places
      <3> QED BY <1>0, <3>1, NodeAtIs
    <2>5. c[k] # NoNode /\ devName[c[k]] = name BY <2>1, <2>4 DEF FoundAt, Named
    <2>6. k < n BY <2>5 DEF Listed, Chain
    <2>7. k \in 0 .. n - 1 BY <1>0, <2>6, MaxIsNat DEF Places
    <2>8. c[k] \in Nodes BY <2>6, <1>0 DEF Listed, Chain, DevTypes
    <2>9. DevTypes'
      <3>1. devNext[c[k]] \in NodeOrNone BY <1>0, <2>8 DEF DevTypes
      <3>2. devNext' \in [Nodes -> NodeOrNone] BY <1>0, <2>1, <2>4, <3>1 DEF DevTypes
      <3>3. registered' \in Seq(DeviceNames) BY <1>0, <2>2, RemoveAtOk DEF DevTypes
      <3> QED BY <1>0, <2>1, <2>3, <3>2, <3>3 DEF DevTypes
    <2>10. /\ devHead' = IF k = 0 THEN devNext[c[k]] ELSE devHead
           /\ devNext' = IF k = 0 THEN devNext
                         ELSE [devNext EXCEPT ![c[k - 1]] = devNext[c[k]]]
           /\ devTail' = TailAfter(c[k])
           /\ devNodes' = devNodes \ {c[k]}
      BY <2>1, <2>4
    <2>11. \E d, m, new : Listed(d, m, new)'
      BY <1>0, <2>2, <2>3, <2>5, <2>7, <2>10, UnregisterUnlinks
    <2> QED BY <2>9, <2>11 DEF DevInv
  <1> QED BY <1>1, <1>2 DEF DevicesNext

\* What the invariant means for walks, appends and searches.
LEMMA ListIsSound == DevInv => ListSound
  <1> SUFFICES ASSUME DevInv PROVE ListSound
    OBVIOUS
  <1> PICK c, n, reg : Listed(c, n, reg) BY DEF DevInv
  <1>1. DevTypes /\ n \in Places /\ n \in Nat BY MaxIsNat DEF DevInv, Listed, Places
  <1>2. \A k \in Places : NodeAt[k] = c[k] BY <1>1, NodeAtIs
  <1>3. \A k \in Places : IF k < n THEN c[k] \in devNodes ELSE c[k] = NoNode
    BY DEF Listed, Chain
  <1>4. \A k \in Places : NodeAt[k] \in devNodes \cup {NoNode} BY <1>2, <1>3
  <1>5. NodeAt[DeviceMax] = NoNode
    <2>1. DeviceMax \in Places /\ ~(DeviceMax < n) BY <1>1, MaxIsNat DEF Places
    <2> QED BY <1>2, <1>3, <2>1
  <1>6. ASSUME devTail # NoNode PROVE devTail \in devNodes /\ devNext[devTail] = NoNode
    <2>1. n > 0 /\ devTail = c[n - 1] BY <1>6 DEF Listed, Chain
    <2>2. /\ n - 1 \in Places /\ n - 1 < n /\ n \in Places /\ n \in 1 .. n /\ ~(n < n)
      BY <1>1, <2>1, MaxIsNat DEF Places
    <2>3. c[n] = devNext[c[n - 1]] BY <2>2 DEF Listed, Chain
    <2> QED BY <1>3, <2>1, <2>2, <2>3
  <1>7. ASSUME NEW name \in DeviceNames, Found(name)
        PROVE  \E i \in 1 .. Len(registered) : registered[i] = name
    <2>1. PICK k \in Places : Named(k, name) BY <1>7 DEF Found, Places
    <2>2. c[k] # NoNode /\ devName[c[k]] = name BY <1>2, <2>1 DEF Named
    <2>3. k < n BY <1>3, <2>2
    <2>4. k \in 0 .. n - 1 BY <1>1, <2>3, MaxIsNat DEF Places
    <2>5. reg[k] \in 1 .. Len(registered) /\ registered[reg[k]] = devName[c[k]]
      BY <2>4 DEF Listed, Answers
    <2> QED BY <2>2, <2>5
  <1> QED BY <1>4, <1>5, <1>6, <1>7 DEF ListSound, Places

\* Also after the last device was unregistered and the tail is forgotten, no
\* walk meets a freed node or goes on for ever, no append writes to one, and no
\* search finds a device that is not registered (native_device_register,
\* native_device_unregister, native_device_find).
THEOREM ListStaysSound == HalSpec => []ListSound
<1>1. HalInit => DevInv
  <2> SUFFICES ASSUME HalInit PROVE DevInv
    OBVIOUS
  <2>1. DevTypes BY DEF HalInit, DevTypes, NodeOrNone
  <2> DEFINE c == [k \in Places |-> NoNode]
             reg == [k \in Places |-> 0]
  <2>2. c \in [Places -> NodeOrNone] /\ reg \in [Places -> Nat] BY DEF NodeOrNone
  <2>3. 0 \in Places /\ \A k \in Places : ~(k < 0) /\ c[k] = NoNode BY MaxIsNat DEF Places
  <2> HIDE DEF c, reg
  <2>4. Chain(c, 0) BY <2>3 DEF Chain, HalInit
  <2>5. Answers(c, 0, reg) BY DEF Answers
  <2>6. Listed(c, 0, reg) BY <2>2, <2>3, <2>4, <2>5 DEF Listed
  <2> QED BY <2>1, <2>6 DEF DevInv
<1>2. DevInv /\ [HalNext]_halVars => DevInv'
  <2> SUFFICES ASSUME DevInv, [HalNext]_halVars PROVE DevInv'
    OBVIOUS
  <2>1. ASSUME UNCHANGED devVars PROVE DevInv'
    <3>1. DevTypes' BY <2>1 DEF devVars, DevInv, DevTypes
    <3>2. PICK c, n, reg : Listed(c, n, reg) BY DEF DevInv
    <3>3. Listed(c, n, reg)' BY <2>1, <3>2 DEF devVars, Listed, Chain, Answers
    <3> QED BY <3>1, <3>3 DEF DevInv
  <2>2. ASSUME PagesNext PROVE DevInv'
    BY <2>1, <2>2 DEF PagesNext, AllocPhys, FreePhys
  <2>3. ASSUME UNCHANGED halVars PROVE DevInv' BY <2>1, <2>3 DEF halVars
  <2> QED BY <2>2, <2>3, DevicesKeep DEF HalNext
<1> QED BY <1>1, <1>2, ListIsSound, PTL DEF HalSpec
=============================================================================
