--------------------------- MODULE KernelProperties ---------------------------
(***************************************************************************)
(* What the kernel is supposed to keep: properties of the specification in *)
(* Kernel.  Those marked "regime" hold under the stated restriction on the *)
(* constants; runs beyond the restriction show what happens there.         *)
(***************************************************************************)
EXTENDS Kernel

\* The type invariant of the whole kernel state (the statics of proc.c,
\* sched.c and ipc.c).
TypeOK ==
    /\ pcb \in [Slots -> PcbType]
    /\ nextPid \in Nat
    /\ activeCount \in Int /\ agentCount \in Int /\ numProcs \in Int
    /\ kcur \in Nat
    /\ stacks \in Nat
    /\ ring \in RingType
    /\ schedCur \in Nat /\ slice \in Nat /\ boostTimer \in Nat
    /\ inbox \in [Inboxes -> Seq(MsgType)]
    /\ msgId \in Nat
    /\ waiter \in [Slots -> WaiterType]

-----------------------------------------------------------------------------
(* Process table.                                                           *)

\* The counters of flux_proc_count and flux_agent_count and the mirror in the
\* kernel state agree with the table through every spawn, exit and kill.
Counts ==
    /\ activeCount = Cardinality(Used(pcb))
    /\ agentCount = Cardinality(Agents(pcb))
    /\ numProcs = activeCount

\* A live process sits in the slot its PID maps to and its PID was handed out
\* by proc_allocate_pid, so no two live processes have the same PID; a free
\* slot carries no trace of the agent that left it (proc_cleanup).
PidsValid ==
    \A i \in Slots :
        IF pcb[i].state = "UNUSED"
        THEN ~pcb[i].agent /\ pcb[i].pid = INVALID /\ ~pcb[i].bc
        ELSE /\ pcb[i].pid \in 1 .. nextPid - 1
             /\ SlotOf(pcb[i].pid) = i

\* A PID is never handed out twice: a process that appears in a slot, however
\* long the slot was free, has a PID no earlier process had.
FreshPid ==
    \A i \in Slots :
        /\ pcb'[i].state # "UNUSED"
        /\ pcb'[i].pid # pcb[i].pid
        => pcb'[i].pid >= nextPid

PidsFresh == [][FreshPid]_vars

-----------------------------------------------------------------------------
(* The regime in which the scheduler keeps its word.  Each run that checks a *)
(* property of a regime has constants that satisfy it.                      *)

\* No priority changes, neither by a call nor by aging: every process has the
\* priority flux_spawn gave it.
EqualPriorities ==
    /\ "set_priority" \notin Calls \cup KernelCalls
    /\ BoostInterval = 0 \/ MaxBoost <= DefaultPrio

\* The PIDs do not come around the table (FLUX_MAX_PROCESSES), and the ready
\* queue (FLUX_SCHED_QUEUE_SIZE) is no shorter than the table.
PidsNotReused == MaxPid <= MaxProcs /\ MaxPid <= QueueSize + 1

\* The kernel process does not give up the CPU.
KernelStays == KernelCalls \cap {"yield", "recv", "wait"} = {}

\* Nobody blocks for one process, by FLUX_SYSCALL_WAIT or by a filtered receive.
NobodyAwaitsOne ==
    /\ "wait" \notin Calls
    /\ "recv" \in Calls => Filters \subseteq {INVALID}

\* flux_exit wakes a parent that waits for the exiting process without queueing
\* it.  Nobody exits, or who exits is a child of the kernel process, which
\* waits for nobody, or there is no parent that waits for a child.
ExitsWakeNobody == "exit" \notin Calls \/ "spawn" \notin Calls \/ NobodyAwaitsOne

Regime == EqualPriorities /\ PidsNotReused /\ KernelStays /\ ExitsWakeNobody

\* Messages are sent to one process, and nobody is handed to the bytecode stub.
PointToPoint == {"broadcast", "bytecode"} \cap (Calls \cup KernelCalls) = {}

-----------------------------------------------------------------------------
(* Scheduler.                                                               *)

\* proc.c's idea of the running process (current_pid of the kernel state) and
\* sched.c's (s_current_pid) are the same, or sched.c has none after a yield.
CpuAgrees == schedCur \in {INVALID, kcur}

\* The occupied window of the ready queue lies between head and tail after
\* every insertion and every removal in the middle (flux_sched_enqueue,
\* flux_sched_dequeue, the wake-ups of flux_a2a_broadcast).
RingShape == WellShaped(ring)

\* Both together: no insertion overruns the queue, and no index, counter or
\* state leaves its range.
WellFormed == TypeOK /\ RingShape

\* Regime.  A process that is ready or running is on the CPU or in the ready queue: no
\* interleaving of spawns, yields, kills, sends, receives and preemptions
\* loses a runnable process (flux_sched_run: "Re-enqueues the process if
\* still runnable").
RunnableScheduled ==
    \A i \in Slots :
        pcb[i].state \in {"READY", "RUNNING"} =>
            pcb[i].pid \in QueuedPids(ring) \cup {schedCur, KERNEL}

\* An idle agent that becomes ready or running is in the queue, or leaves it.
Awake ==
    \A i \in Slots :
       /\ pcb[i].state = "AGENT_IDLE"
       /\ pcb'[i].state \in {"READY", "RUNNING"}
       => pcb[i].pid \in QueuedPids(ring) \cup QueuedPids(ring')

\* Regime.  An idle agent that becomes ready or running, by a message, a
\* broadcast or otherwise, is in the ready queue then or was taken from it:
\* waking an agent always reaches the scheduler.
AwakeIsScheduled == [][Awake]_vars

\* The processes a ring names, oldest entry first.
LineOf(r) == [k \in 1 .. r.count |-> EntryAt(r, k - 1).pid]

\* The processes that can run; the kernel process only idles.
Able == {pcb[i].pid : i \in {j \in Slots \ {0} : pcb[j].state \in {"READY", "RUNNING"}}}

Line == INSTANCE WaitingLine WITH
            Tasks <- Pids \ {KERNEL}, Idler <- KERNEL,
            line <- LineOf(ring), turn <- kcur, able <- Able

\* Regime.  Round robin: the ready queue is a waiting line.  No interleaving of
\* spawns, exits, yields, kills, messages and preemptions queues a process
\* twice, lets it overtake another or forgets it, and a switch takes the first
\* one (flux_sched_run, flux_sched_enqueue, flux_sched_dequeue).
RoundRobin == Line!Spec

\* The loop of flux_sched_dequeue, an assignment per iteration.
ShiftLoop(slots, b, n) ==
    LET after[k \in 0 .. n] ==
            IF k = 0 THEN slots
            ELSE [after[k - 1] EXCEPT ![(b + k - 1) % QueueSize] =
                                           after[k - 1][(b + k) % QueueSize]]
    IN  after[n]

\* The closed form of the shift in ReadyRing is that loop, for the slot of
\* every entry.
ShiftIsLoop ==
    \A k \in Positions(ring) :
        LET b == SlotAt(ring, k)
            n == ShiftLength(ring, b)
        IN  Shifted(ring.slots, b, n) = ShiftLoop(ring.slots, b, n)

\* The scan of sched_find_highest_priority, which starts with the head and
\* replaces the best by strictly better entries, finds the entry IsBest says.
BestIsScan ==
    LET best[k \in Nat] ==
            IF k = 0 THEN 0
            ELSE IF EntryAt(ring, k).prio > EntryAt(ring, best[k - 1]).prio
                 THEN k ELSE best[k - 1]
    IN  \A k \in Positions(ring) : IsBest(ring, k) <=> k = best[ring.count - 1]

\* Wherever the window lies in the array, flux_sched_dequeue's scan selects the
\* first entry of the highest priority, and its loop of assignments leaves the
\* array as the model's removal does, over-long shifts across the wrap included.
LoopsMatch == ShiftIsLoop /\ BestIsScan

\* A switch takes entry k of the queue s, which is the first of the highest
\* priority.
TakesBest(s, k) ==
    /\ schedCur' = s[k].pid
    /\ RingSeq(ring') = RemoveAt(s, k)
    /\ \A j \in DOMAIN s : \/ s[j].prio < s[k].prio
                           \/ s[j].prio = s[k].prio /\ k <= j

SwitchInOrder ==
    SwitchTo /\ SwitchRing.head + SwitchRing.count <= QueueSize =>
        LET s == RingSeq(BoostRing(SwitchRing))
        IN  \E k \in DOMAIN s : TakesBest(s, k)

\* While the occupied window does not wrap, a switch takes exactly the first
\* entry of the highest priority out of the queue and leaves the others in
\* their order (comment of flux_sched_dequeue: priority, then FIFO).
HighestFirst == [][SwitchInOrder]_vars

\* Regime: equal priorities, every process gives up the CPU at the end of its
\* slice.  A queued process gets the CPU.
Served(pid) == pid \in QueuedPids(ring) ~> schedCur = pid

EveryoneServed == \A pid \in Pids : Served(pid)

-----------------------------------------------------------------------------
(* Messaging.                                                               *)

\* Messages wait in an inbox in the order they were sent, each once.
InboxOrdered ==
    \A p \in Inboxes :
        /\ Len(inbox[p]) <= QueueDepth
        /\ \A j, k \in DOMAIN inbox[p] :
              j < k => inbox[p][j].id < inbox[p][k].id
        /\ \A k \in DOMAIN inbox[p] : inbox[p][k].id < msgId

\* The process whose code is on the CPU, as messaging knows it.
Receiver == IF waiter[Here] = NoWaiter THEN kcur ELSE waiter[Here].pid

\* A new message arrives at the end of the inbox of p.
Delivered(p) ==
    /\ msgId' = msgId + 1
    /\ \E to \in {p, INVALID} : inbox'[p] = Append(inbox[p], Msg(kcur, to))

\* The owner of inbox p takes a message that no earlier message of the same
\* sender precedes.
Taken(p) ==
    /\ p = Receiver /\ msgId' = msgId
    /\ \E k \in DOMAIN inbox[p] :
          /\ inbox'[p] = RemoveAt(inbox[p], k)
          /\ \A j \in 1 .. k - 1 : inbox[p][j].from # inbox[p][k].from

InTurn == \A p \in Inboxes : inbox'[p] # inbox[p] => Delivered(p) \/ Taken(p)

\* Inboxes change by delivery at the end and by their owner taking a message
\* in its turn, one at a time:
\* the messages between two processes are never reordered, lost or repeated,
\* even under filtered receives.
MailboxDiscipline == [][InTurn]_vars

\* A waiting receive whose message is there, but whose process the scheduler
\* does not know: nothing but another event can make it look.
Asleep(i) ==
    /\ waiter[i] # NoWaiter
    /\ waiter[i].pid # KERNEL     \* runs whenever the queue is empty
    /\ HasMatch(inbox[waiter[i].pid], waiter[i].filter)
    /\ waiter[i].pid \notin QueuedPids(ring) \cup {schedCur}

\* Regime, PointToPoint.  flux_a2a_recv blocks until a message is available:
\* its process is scheduled from then on.
NoLostWakeup == \A i \in Slots : ~Asleep(i)

\* Regime: point-to-point messages only, no exits.  A receive that waits
\* for a message that has arrived returns.
RecvReturns ==
    \A i \in Slots :
        /\ waiter[i].pid \notin {INVALID, KERNEL}
        /\ HasMatch(inbox[waiter[i].pid], waiter[i].filter)
        ~> waiter[i] = NoWaiter

-----------------------------------------------------------------------------
(* What comments in the code say, that the code does not keep.  Each is the *)
(* subject of a run that exhibits a counterexample.                         *)

\* sched.c:346: flux_sched_dequeue removes "the next process to run"; it removes
\* that one and no other, also when the window wraps around the array.
RemovesOnlySelected ==
    [][SwitchTo =>
          LET s == RingSeq(BoostRing(SwitchRing))
          IN  \E k \in DOMAIN s : /\ schedCur' = s[k].pid
                                 /\ RingSeq(ring') = RemoveAt(s, k)]_vars
=============================================================================
