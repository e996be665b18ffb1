------------------------------- MODULE Sched -------------------------------
(***************************************************************************)
(* The scheduler of kernel/sched.c over the process table: the ready ring, *)
(* the process on the CPU, its time slice and the aging timer.             *)
(*                                                                         *)
(* One iteration of flux_sched_run's loop is one timer tick (the action    *)
(* Tick); the code calls it the idle thread / timer ISR handler.  Between  *)
(* two ticks the process on the CPU runs and may make system calls.        *)
(*                                                                         *)
(* BoostInterval = 0 stands for an interval longer than the behaviours     *)
(* considered: aging never becomes due.  It is a bound of the runs; the    *)
(* code's value is 1000 dequeues.                                          *)
(***************************************************************************)
EXTENDS ProcTable, ReadyRing

CONSTANTS Timeslice,     \* s_default_timeslice
          ThinkBonus,    \* FLUX_SCHED_AGENT_THINK_BONUS
          BoostInterval, \* FLUX_SCHED_PRIORITY_BOOST_INTERVAL
          BoostAmount,   \* FLUX_SCHED_PRIORITY_BOOST_AMOUNT
          MaxBoost       \* FLUX_SCHED_MAX_PRIORITY_BOOST

ASSUME SchedAssumption ==
    /\ Timeslice \in Nat \ {0}     \* flux_sched_set_timeslice rejects 0
    /\ ThinkBonus \in Nat /\ BoostInterval \in Nat
    /\ BoostAmount \in Nat /\ MaxBoost \in Nat

VARIABLES
    ring,        \* s_ready_queue, s_queue_head, s_queue_tail, s_queue_count
    schedCur,    \* s_current_pid
    slice,       \* s_stats.current_timeslice
    boostTimer   \* s_stats.boost_timer

schedVars == <<ring, schedCur, slice, boostTimer>>

\* flux_sched_init.
SchedInit ==
    /\ ring = EmptyRing
    /\ schedCur = KERNEL
    /\ slice = 0
    /\ boostTimer = 0

-----------------------------------------------------------------------------
(* flux_sched_enqueue, as what it makes of the ring and of the table.       *)

\* Not queued yet, room, and a process in the slot of the PID.
CanEnqueue(pcbs, r, pid) ==
    /\ pid \notin QueuedPids(r)
    /\ r.count < QueueSize
    /\ Exists(pcbs, pid)

EntryFor(p, pid) ==
    [pid |-> pid, prio |-> p.prio, age |-> 0,
     slice |-> IF p.agent /\ p.state = "AGENT_THINKING"
               THEN Timeslice + ThinkBonus ELSE Timeslice]

EnqueueRing(pcbs, r, pid) ==
    IF CanEnqueue(pcbs, r, pid) THEN Push(r, EntryFor(pcbs[SlotOf(pid)], pid))
                                ELSE r

EnqueuePcb(pcbs, r, pid) ==
    IF CanEnqueue(pcbs, r, pid)
       /\ pcbs[SlotOf(pid)].state \in {"BLOCKED", "AGENT_IDLE"}
    THEN [pcbs EXCEPT ![SlotOf(pid)].state = "READY"]
    ELSE pcbs

-----------------------------------------------------------------------------
(* Priority aging, done on the way into flux_sched_dequeue.                 *)

AgeCap == IF BoostInterval = 0 THEN 0 ELSE BoostInterval + 1

\* tick_count++ seen from the entries: each has waited one tick more.
Aged(r) ==
    [r EXCEPT !.slots = [i \in RingIdx |->
        [r.slots[i] EXCEPT !.age = IF @ < AgeCap THEN @ + 1 ELSE AgeCap]]]

AgingDue == BoostInterval # 0 /\ boostTimer + 1 >= BoostInterval

Boostable(e) == e.age > BoostInterval /\ e.prio < MaxBoost

\* An entry that waited too long gains BoostAmount, up to MaxBoost.
Boosted(e) ==
    IF Boostable(e)
    THEN [e EXCEPT !.prio = IF @ + BoostAmount > MaxBoost
                            THEN MaxBoost ELSE @ + BoostAmount]
    ELSE e

Occupied(r) == {SlotAt(r, k) : k \in Positions(r)}

\* sched_age_priorities on the queue.
BoostRing(r) ==
    IF AgingDue
    THEN [r EXCEPT !.slots = [i \in RingIdx |->
            IF i \in Occupied(r) THEN Boosted(r.slots[i]) ELSE r.slots[i]]]
    ELSE r

\* Entry k is boosted and its pid leads to slot i; of several such entries
\* the loop visits the last one last.
Boosts(r, k, i) ==
    /\ Boostable(EntryAt(r, k))
    /\ EntryAt(r, k).pid # INVALID
    /\ SlotOf(EntryAt(r, k).pid) = i

IsLastBoost(r, k, i) ==
    Boosts(r, k, i) /\ \A j \in Positions(r) : Boosts(r, j, i) => j <= k

\* sched_age_priorities on the table: a boost is copied to the PCB.
BoostPcbs(pcbs, r) ==
    IF AgingDue
    THEN [i \in Slots |->
            IF pcbs[i].state # "UNUSED" /\ \E k \in Positions(r) : IsLastBoost(r, k, i)
            THEN LET k == CHOOSE k \in Positions(r) : IsLastBoost(r, k, i)
                 IN  [pcbs[i] EXCEPT !.prio = Boosted(EntryAt(r, k)).prio]
            ELSE pcbs[i]]
    ELSE pcbs

-----------------------------------------------------------------------------
(* The scheduler loop.                                                      *)

\* Time left: the running process keeps the CPU.
KeepRunning ==
    /\ schedCur # INVALID /\ slice > 0
    /\ slice' = slice - 1
    /\ ring' = Aged(ring)
    /\ UNCHANGED <<pcb, kcur, schedCur, boostTimer>>

\* Variant: the outgoing process is dropped unless it was preempted early.
MustRequeueNever == FALSE

\* The outgoing process goes back to the queue while it is RUNNING.
MustRequeue ==
    /\ schedCur \notin {INVALID, KERNEL}
    /\ Exists(pcb, schedCur)
    /\ pcb[SlotOf(schedCur)].state = "RUNNING"

\* The ring and the table a switch dequeues from.
SwitchRing == IF MustRequeue THEN EnqueueRing(pcb, Aged(ring), schedCur)
                             ELSE Aged(ring)

\* Variant: the kernel state keeps naming the previous process.
GoIdleKeepsKcur ==
    /\ schedCur = INVALID \/ slice = 0
    /\ SwitchRing.count = 0
    /\ ring' = SwitchRing
    /\ schedCur' = KERNEL
    /\ slice' = 1
    /\ UNCHANGED <<pcb, kcur, boostTimer>>

\* Nobody is ready: the kernel process idles for one tick.
GoIdle ==
    /\ schedCur = INVALID \/ slice = 0
    /\ SwitchRing.count = 0
    /\ ring' = SwitchRing
    /\ schedCur' = KERNEL
    /\ kcur' = KERNEL
    /\ slice' = 1
    /\ UNCHANGED <<pcb, boostTimer>>

\* The process of entry e, taken out of the queue, gets the CPU.  Nothing
\* checks that its pid still belongs to a live process; if none is in its
\* slot the time slice is not even set.
SwitchToEntry(e, pcbs) ==
    /\ schedCur' = e.pid
    /\ kcur' = e.pid
    /\ IF Exists(pcbs, e.pid)
       THEN /\ pcb' = [pcbs EXCEPT ![SlotOf(e.pid)].state = "RUNNING"]
            /\ slice' = e.slice
       ELSE /\ pcb' = pcbs
            /\ slice' = slice

\* flux_sched_dequeue and the switch to the process it selects.
SwitchTo ==
    /\ schedCur = INVALID \/ slice = 0
    /\ LET r    == BoostRing(SwitchRing)
           pcbs == BoostPcbs(pcb, SwitchRing)
       IN  \E k \in Positions(r) :
              /\ IsBest(r, k)
              /\ SwitchToEntry(EntryAt(r, k), pcbs)
              /\ ring' = RemoveSlot(r, SlotAt(r, k))
    /\ boostTimer' = IF BoostInterval = 0 \/ AgingDue THEN 0 ELSE boostTimer + 1

SchedStep == KeepRunning \/ GoIdle \/ SwitchTo

\* flux_sched_yield_current.
YieldCurrent == schedCur' = INVALID
=============================================================================
