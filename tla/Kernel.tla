------------------------------- MODULE Kernel -------------------------------
(***************************************************************************)
(* The FLUX microkernel: process table, scheduler and messaging composed,  *)
(* driven by the system calls of kernel/syscall.c.                         *)
(*                                                                         *)
(* There is one CPU.  Either the timer ticks (Tick: one iteration of       *)
(* flux_sched_run), or the process on the CPU performs a system call, which*)
(* runs to completion.  A call that waits (flux_a2a_recv) is several steps:*)
(* the call, then polls of its loop while the process is on the CPU.       *)
(***************************************************************************)
EXTENDS Ipc

CONSTANTS Calls,        \* the system calls processes make in a run
          KernelCalls,  \* those that the kernel process makes
          Filters,      \* the senders a receive asks for (INVALID is any)
          AgentKinds,   \* is_agent arguments flux_spawn is given
          Priorities    \* the priorities flux_proc_set_priority is given

AllCalls == {"spawn", "exit", "kill", "wait", "yield", "set_state", "set_priority",
             "bytecode", "send", "recv", "broadcast"}

ASSUME KernelAssumption ==
    /\ Calls \subseteq AllCalls /\ KernelCalls \subseteq AllCalls
    /\ AgentKinds \subseteq BOOLEAN
    /\ Filters \subseteq Nat
    /\ Priorities \subseteq Nat

vars == <<procVars, schedVars, ipcVars>>

Init == ProcInit /\ SchedInit /\ IpcInit

Pids == 1 .. MaxPid

\* The slot and the PCB of the process on the CPU.
Here == SlotOf(kcur)
Me == pcb[Here]

\* The process on the CPU exists and is not waiting for anything, so its
\* code is what runs between two ticks.
Executing ==
    /\ schedCur = kcur
    /\ Exists(pcb, kcur)
    /\ Me.state \notin {"BLOCKED", "AGENT_IDLE"}
    /\ waiter[Here] = NoWaiter

\* The process on the CPU makes a system call.
Calling(call) ==
    /\ call \in IF kcur = KERNEL THEN KernelCalls ELSE Calls
    /\ Executing

-----------------------------------------------------------------------------
(* Process management.                                                      *)

Tick ==
    /\ SchedStep
    /\ waiter' = Elapsed(waiter)
    /\ UNCHANGED <<nextPid, activeCount, agentCount, numProcs, stacks, inbox, msgId>>

\* flux_spawn once proc_allocate_pid chose pid and the stack was allocated.
Spawn(pid, agent) ==
    /\ Calling("spawn")
    /\ activeCount < MaxProcs
    /\ IsNextFree(pid)
    /\ stacks < StackCapacity
    /\ nextPid' = pid + 1
    /\ stacks' = stacks + 1
    /\ pcb' = [pcb EXCEPT ![SlotOf(pid)] = SpawnedPcb(pid, kcur, agent)]
    /\ agentCount' = agentCount + (IF agent THEN 1 ELSE 0)
    /\ activeCount' = activeCount + 1
    /\ numProcs' = activeCount + 1
    /\ ring' = EnqueueRing(pcb', ring, pid)
    /\ UNCHANGED <<kcur, schedCur, slice, boostTimer, ipcVars>>

\* flux_spawn when the heap has no room for a stack: the PID is used up.
SpawnNoStack(pid) ==
    /\ Calling("spawn")
    /\ activeCount < MaxProcs
    /\ IsNextFree(pid)
    /\ stacks >= StackCapacity
    /\ nextPid' = pid + 1
    /\ UNCHANGED <<pcb, activeCount, agentCount, numProcs, kcur, stacks,
                   schedVars, ipcVars>>

\* proc_cleanup of slot i in a table pcbs, with the counters it updates.  The
\* stack stays allocated, the inbox keeps its messages and the ready queue
\* keeps its entry.
Cleanup(pcbs, i) ==
    /\ pcb' = [pcbs EXCEPT ![i] = CleanPcb(pcbs[i])]
    /\ agentCount' = agentCount - AgentWeight(pcbs[i])
    /\ activeCount' = activeCount - 1
    /\ numProcs' = activeCount - 1
    /\ Forget(i)
    /\ UNCHANGED <<nextPid, kcur, stacks, inbox, msgId>>

\* flux_exit wakes a parent that waits for the exiting PID: it becomes READY
\* but is not put on the ready queue.
ParentAfterExit ==
    LET parent == SlotOf(Me.parent)
    IN  IF /\ Me.parent # INVALID
           /\ parent # Here
           /\ pcb[parent].state \in {"BLOCKED", "AGENT_IDLE"}
           /\ pcb[parent].waiting = kcur
        THEN [pcb EXCEPT ![parent] = Woken(@)]
        ELSE pcb

\* flux_exit of the current process.  The kernel process would panic.
Exit ==
    /\ Calling("exit")
    /\ kcur # KERNEL
    /\ Cleanup(ParentAfterExit, Here)
    /\ YieldCurrent
    /\ UNCHANGED <<ring, slice, boostTimer>>

\* flux_kill: only the PID 1 itself is refused.
Kill(pid) ==
    /\ Calling("kill")
    /\ pid # KERNEL
    /\ Exists(pcb, pid)
    /\ Cleanup(pcb, SlotOf(pid))
    /\ UNCHANGED schedVars

\* FLUX_SYSCALL_WAIT.
Wait(pid) ==
    /\ Calling("wait")
    /\ Exists(pcb, pid)
    /\ pcb' = [pcb EXCEPT ![Here].state = "BLOCKED", ![Here].waiting = pid]
    /\ UNCHANGED <<nextPid, activeCount, agentCount, numProcs, kcur, stacks,
                   schedVars, ipcVars>>

\* flux_yield.
Yield ==
    /\ Calling("yield")
    /\ LET pcbs == IF Me.state = "RUNNING"
                   THEN [pcb EXCEPT ![Here].state = "READY"] ELSE pcb
       IN  /\ pcb' = EnqueuePcb(pcbs, ring, kcur)
           /\ ring' = EnqueueRing(pcbs, ring, kcur)
    /\ YieldCurrent
    /\ UNCHANGED <<nextPid, activeCount, agentCount, numProcs, kcur, stacks,
                   slice, boostTimer, ipcVars>>

\* flux_proc_set_state, by an agent about itself: the two agent states.
SetState(st) ==
    /\ Calling("set_state")
    /\ Me.agent
    /\ pcb' = [pcb EXCEPT ![Here].state = st]
    /\ UNCHANGED <<nextPid, activeCount, agentCount, numProcs, kcur, stacks,
                   schedVars, ipcVars>>

\* flux_proc_set_priority.  An entry already queued keeps the old priority.
SetPriority(pid, prio) ==
    /\ Calling("set_priority")
    /\ Exists(pcb, pid)
    /\ pcb' = [pcb EXCEPT ![SlotOf(pid)].prio = prio]
    /\ UNCHANGED <<nextPid, activeCount, agentCount, numProcs, kcur, stacks,
                   schedVars, ipcVars>>

\* flux_bc_load, then flux_bc_exec, which marks the process COMPILED whatever
\* state it was in.
BcLoad(pid) ==
    /\ Calling("bytecode")
    /\ Exists(pcb, pid)
    /\ pcb' = [pcb EXCEPT ![SlotOf(pid)].bc = TRUE]
    /\ UNCHANGED <<nextPid, activeCount, agentCount, numProcs, kcur, stacks,
                   schedVars, ipcVars>>

BcExec(pid) ==
    /\ Calling("bytecode")
    /\ Exists(pcb, pid)
    /\ pcb[SlotOf(pid)].bc
    /\ pcb' = [pcb EXCEPT ![SlotOf(pid)].state = "COMPILED"]
    /\ UNCHANGED <<nextPid, activeCount, agentCount, numProcs, kcur, stacks,
                   schedVars, ipcVars>>

-----------------------------------------------------------------------------
(* Messaging.                                                               *)

\* flux_a2a_send, when it succeeds.  Every error path leaves this state as
\* it was (FLUX_ERR_NOTFOUND, FLUX_ERR_OVERFLOW).
Send(target) ==
    /\ Calling("send")
    /\ msgId < MaxMsgs
    /\ Exists(pcb, target) /\ HasInbox(target)
    /\ ~IsFull(inbox[target])
    /\ inbox' = [inbox EXCEPT ![target] = Append(@, Msg(kcur, target))]
    /\ msgId' = msgId + 1
    /\ LET t == SlotOf(target)
       IN  IF WokenBySend(pcb[t])
           THEN /\ pcb' = [pcb EXCEPT ![t] = Woken(@)]
                /\ ring' = EnqueueRing(pcb', ring, target)
           ELSE UNCHANGED <<pcb, ring>>
    /\ UNCHANGED <<nextPid, activeCount, agentCount, numProcs, kcur, stacks,
                   schedCur, slice, boostTimer, waiter>>

\* flux_a2a_recv that finds its message at once.
RecvNow(filter) ==
    /\ Calling("recv")
    /\ HasInbox(kcur)
    /\ TakeMatch(kcur, filter)
    /\ UNCHANGED <<procVars, schedVars, msgId, waiter>>

\* flux_a2a_recv that does not, and may wait: the process is BLOCKED and
\* enters the polling loop.
RecvBlock(filter, timeout) ==
    /\ Calling("recv")
    /\ HasInbox(kcur)
    /\ ~HasMatch(inbox[kcur], filter)
    /\ timeout # 0
    /\ pcb' = [pcb EXCEPT ![Here].state = "BLOCKED", ![Here].waiting = filter]
    /\ waiter' = [waiter EXCEPT ![Here] =
                     [pid |-> kcur, filter |-> filter, left |-> timeout]]
    /\ UNCHANGED <<nextPid, activeCount, agentCount, numProcs, kcur, stacks,
                   schedVars, inbox, msgId>>

\* The waiting call whose loop the CPU is in.
Polling == schedCur = kcur /\ Exists(pcb, kcur) /\ waiter[Here] # NoWaiter

\* The polling loop gives up.  If the process is not BLOCKED any more its
\* state is left alone.
PollTimeout ==
    /\ Polling
    /\ waiter[Here].left = 0
    /\ IF Me.state = "BLOCKED"
       THEN /\ pcb' = [pcb EXCEPT ![Here] = Woken(@)]
            /\ ring' = EnqueueRing(pcb', ring, waiter[Here].pid)
       ELSE UNCHANGED <<pcb, ring>>
    /\ Forget(Here)
    /\ UNCHANGED <<nextPid, activeCount, agentCount, numProcs, kcur, stacks,
                   schedCur, slice, boostTimer, inbox, msgId>>

\* The polling loop finds a message.
PollReceive ==
    /\ Polling
    /\ waiter[Here].left # 0
    /\ TakeMatch(waiter[Here].pid, waiter[Here].filter)
    /\ pcb' = [pcb EXCEPT ![Here].state = "RUNNING", ![Here].waiting = INVALID]
    /\ Forget(Here)
    /\ UNCHANGED <<nextPid, activeCount, agentCount, numProcs, kcur, stacks,
                   schedVars, msgId>>

\* flux_a2a_broadcast.
Broadcast ==
    /\ Calling("broadcast")
    /\ msgId < MaxMsgs
    /\ inbox' = [p \in Inboxes |->
                    IF p \in BroadcastTargets(kcur)
                    THEN Append(inbox[p], Msg(kcur, INVALID)) ELSE inbox[p]]
    /\ msgId' = msgId + 1
    /\ pcb' = BroadcastPcb(kcur)
    /\ ring' = BroadcastRing(kcur)
    /\ UNCHANGED <<nextPid, activeCount, agentCount, numProcs, kcur, stacks,
                   schedCur, slice, boostTimer, waiter>>

-----------------------------------------------------------------------------

Next ==
    \/ Tick
    \/ Exit \/ Yield
    \/ \E pid \in Pids :
          \/ \E agent \in AgentKinds : Spawn(pid, agent)
          \/ SpawnNoStack(pid)
          \/ Kill(pid)
          \/ Wait(pid)
          \/ \E prio \in Priorities : SetPriority(pid, prio)
          \/ BcLoad(pid) \/ BcExec(pid)
          \/ Send(pid)
    \/ \E st \in {"AGENT_IDLE", "AGENT_THINKING"} : SetState(st)
    \/ \E filter \in Filters :
          \/ RecvNow(filter)
          \/ \E timeout \in Timeouts \cup {FOREVER} : RecvBlock(filter, timeout)
    \/ PollTimeout \/ PollReceive
    \/ Broadcast

Spec == Init /\ [][Next]_vars

\* The polling loop of the process in slot i.
Poll(i) == Here = i /\ (PollTimeout \/ PollReceive)

(* The timer keeps ticking, and a polling loop on the CPU makes progress:   *)
(* it polls many times per tick, so a process that is given the CPU over    *)
(* and over does not miss its message over and over.                        *)
Fairness == WF_vars(Tick) /\ \A i \in Slots : SF_vars(Poll(i))

FairSpec == Spec /\ Fairness
=============================================================================
