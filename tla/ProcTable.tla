----------------------------- MODULE ProcTable -----------------------------
(***************************************************************************)
(* The process table of kernel/proc.c: the PCB array, the PID watermark    *)
(* and the two population counters, with the operators the rest of the     *)
(* kernel reads and rewrites it by.  A PID is mapped to a slot modulo the  *)
(* table size, so PIDs beyond the table alias earlier ones.                *)
(***************************************************************************)
EXTENDS Integers, FiniteSets

CONSTANTS MaxProcs,      \* FLUX_MAX_PROCESSES (and the number of inboxes)
          DefaultPrio,   \* priority of a spawned process (128 in the code)
          KernelPrio,    \* priority of the kernel process (255 in the code)
          MaxPid,        \* bound: no PID above it is handed out in a run
          StackCapacity  \* how many stacks the heap can hold

ASSUME ProcAssumption ==
    /\ MaxProcs \in Nat \ {0}
    /\ DefaultPrio \in Nat /\ KernelPrio \in Nat
    /\ MaxPid \in Nat \ {0} /\ StackCapacity \in Nat

VARIABLES
    pcb,          \* s_pcb_table
    nextPid,      \* s_next_pid
    activeCount,  \* s_active_count
    agentCount,   \* s_agent_count
    numProcs,     \* flux_kernel_state()->num_processes
    kcur,         \* flux_kernel_state()->current_pid
    stacks        \* stacks flux_spawn took from the heap and nobody freed

procVars == <<pcb, nextPid, activeCount, agentCount, numProcs, kcur, stacks>>

KERNEL == 1      \* FLUX_PID_KERNEL
INVALID == 0     \* FLUX_PID_INVALID

Slots == 0 .. MaxProcs - 1

States == {"UNUSED", "READY", "RUNNING", "BLOCKED", "AGENT_IDLE",
           "AGENT_THINKING", "COMPILED"}

PcbType ==
    [state: States, pid: Nat, parent: Nat, prio: Nat, agent: BOOLEAN,
     waiting: Nat, bc: BOOLEAN]

UnusedPcb == [state |-> "UNUSED", pid |-> INVALID, parent |-> INVALID,
              prio |-> 0, agent |-> FALSE, waiting |-> INVALID, bc |-> FALSE]

KernelPcb == [UnusedPcb EXCEPT !.state = "RUNNING", !.pid = KERNEL,
                               !.prio = KernelPrio]

\* flux_proc_init.
ProcInit ==
    /\ pcb = [i \in Slots |-> IF i = 0 THEN KernelPcb ELSE UnusedPcb]
    /\ nextPid = 2
    /\ activeCount = 1
    /\ agentCount = 0
    /\ numProcs = 1
    /\ kcur = KERNEL
    /\ stacks = 0

-----------------------------------------------------------------------------

\* proc_pid_to_index: pid - 1, wrapped into the table.
SlotOf(pid) == (pid - 1) % MaxProcs

\* flux_get_pcb(pid) # NULL.  It looks at the slot, never at the pid in it.
Exists(pcbs, pid) == pid # INVALID /\ pcbs[SlotOf(pid)].state # "UNUSED"

Used(pcbs) == {i \in Slots : pcbs[i].state # "UNUSED"}
Agents(pcbs) == {i \in Slots : pcbs[i].agent}

\* Variant: the scan restarts at the first application PID each time.
IsNextFreeFromStart(c) ==
    /\ c >= 2
    /\ pcb[SlotOf(c)].state = "UNUSED"
    /\ \A d \in 2 .. c - 1 : pcb[SlotOf(d)].state # "UNUSED"

(* proc_allocate_pid: the first candidate from s_next_pid on whose slot is  *)
(* free.  Scanning MaxProcs candidates visits every slot, so it only fails  *)
(* on a full table (the scan by slot that follows it then fails as well).   *)
IsNextFree(c) ==
    /\ c >= nextPid
    /\ pcb[SlotOf(c)].state = "UNUSED"
    /\ \A d \in nextPid .. c - 1 : pcb[SlotOf(d)].state # "UNUSED"

\* The PCB flux_spawn builds.
SpawnedPcb(pid, parent, agent) ==
    [UnusedPcb EXCEPT !.state = "READY", !.pid = pid, !.parent = parent,
                      !.prio = DefaultPrio, !.agent = agent]

\* Variant: the agent mark survives the process.
CleanPcbKeepsAgent(p) ==
    [p EXCEPT !.state = "UNUSED", !.pid = INVALID, !.waiting = INVALID,
              !.bc = FALSE]

\* proc_cleanup on one PCB; priority and parent keep their last value.
CleanPcb(p) ==
    [p EXCEPT !.state = "UNUSED", !.pid = INVALID, !.waiting = INVALID,
              !.bc = FALSE, !.agent = FALSE]

\* Variant: agents are never uncounted.
AgentWeightZero(p) == 0

\* What proc_cleanup subtracts from s_agent_count for a PCB.
AgentWeight(p) == IF p.agent THEN 1 ELSE 0
=============================================================================
