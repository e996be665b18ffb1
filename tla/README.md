# FLUX OS in TLA+

A verification development for the FLUX microkernel: TLA+ modules translated
from the C source, TLC runs that check them on small instances, and theorems
about them checked by TLAPS for every value of the constants.

File references are to the repository (`kernel/sched.c:384`), definitions to the
modules beside this file. `PROJECT.json` maps each definition to its lines.

## 1. The system

FLUX OS runs on one CPU. `flux_sched_run` is the timer loop: one iteration is
one tick ("the idle thread / timer ISR handler", `sched.c:438`). Between ticks
the process on the CPU runs and makes system calls, which `kernel/syscall.c`
dispatches to the subsystems. A second, independent runtime under `agent/`
manages sandboxed bytecode agents.

| Part | State it keeps | Operations | What makes it correct |
|---|---|---|---|
| Process table, `kernel/proc.c` | 256 PCBs, PID watermark, population counters | spawn, exit, kill, yield, set_state, set_priority, lookup by PID | a PID names one process, PIDs are not reused, counters equal the table, an ended process leaves nothing behind |
| Scheduler, `kernel/sched.c` | circular ready queue, current PID, time slice, aging timer | enqueue, dequeue (highest priority, FIFO among equals, aging), tick, yield | each runnable process is queued once or running; removal takes the selected entry only; nobody starves |
| Messaging, `kernel/ipc.c` | one circular inbox per PID, sequence number | send, receive (sender filter, timeout), broadcast | per-sender FIFO, no loss or duplicate, a receiver whose message is there runs |
| System calls, `kernel/syscall.c` | none of its own | dispatch, argument checks, FLUX_SYSCALL_WAIT | checks before calls; a wait ends |
| Boot, bytecode stubs, `kernel/main.c` | kernel state record | init order, flux_bc_load, flux_bc_exec | |
| Memory, `kernel/mem.c` | free list in a static heap, map and permission tables, accounting | alloc, free, realloc, protect, map queries, check | blocks tile the heap, the free list is sorted and coalesced, allocations never overlap, the books agree with the blocks |
| Agent registry, `agent/agent.c` | 64 slots, ID bitmap, lifecycle state | init, shutdown, spawn, terminate, pause, resume | bitmap and slots agree, an ID reused means a fresh agent |
| Agent messaging, `agent/a2a.c` | message pool, inbox rings of pointers, delegation records | send, receive with wait, broadcast to a topic, reply, delegate, result | pool slots are owned by exactly one inbox, a waiting agent wakes, a delegation is answered |
| Discovery, `agent/discovery.c` | topics with subscribers, published capabilities | publish, discover, subscribe, unsubscribe | registry names live agents only |
| Capabilities, `agent/capability.c` | capability masks, audit ring | grant, revoke, transfer, check | rights are moved, not invented |
| Sandbox, `agent/sandbox.c` | budgets, scheduling cursor | run a slice, step, schedule | limits hold, a trapped or halted agent does not run |
| VM, `vm/vm.c` | registers, operand and call stack, cycle budget | load, reset, step, run, halt, trap | pointers stay within the stacks, a run with a limit returns, word operations compute what they are named for |
| VM regions, `vm/region.c` | region table, active region | create, destroy, activate, resize, write, fill, copy, set readonly | regions own their data apart, the active one exists, no call reaches into another |
| Compiler, `fluxc/` | the function under construction | lexer, parser; IR builder, validation, folding, removal of dead code | optimizing keeps what a function does, and ends |
| HAL, `hal/`, `hal/arch/native/hal_native.c` | page bitmap, device list; tables of functions | pages: alloc, free; devices: register, unregister, find; console, timer, ports | no page has two holders, a registered device is found |
| Log, `kernel/log.c` | ring of the last messages, level | log, dump, get_entry, init, shutdown | the readers show the last messages in order |
| Panic, information, `kernel/panic.c`, `info.c` | none | print | |

**Interaction.** `flux_spawn` enqueues the new process; `flux_exit` and `flux_yield`
reset the scheduler's current PID; the scheduler reads and writes PCBs (state on
dispatch, priority on aging); `flux_a2a_send` and `flux_a2a_broadcast` write inboxes,
PCB states and the ready queue; `flux_a2a_recv` blocks its caller and polls. All
these meet in the PCB `state` field, which five functions in three files write,
each with its own idea of which states are "asleep": that is where the hard
behaviour is.

The agent runtime is called by any number of threads under one spinlock,
`g_agent_lock`. What makes it hard is where the lock is not held: the test of
`flux_agent_spawn` before it locks, the waiting loop of `flux_a2a_recv`, which
polls in one lock section and marks its agent WAITING in the next, and
`flux_agent_schedule`, which picks an agent under the lock and reads and runs it
after giving the lock back. Meanwhile agents end and their IDs are reused, and
inboxes, topics, the registry and delegation records refer to agents by ID.

The heap, the log, the VM, the compiler, the page bitmap and the device list are
used through calls that return before the next one: they share no state with
each other, and what is hard about them is long sequences of legal calls,
limits, and steps that fail halfway. The exception is `flux_realloc`, which gives
the heap's lock back between its allocation and its free.

There is no persistence and no network, hence no crash recovery;
loss, reordering and staleness are about queues, PIDs and states within one
memory.

## 2. Modules

| Module | Models | Remarks |
|---|---|---|
| `ReadyRing` | the ready queue of `sched.c` | slots, head, tail, count; the in-place shift of `flux_sched_dequeue`, including the over-long shift when the selected entry lies behind the wrap |
| `ProcTable` | the process table of `proc.c` | lookup by `(pid - 1) % MaxProcs` without comparing PIDs, as the code does |
| `Sched` | `sched.c` over the table | `SchedStep` is one iteration of the loop: keep running, go idle, or switch (requeue, age, boost, select, remove) |
| `Ipc` | `ipc.c` over the scheduler | inboxes as sequences; the frame of a blocked receive as `waiter` |
| `Kernel` | the three composed, driven by system calls | one action per call; `Next`, `Spec`, `FairSpec`; implements `WaitingLine` in the regime |
| `KernelProperties` | the properties of `Kernel` | those with a "regime" hold under a stated restriction of the constants: `Regime`, the conjunction of `EqualPriorities`, `PidsNotReused`, `KernelStays` and `ExitsWakeNobody`, and `PointToPoint` |
| `MCKernel` | the module of every kernel run | |
| `WaitingLine` | abstract specification: what the scheduler promises while all have one priority | a line, whose turn it is, who is able to run; the first in line has the next turn |
| `Mailbox` | abstract specification: what an inbox promises | |
| `InboxRing` | the circular buffer `ipc_queue_t` | refines `Mailbox` |
| `AgentTable` | `agent/agent.c`, `agent/capability.c` | slots keyed by ID, the ID bitmap, spawn in two steps, pause, resume, rights |
| `Discovery` | `agent/discovery.c` over the table | registry and topics |
| `PostOffice` | abstract specification: what messaging between agents promises | boxes of messages, each posted once at the end and taken from the front |
| `AgentMail` | `agent/a2a.c` over the table and the topics | message pool, inboxes of references, delegation, the receive that waits; the end of an agent, which drains its inbox |
| `Sandbox` | `agent/sandbox.c` over the table | a step of a VM with any outcome, slices, limits, the round-robin scheduler |
| `AgentRuntime` | the four composed | shutdown and restart; `Next`, `Spec`, `FairSpec`; implements `PostOffice` |
| `AgentProperties` | the properties of `AgentRuntime` | |
| `MCAgents` | the module of every agent run | |
| `Allocator` | abstract specification: what a heap promises its callers | |
| `Mem` | `kernel/mem.c` | headers, free list, map, permissions, counters; refines `Allocator` |
| `MemProperties` | the properties of `Mem` | |
| `Regions` | `vm/region.c` | data blocks owned by regions; an allocation may fail |
| `Vm` | `flux_vm_step`, `flux_vm_run` and the host calls of `vm/vm.c` over the regions | one action per group of instructions |
| `VmProperties` | the properties of `Vm` and `Regions` | |
| `VmWords` | bit counting, rotations, comparison and jump conditions of `vm/vm.c` | functions of words; no state |
| `LogRing` | `kernel/log.c` | with its property |
| `Fir` | builder, validation and optimizer of `fluxc/fir.c` | a step of the optimizer is the visit of one value; with its properties |
| `Hal` | page bitmap and device list of `hal_native.c` | with its properties |
| `MCComponents` | drives each of `InboxRing`, `LogRing`, `Mem`, `Vm`, `VmWords`, `Fir`, `Hal` alone | `unit` names the one that is driven |
| `SequenceLemmas` | lemmas about sequences: removal, insertion, distinct elements, the least of a set | used by all other proofs |
| `KernelLemmas` | lemmas about the operators of `ReadyRing`, `Sched` and `Ipc` | types, the ring's shape, the queue as a line of processes |
| `KernelProofs` | the theorems about `Kernel` | |
| `AgentProofs` | the theorems about `AgentRuntime` | |
| `MemProofs` | the theorems about `Mem`, the refinement of `Allocator` included | |
| `VmProofs` | the theorems about `Vm` with `Regions`, and about `VmWords` | |
| `FirProofs` | the theorem about `Fir` | |
| `ComponentProofs` | the theorems about `InboxRing`, `LogRing` and `Hal` | |

### State and code

| Variable | In the code |
|---|---|
| `pcb` | `s_pcb_table`: state, pid, parent, priority, is_agent, waiting_for, bc.active |
| `nextPid`, `activeCount`, `agentCount` | `s_next_pid`, `s_active_count`, `s_agent_count` |
| `kcur`, `numProcs` | `current_pid` and `num_processes` of the kernel state |
| `stacks` | stacks taken from the heap and not given back |
| `ring` | `s_ready_queue`, `s_queue_head`, `s_queue_tail`, `s_queue_count` |
| `schedCur`, `slice`, `boostTimer` | `s_current_pid`, `s_stats.current_timeslice`, `s_stats.boost_timer` |
| `inbox`, `msgId` | `s_queues`, `s_global_msg_id` |
| `waiter` | the locals of a `flux_a2a_recv` that waits in its loop: PID, filter, ticks left |
| `agents`, `bitmap`, `initialized` | `g_agent_rt.agents` (active, state, paused, rights, VM state, used ticks and I/O, regions above the limit, inbox, delegations, own list of published names), `agent_bitmap`, `initialized` |
| `frame` | per thread, the locals of a `flux_agent_spawn` between its test and its lock, or of a `flux_a2a_recv` that waits |
| `slice`, `cast` | the locals of the `flux_agent_run` or `flux_a2a_broadcast` that holds the lock |
| `sched`, `cursor` | the locals of the thread in `flux_agent_schedule`, `schedule_cursor` |
| `pool`, `nextMsg` | `msg_pool` with the heap it falls back to, `next_msg_id` |
| `got` | the copies of messages that receives have handed to clients, who reply to them and report results of tasks |
| `pubs`, `numPubs`, `topics` | `pub_caps`, `num_pub_caps`, `topics` |
| `heap` | the headers `mem_block_t` with a valid magic number, by address: used or free, size |
| `freeList`, `memMap`, `perms` | `s_free_list` with its links, `s_mem_map`, `s_perm_table` |
| `usedHeap`, `allocs`, `frees` | `s_used_heap`, `s_alloc_count`, `s_free_count` |
| `moving` | per thread, the locals of a `flux_realloc` between its two lock sections |
| `cpu`, `cycles`, `run` | state, PC, call stack, depth of the operand stack, SP, FP, trap handler; `cycle_count`; the limit of the `flux_vm_run` under way |
| `isa` | the classes of instructions the program has |
| `regions`, `activeRegion`, `held` | `vm->regions`, `vm->active_region`, the blocks malloc handed out to them |
| `operands` | the two registers a word operation reads |
| `logRing`, `logHead`, `logCount`, `minLevel` | `s_log_ring`, `s_log_head`, `s_log_count`, `s_log_min_level`; `written`, all messages since init, is not in the code |
| `func`, `phase`, `at`, `changed`, `rounds` | the blocks of a function; where `fir_optimize` is: pass, place, the flag of its loop, rounds left; `source` is the function as it was called |
| `usedPages` | `s_phys_bitmap`; `holds` is the callers' view |
| `devHead`, `devTail`, `devNodes`, `devNext`, `devName`, `devCount` | the device list and its nodes; `registered` is the callers' view |
| `unit` | the component a behaviour of `MCComponents` drives |

### Granularity

A tick is one step and a system call is one step: the kernel is a uniprocessor
without preemption inside its own code (its spinlocks are never contended), so
nothing can run between two statements of a call. The exception is the polling
loop of `flux_a2a_recv`: it waits for other processes to act, so the call is
several steps (`RecvBlock`, then `PollReceive` or `PollTimeout`), and the loop can
only take one while its process is on the CPU. A process that is BLOCKED or
AGENT_IDLE makes no calls.

In the agent runtime a lock section is one step: nothing that another thread
does under the lock can come between. A slice and a broadcast hold the lock
through a loop; each iteration is a step and the lock is held in between
(`Unlocked` is false). A call with several lock sections is several steps. The
test of `initialized` that every call makes before it locks is made with its
first step; only a spawn, which is several steps anyway, could do anything in a
runtime that was shut down in between, since no other call finds an agent.
`flux_agent_init` takes no lock and resets it; `Restart` is modelled as the code
meets it between `Shutdown` and the next call, while nobody holds the lock.

### Abstractions

- Payloads, names, registers, timestamps other than waiting times, statistics
  and logging are left out. Waiting times saturate just above the one
  threshold they are compared with.
- Capability bits: `flux_spawn` gives every process SPAWN and COMMUNICATE and
  nothing in `kernel/` takes them away, so the checks always succeed.
- The broadcast log `s_broadcasts` is written and never read.
- `ipc_dequeue_message` is never called: the head of an inbox never moves.
- A PID is a natural number. The 32-bit wrap, after four billion spawns, is not
  modelled; the wrap of PIDs around the table is.
- A VM's program is not modelled: `SandboxStep` has every outcome `flux_vm_step`
  can have. All instructions cost one cycle. `IO` stands for IO_READ or IO_WRITE,
  of which either suffices. Agents have a program.
- An agent's inbox, a ring of pointers, is the sequence of references in it; the
  ring arithmetic of `a2a.c` has no removal in the middle and no search.
- Time: a receive that found nothing may give up or go on.
- The rights of a run are those its questions need (`Rights`); `MaxMsgs` bounds the
  message numbers handed out.
- `flux_agent_schedule_step` is a sequence of `Step`s. A slice of 0 ticks
  ("use agent's limit"), the audit ring, the searches and the reports are left out.
- The heap counts in units of 8 bytes: a header takes 5 and the alignment is 2.
  A header exists while its magic number is in memory; callers write only into
  what they were given. The content of blocks is left out.
- The VM's program is arbitrary: each step executes any instruction of the
  classes in `isa`. Registers other than SP, FP and TRAP_HANDLER, flags and the words
  on the operand stack may be anything when they are read, and so may the
  outcome of a conditional jump; `VmWords` says what flags and jumps compute.
  A region's content is all zero or not. A program keeps FP inside the stack:
  LEAVE trusts it (see below).
- FIR: a value is its operation, operands and number; numbers are unbounded
  integers; types, names, floating point and the bitwise operators, which fold
  by the same rule, are left out.
- Pages: a driver holds one range and gives back the size it asked for. Devices
  are names; their callbacks are left out.
- `flux_exit` of the kernel process panics; a panic stops the system and is not
  a step.

## 3. Runs

All kernel runs check the same specification, and so do all agent runs; a cfg
chooses which calls are made and how large the tables are.

| Run | Question | Bounds |
|---|---|---|
| `KernelLifecycle` | do table, counters, queue indices and the current process stay consistent through every spawn, exit, kill, wait and yield? | 3 slots, PIDs to 4 (so one aliases slot 0), queue of 2 (it overflows), heap for 2 stacks (spawns fail) |
| `KernelRoundRobin` | is a runnable process ever lost, queued twice or overtaken; is the ready queue a `WaitingLine`? | equal priorities, 3 slots, everyone may spawn, exit and kill, timed receives from anyone, one message |
| `KernelPriorities` | does a switch take the first entry of the highest priority, are the closed forms of scan and shift the loops of the code? | 4 slots, 4 entries, priorities 0 to 3, aging at every dequeue; the window takes every position, wrapped or not |
| `KernelMail` | are messages lost, repeated or reordered; does waking an agent reach the scheduler? | 3 processes, 3 messages, inboxes of 2 (they fill), filters "any" and "from 2", broadcasts |
| `KernelWakeup` | does a waiting receive return, does a queued process run? | fairness; 3 processes, 2 messages |
| `AgentMail` | do the inboxes, rings of pointers into a pool, act as boxes of messages (`PostOffice`); does a result reach who delegated; does a waiting receive take what arrives? | fairness; 2 agents and the reserved slot, a pool of one slot and one message of heap (they run out), inboxes of 2, 1 delegation per agent, numbers to 3; IDs are reused |
| `AgentRegistry` | do bitmap and slots agree through unlocked tests, shutdowns and restarts; are rights invented; does a send, a broadcast or an end leak a message or free one that is queued; is the registry consistent after its agents end? | 2 agents (3 slots after a shutdown), 2 names, 1 topic of 2 subscribers, rights COMMUNICATE and SUPERVISOR; inboxes of 1 (they fill), pool and heap of one each, numbers to 2 |
| `AgentSandbox` | do limits hold, do paused and ended agents stand still, does the scheduler return? | fairness; 2 slots, of which one is reserved until a shutdown; 2 ticks, 1 I/O operation, slices of 1 and 2 |
| `Components` | fairness; each component alone: does the inbox buffer implement the mailbox and the heap the allocator; do heap, books, stacks, regions, log, pages and devices stay consistent; do word operations compute what they are named for; does optimizing keep the meaning; do `flux_vm_run` and `fir_optimize` return? | see below |
| `WaitParentLost` | "Wake parent if it's waiting" (`proc.c:479`) | violated |
| `WrapCorrupts` | "Remove and return the next process to run" (`sched.c:346`) | violated |
| `DevicesLost` | "Append to linked list" (`hal_native.c:770`) | violated |

Why the bounds suffice: three processes are the least with which a third one can
act between two steps of a pair (parent, child and killer; sender, receiver and
runner); four queue slots are the least with which an entry behind the wrap has
others on both sides. In `AgentSandbox` one agent suffices: its actors are the
scheduler, clients that run and step the same agent, and clients that pause, end
and replace it; the scheduler's rounds (`2 * AgentMax`) and the skipping of slots
that are not ready are there. With two agents the product of their VM states is
out of reach. In `AgentMail` sender, receiver and the waiting thread are the
actors; an inbox of two is the least in which there is an order, and the third
message finds the pool and its heap used up. Inboxes fill in `AgentRegistry`,
which holds one message each and has two to give. Constants that are at zero or empty switch a feature off
in a run that asks about another (`BoostInterval = 0`: aging is never due within
the run, as with the code's 1000).

**Bounds of `Components`.**

- Inbox: 4 slots, 2 senders with 2 messages each; it fills, and a removal takes
  each place.
- Log: a ring of 3 and 5 messages, so it wraps and its oldest is overwritten.
- Heap: 30 units, requests of 1 and 3 (after rounding 2 and 4), 2 threads: up to
  four blocks, so a free block has two, one or no free neighbours, splits with
  and without a rest, exhaustion, and a second thread between the two halves of
  a `flux_realloc`. The map takes 3 entries, one of them the heap's own, and the
  permission table 1: both overflow. `MaxAllocs = 5` ends a behaviour.
- VM: a stack of 4 words, one level of calls, programs of 2 instructions, 2
  regions over 3 heap blocks (a resize needs a spare one, and malloc fails
  when none is left), a limit of 3 cycles. Three programs: jumps and calls, stack
  operations, regions; each class is the one that moves the state its
  property is about. The theorems cover every program and size.
- Words: 8 bits, every first operand with 8 second ones (zero, one, the nibble,
  both sides of the sign and the greatest). The code writes its loops out for
  64 bits; `Steps` follows the width, and the theorem covers both widths.
- Compiler: 2 blocks, 4 values, the constants 0 and 1 (the two identities, the
  zero that annihilates and the divisor that must not fold), level 2 with one further
  round where the code has three.
- Pages: 7 of them, 3 drivers, sizes of less than two, and of three pages. Devices: 2 names
  and a list of 3.

`Components` and `DevicesLost` do not check for deadlock: a component stops when
its bounded counter is used up, the compiler when it is done, and words have no
steps: `WordsRight` is about the operands an instruction starts from.

**Fairness** (`Components`). `WF(RunStep)` and `WF(OptimizeStep)`: once called,
`flux_vm_run` and `fir_optimize` are loops of the calling thread that wait for
nothing. The host is not assumed to call anything.

**Fairness** (`KernelWakeup`). The timer keeps ticking: `WF(Tick)`, the loop of
`flux_sched_run` has no exit in normal operation. A polling loop that is on the
CPU polls many times per tick, so if its process gets the CPU again and again it
does poll: `SF(Poll(i))`. No fairness is assumed of any process's calls.

**Fairness** (`AgentMail`, `AgentSandbox`). A thread that holds the lock goes on
(`WF(Slicing)`, `WF(CastSkip \/ CastPost)`): its loops wait for nothing. A thread that
spins for the lock gets it if the lock becomes free again and again
(`SF(Scheduling)`, `SF(Poll(t))`). A test-and-set lock guarantees this only against
contention that leaves gaps; under a client that calls without end the
properties `ScheduleReturns` and `MailIsRead` are about what the loops do with the
lock once they get it. Nobody is assumed to call anything.

### What the three violations show

- **`WrapCorrupts`.** `count_to_move = count - (best - head + 1)` (`sched.c:384`)
  subtracts raw slot numbers. When the selected entry lies behind the wrap
  (`best < head`) the count is too long by the queue size, and the shift goes
  once around the array and overwrites entries it should keep. While the window
  does not wrap, `HighestFirst` holds.
- **`WaitParentLost`.** A parent in FLUX_SYSCALL_WAIT loses the CPU at the end of
  its slice and, being BLOCKED, is not requeued. When the child exits
  `flux_exit` sets the parent READY and does not enqueue it: it never runs again.
- **`DevicesLost`.** Unregistering the last node sets `s_device_list_tail` to `*pp`
  (`hal_native.c:803`), which is NULL then, and not to the node before it. The
  next registration takes the list for empty and makes its node the head: the
  devices registered before are not found any more, though they still count
  towards the limit. `ListSound` says what does hold.

### Other places where code and comments differ

These are in the model, as the code has them, and explain the "regime" of some
properties.

- `proc.c:230`, "The kernel process is always present": `flux_kill` refuses PID 1 and
  no other; the PID `MaxProcs + 1` maps to slot 0 too and ends the kernel process.
- `proc.c:510`, "Kill a process by PID": a stale PID kills the process that took
  over its slot.
- `proc.c:16`, "frees stack, unregisters from scheduler": `proc_cleanup` does
  neither; the entry of a dead process is dispatched later and the stack is lost.
- `syscall.c:261`, "Block current process until target exits": `flux_kill` wakes
  nobody.
- `sched.c:21`, "PID 1 can never be preempted", and `sched.c:351`, "Skip the kernel
  process": neither is in the code.
- `sched.c:434`, "Re-enqueues the process if still runnable": only RUNNING counts;
  an AGENT_THINKING agent is dropped at the end of its (extended) slice.
- `sched.c:195`, "to prevent starvation": the boost ends at 200, so a process above
  it starves the others. `EveryoneServed` therefore speaks of equal priorities.
- `ipc.c:422`, "until a message is available or timeout expires": a broadcast
  wakes idle agents but not blocked receivers (`ipc.c:669`), and a timeout is only
  noticed by its own process, which has no CPU once its slice is over.
  `NoLostWakeup` and `RecvReturns` therefore speak of point-to-point messages
  without a timeout.
- `agent.c:490`, "stops executing but retains all state": a pause halts a RUNNING VM
  and a resume makes it ready again only if the agent is THINKING; an agent that
  was IDLE between two slices is taken for finished at the next one.
- `a2a.c:356`: the agent of a waiting receive is marked WAITING even if a message
  has arrived since the poll, and stays so when the receive times out; the
  scheduler passes it over until somebody sends to it.
- `agent.c:322`: the limit `max_agents` is tested before the lock is taken, so
  concurrent spawns can pass it.
- `a2a.c:705`: delegating makes an agent DELEGATING whatever it was, FAILED or
  TERMINATED included. `FinalStays` therefore has the regime "no delegation".
- `a2a.c:657`: records of delegations are closed and never removed: an agent
  delegates at most 16 times.
- `a2a.c:762`: a delegation is closed before its result is known to fit; a result
  that does not is lost, and the delegator stays DELEGATING.
- `sandbox.c:311`, "VM halted — agent completed": the VM reports faults with the same
  status, so an agent whose program faults ends TERMINATED, not FAILED.
- A program that executes YIELD leaves its VM WAITING, which `sandbox_step` never
  runs again (`sandbox.c:251`).
- The counter `used_io_per_sec` is never reset: the limit is for the agent's life.
- `discovery.c:152` and `166`, "Called during agent termination to clean up the
  registry": the two functions have no caller. A terminated agent stays
  published and subscribed, its names cannot be published again by others, and
  the next agent with its ID receives broadcasts it never subscribed to.
  `RegistryConsistent` says what does hold.
- `sandbox.c:508`, "running each one that is in a ready state": readiness is tested when the
  agent is picked; when it is run only pause and end are tested again.

Memory:

- The header of 40 bytes before data aligned to 16 puts every pointer at 8 modulo 16.
- `mem.c:493` adds what was asked for to `s_used_heap`, `mem.c:548` takes off what
  the block has, which is larger when the rest was too small to split: the
  counter drifts below the truth. `BooksBalance` states the inequality that is left.
- The search is documented as first-fit and is best-fit.
- Permission entries are never removed, and an entry of a freed block speaks for
  the next allocation at its address. When the map is full allocations are not
  entered, and the return value is not looked at.

VM:

- ENTER and LEAVE do not match (`vm.c:1242`): LEAVE takes SP from FP without a test.
  A program that loads another value into FP leaves the stack pointer outside
  the stack; `StackSafe` is about programs that do not.
- ENTER, LEAVE and RETI can set the state to ERROR and return OK; RETI does not
  update the register SP.
- CMP compares without sign, while JG and JL are documented as signed; JA and JB
  read CARRY, which CMP never sets (`vm.c:906`).
- PROF_START resets `cycle_count` (`vm.c:1618`), by which `docs/ARCHITECTURE.md:126`
  limits a run: a program can run for ever. `RunReturns` excepts it.
- `flux_vm_run` starts a machine that is HALTED or in ERROR again; the budget is of
  the machine and not of the run; a load keeps the stacks; a reset forgets the
  regions' data without freeing it.
- IDIV of the least integer by -1 (`vm.c:624`) is undefined in C.
- `region.c:11` promises readonly regions; the VM's own stores do not ask
  (`KeepsOthers` speaks of the host's calls). Destroying the active region
  selects another, where the comment says -1.

Compiler:

- Folding `x + 0` and `x * 1` replaces the uses and keeps the value, and reports
  a change each time it passes: the loop never ends. `OptimizeReturns` excepts
  functions with such a value.
- Replacing uses also rewrites the block IDs that a BRANCH keeps in its operands,
  and IDs of parameters coincide with those of block 0's values. `MeaningKept`
  has the regime "no parameters and no BRANCH".
- `fir_phi_add_source` has no caller; the inlining pass copies nothing;
  `compiler.h:137` (`FIR_OP Aggregate=`) does not compile.

HAL and log:

- A request for 0 bytes of physical memory is answered with the address of
  page -1, for which no search was made. Drivers in the model ask for more.
- `s_log_count` is 32 bits wide and the position of the oldest message is
  computed from it: after four billion messages the order is lost. `LogRing`
  bounds the count. `s_log_dropped` never changes.
- `log.c:474`, "index 0 = most recent": while the ring is not full index 0 is the
  oldest. A dump of fewer messages than a full ring holds shows the oldest of them
  (`log.c:403`).

## 4. Proofs

All theorems hold for every value of the constants that satisfies the
assumptions of the modules (tables and queues are not empty, calls come from the
list of calls) and, where the table names one, the hypothesis of the theorem.
Every safety property that a passing run checks is proved; the liveness
properties are model-checked.

| Theorem | States | Hypothesis |
|---|---|---|
| **Kernel** | | |
| `TypesAndShape` | `[]WellFormed`, which is `TypeOK /\ RingShape` | |
| `CpuAgreement` | `[]CpuAgrees` | |
| `PidsAreValid` | `[]PidsValid` | |
| `PidsAreFresh` | `PidsFresh` | |
| `CountsAgree` | `[]Counts` | |
| `InboxesOrdered` | `[]InboxOrdered` | |
| `DisciplineKept` | `MailboxDiscipline` | |
| `HighestComesFirst` | `HighestFirst` | |
| `LoopsAlwaysMatch` | `[]LoopsMatch` | |
| `NobodyIsLost` | `[]RunnableScheduled` | `Regime` |
| `TheAwakeAreScheduled` | `AwakeIsScheduled` | `Regime` |
| `QueueIsRoundRobin` | `RoundRobin`: `Spec => WaitingLine!Spec` | `Regime` |
| `NobodyIsOvertaken` | `[]Line!NobodyForgotten`, and `Line!NobodyOvertaken` of every step | `Regime` |
| `NoWakeupIsLost` | `[]NoLostWakeup` | `Regime`, `PointToPoint` |
| `RingInvariant` | `[]RingInv` of `InboxRing` | |
| `BufferImplementsMailbox` | `InboxRing!Spec => Mailbox!Spec` | |
| **Agents** | | |
| `AgentTypeOKHolds` | `[]AgentTypeOK` | |
| `SlotsAgreeHolds` | `[]SlotsAgree` | |
| `PoolOwnedHolds` | `[]PoolOwned` | |
| `MailIsPostedHolds` | `MailIsPosted`: `Spec => PostOffice!Spec` | |
| `MailInOrder` | `[]Office!InOrder` | |
| `ResultsAnswerHolds` | `[]ResultsAnswer` | |
| `RegistryConsistentHolds` | `[]RegistryConsistent` | |
| `LimitsKeptHolds` | `[]LimitsKept` | |
| `PausedFrozenHolds` | `PausedFrozen` | |
| `RightsMoveHolds` | `RightsMove` | no grant |
| `FinalStaysHolds` | `FinalStays` | no delegation |
| **Memory** | | |
| `HeapTiledHolds` | `[]HeapTiled` | |
| `BooksBalanceHolds` | `[]BooksBalance` | |
| `AllocatesHolds` | `Allocates`: `MemSpec => Allocator!Spec` | |
| **VM, compiler, log, HAL** | | |
| `StackStaysSafe` | `VmSpec => []StackSafe` | |
| `RegionsStayApart` | `VmSpec => RegionsKept` | |
| `WordsStayRight` | `WordsSpec => []WordsRight` | |
| `MeaningStays` | `FirSpec => []MeaningKept` | `Plain`: no parameters, no BRANCH |
| `RecentStaysKept` | `LogSpec => []RecentKept` | |
| `PagesStayApart` | `HalSpec => []PagesApart` | |
| `ListStaysSound` | `HalSpec => []ListSound` | |

The hypotheses are the regimes the properties state in their comments, as
conditions on the constants; the runs that check these properties satisfy them.
Section 3 says what the code does outside of each.

### Kernel

`TypeOK` alone is not inductive: that the tail stays a slot number and the count
stays within the queue needs to know that each insertion happens with room and
each removal with an entry. `TypeOK /\ RingShape` is. The non-trivial steps are
the removal in the middle (`RemoveSlotType`, `RemoveSlotShape`: the shift yields a
well-typed array whatever its length, so the damage done behind the wrap is to
which entries there are, not to the indices), and the broadcast, which pushes a
set of PIDs at once (`BroadcastRingOk`: the ranks of distinct PIDs are distinct, so
the count rises by the number of entries written).

`PidsValid` and `Counts` are proved together with the population lemmas
`Stays`, `Arrives` and `Leaves` of `KernelProofs`: each step leaves the set of used
slots as it is, adds the slot of a fresh PID, or removes one slot, and
`PopulationStep` turns that into cardinalities. `PidsAreFresh` follows from
`PidsValid`: what appears in a slot was chosen at or above the watermark.
`InboxesOrdered` rests on: a new message's number is above all others, and
removing an element keeps an increasing sequence increasing. `DisciplineKept`
looks at one inbox and goes through the calls: each leaves it, appends to it, or
takes the first match from it.

`LoopsMatch` says that the closed forms the model uses are the loops of the code.
The scan is a recursive function; that the best rank it has found after `k`
entries is the first of the highest ones is shown for the least `k` for which it
would fail. The shift is unrolled into "slot by slot, what stood one place on".

`Regime` makes the queue a line (`Fair`): its entries are distinct PIDs of one
priority. Then the entry selected is the head, nothing is removed from the
middle, and there is room for everyone, because distinct PIDs below the watermark
are no more than the queue has slots. `SchedInv` joins to that: the kernel
process is there, all priorities are alike, a frame in `waiter` belongs to the
process in its slot, and a runnable process is queued or on the CPU. The one step
that would break it is `flux_exit`, which makes a waiting parent READY without
queueing it. `ExitsWakeNobody` is what rules that out, and no more: nobody exits,
or only children of the kernel process do, or nobody blocks for one process
(`NobodyAwaitsOne`; then `SchedInv` holds that `waiting_for` names nobody).
`WaitParentLost` shows what happens beyond it.

`RoundRobin` is the refinement of `WaitingLine` under the mapping of the ring to the
PIDs in it (`LineOf`) and of the table to those who can run (`Able`). A call is a
`Join`: nobody in the queue moves, and who is new in it can run or has the CPU
(`Joined`). For a switch, the ring it dequeues from is the line at the end of a
turn (`WaitingIs`): the outgoing process was put behind exactly if it is able and
not queued. `NobodyIsOvertaken` is derived from the abstract specification alone
(`LineKept`).
`PidsNotReused` bounds the behaviours by the PIDs that fit in the table, which for the
code is the first `FLUX_MAX_PROCESSES` of them: once a PID maps to the slot of an
earlier one, an old entry of the queue can speak for a new process. Under
`PointToPoint` an inbox that a blocked receiver would take from cannot fill unseen
(`BlockedHaveNone`): only a send fills it, and that send wakes the receiver.

`RingInv` says the window of an inbox starts at slot 0, which is why the shifts of
`ipc_remove_message` never wrap; without it the refinement step for a removal
would have two cases.

### Agents

`Base` holds the types of the composed state and what each thread's frame may
hold; it is inductive by itself. Above it, `SlotStep` classifies what a step may
do to a slot: change a live agent in the ways of `LiveStep`, free it, or fill a free
one that the bitmap does not name (`Spawned`). `SlotsAgree`, `LimitsKept` and
`FinalStays` follow from that classification, slot by slot.

`PoolOwned` is stated over two functions, the inboxes and the pool (`Owned`), and so
are the moves that keep it: a message is pushed, shifted out, or an inbox is
drained (`Moves`). Each call is one of these moves, and a broadcast is a series of
them with the lock held. The same three moves, seen through the references, are
the steps of `PostOffice`: `Reads` is the boxes that inboxes and pool stand for, and
because each reference in an inbox has one place (`PoolOwned`), writing or freeing
a slot changes one box. `MailIsPosted` is that refinement, and `MailInOrder` what it is good
for: each inbox holds the messages of its agent in the order of their numbers,
none twice, although slots of the pool and IDs of agents are used again. `ResultsAnswer` adds what the delegation records say
(`Answered`) to the same moves. `RegistryConsistent` needs that published names
are unique and that each has its owner's own list behind it (`NamesUnique`,
`NamesBacked`).

### Memory

`HeapInv` is `TiledIn` for the headers, `ListIn` for the free list, and that no two
free blocks touch. A call is a few operations on headers:
split, flip between used and free, merge. `SplitOf`, `FlipOf` and `MergeOf` say of each
that it keeps the tiling; `TakesBack` says that after a free the two scans of
`mem_coalesce` merge the new block with the neighbours it has, and none are left.

`BooksInv` relates the map, the counters and the blocks: the byte counter claims no
more than the used blocks have, since a rest too small to split is never added. The map's entries
correspond one to one to used blocks (an injection, since the map may have been
full), and totals run along them. `Allocates` follows from the refinement mapping "the live
allocations are the used blocks, each at its address": a step of the code is one
of `Allocator`'s steps or changes none of them. `flux_realloc` is two.

### VM, compiler, log, HAL

`StackInv` is the inductive form of `StackSafe`: the bounds on the pointers and the
call stack, and "a run under way runs a machine that is RUNNING". Each group of
instructions is one lemma, since each tests its own room before it moves the
pointer. `RegionsKept` is an action property and rests on an invariant and on a
fact about each step: `RegionInv` (the types and `RegionsAgree`) together with `StackInv`, because what
distinguishes an instruction from a host call is that it moves the PC or the
cycles.

`WordsRight` is proved for words of 8 and of 64 bits. A word is handled as the
chain of its halves (`Halvings`), and what a shift, a mask or an addition does is
said of the ones or of the digits along the chain:

- A word is known by its ones (`OnesOnce`), shifts move them up and down
  (`ShiftLeftIs`, `ShiftRightIs`), and a rotation is two shifts whose ones do not meet
  (`RotlIs`, `RotrIs`).
- `clz64` and `ctz64` search a window that each step halves (`StepsHalve`): the highest,
  or lowest, one stays in it, and at the end the window is one place.
- `popcount64` adds neighbours in place: digits of two, four and eight bits hold
  how many ones there were below them and never carry into the next
  (`PairsAre`, `QuadsAre`, `BytesAre`); the multiplication adds the bytes up in the
  highest one, modulo 2^64.

`MeaningKept` compares what two functions compute, and `ResultsOf` computes it along
the operands. Three steps lead to it:

- `ResultsExist` and `ResultsOnce`: operands have smaller IDs than the values that use
  them (`ValueOk`), so the results exist and are the only ones that fit the
  equations. Both are shown for the least ID at which they would fail.
- `Refined`: if each value of the new function follows a value of the old one, with
  operands of the same results, or is the constant that value yields, then each
  result is the old one, or the old one divided by zero. Again by the least ID.
- `FoldKeeps` and `SweepKeeps`: each rule of folding rewrites a function that way, and
  removing a value that nothing uses leaves all others their operands.

`FirInv` carries this from visit to visit: the function reached so far sees the
same as the source (which is transitive), all blocks are finished, values stand in
the order of their IDs, and the place that a loop is about to visit exists. While
the function is built, `Building` says that the IDs follow from the places, so
that a new one is above all others.

`RecentKept` needs to know what a slot holds: `LogOrder` says that before the ring
is full message `i` is in slot `i - 1`, and afterwards the oldest one kept is at the
head. The case that makes it work is the append to a full ring, where the slot
written is both the oldest and the new last.

`PageInv` is `PagesApart` with the types. The lemmas about page arithmetic say that
the bits an allocation sets are the pages its address and size cover, which is
what the matching free clears; the rest is about disjoint intervals.

`DevInv` makes the walk of the device list explicit: there is a chain of distinct
nodes, each with a registration of its own, ending in NULL, and the tail is its
last node or forgotten. Appending lengthens the chain, or replaces it when the
tail was forgotten; unlinking takes one node out of it.

### Model-checked only

- The liveness properties `RecvReturns`, `EveryoneServed`, `MailIsRead`,
  `ScheduleReturns`, `RunReturns` and `OptimizeReturns`: fairness and ENABLED are out of
  the prover's reach.
- The three violations are counterexamples, found by TLC.

There is no induction rule for recursively defined values here. What the proofs do
instead is to take the least argument at which a claim fails and to contradict
it, which needs the recursion to be a function over a set of naturals; all
recursive definitions of the modules with theorems are such functions.

## 5. Plan

Built so far, in this order: ready queue, process table, scheduler, messaging
and their composition, the inbox refinement, the kernel proofs, the agent
runtime, the heap and its refinement, regions and VM, the log, the optimizer,
pages and devices; then the proofs about VM, log and pages, about the rest of the
kernel's properties, the agents, the heap, the device list and the optimizer. To
come:

1. **A wider regime**: `MeaningKept` for functions with a BRANCH whose targets no
   identity rewrites.
2. `Sandbox` over `Vm` instead of over any outcome of a step.

## 6. Not modelled

- Lexer and parser of `fluxc/`: they translate text to a tree within one call and keep
  no state between calls. The inlining pass of `fir.c` copies nothing.
- The x86 hardware layer, and of the hosted one console, ports, interrupts and
  timers: device I/O and tables of function pointers.
  `kernel/hal_native.c` is a second hosted layer whose devices are stubs.
- The arithmetic of the VM's other opcodes, floating point and traces: data that
  decides nothing about the machine's control. Breakpoints: nothing sets one.
- The opcode table: static data and text. Panic and information pages: text.
- The audit ring of `capability.c`, the resource report of `sandbox.c`, the searches of
  `discovery.c`: written or read, never acted on.
- The boot sequence and the shell; the memory, I/O, compile and hardware system
  calls, which forward to those parts.
- The documents and the script under `docs/`, which are not part of the running
  system.
