------------------------------ MODULE Sandbox ------------------------------
(***************************************************************************)
(* agent/sandbox.c: the execution of agents' programs under their limits,  *)
(* and the round-robin scheduler.                                          *)
(*                                                                         *)
(* A program is not modelled; one step of its VM has any outcome that      *)
(* flux_vm_step can have from a VM that is ready.  Every instruction costs *)
(* one cycle, so an executed step uses one tick of the agent's budget.     *)
(***************************************************************************)
EXTENDS AgentTable

CONSTANTS MaxCpu,     \* limits.max_cpu_ticks, 0 for no limit
          MaxIo,      \* limits.max_io_per_sec, 0 for no limit
          SchedSlice, \* the slice flux_agent_schedule gives
          RunTicks    \* the slices clients of flux_agent_run ask for

ASSUME SandboxAssumption ==
    /\ MaxCpu \in Nat /\ MaxIo \in Nat
    /\ SchedSlice \in Nat \ {0} /\ RunTicks \subseteq Nat \ {0}

NoSched == [pc |-> "idle", round |-> 0, i |-> 0, found |-> FALSE, pick |-> NoId]

VARIABLES
    sched,    \* the locals of the thread in flux_agent_schedule
    cursor    \* g_agent_rt.schedule_cursor

schedVars == <<sched, cursor>>

SandboxInit == sched = NoSched /\ cursor = 0

-----------------------------------------------------------------------------
(* One monitored step.                                                      *)

\* Variant: the budget may be used up and one step more.
CpuSpentLate(s) == MaxCpu # 0 /\ s.cpu > MaxCpu

\* sandbox_check_cpu.
CpuSpent(s) == MaxCpu # 0 /\ s.cpu >= MaxCpu

\* sandbox_check_io.
IoSpent(s) == MaxIo # 0 /\ s.io >= MaxIo

\* A slot with other states of the agent and of its VM.
After(s, state, vm) == [s EXCEPT !.state = state, !.vm = vm]

\* sandbox_handle_violation.
Violation(s) == After(s, "FAILED", "ERROR")

Outcome(s, result) == [slot |-> s, result |-> result]

\* An executed instruction: flux_vm_step counts its cycles.
Ticked(s) == [s EXCEPT !.cpu = @ + 1]

\* Its regions are above the limit or not.
Resized(s, over) == [s EXCEPT !.over = over]

\* A step of the VM that is no agent operation: it goes on or executes HALT
\* (which the VM reports as success), changes the regions or not; it faults
\* or traps; or it meets an instruction it cannot execute.
PlainSteps(s) ==
    {Outcome(Resized(After(Ticked(s), "THINKING", vm), over), "OK") :
        vm \in {"RUNNING", "HALTED"}, over \in BOOLEAN}
    \cup {Outcome(After(Ticked(s), "TERMINATED", vm), "GENERAL") : vm \in {"TRAPPED", "ERROR"}}
    \cup {Outcome(After(Ticked(s), "FAILED", "ERROR"), "GENERAL")}

\* The next instruction is an I/O operation.
IoSteps(s) ==
    IF "IO" \notin s.caps \/ IoSpent(s)
    THEN {Outcome(Violation(s), "DENIED")}
    ELSE PlainSteps([s EXCEPT !.io = @ + 1])

\* The next instruction is an agent operation.  YIELD leaves the VM WAITING;
\* a breakpoint or the end of the code stops the VM before the operation and
\* the agent's state is left as it is.
A2aSteps(s) ==
    {Outcome(After(Ticked(s), "WAITING", vm), "BUSY") : vm \in {"RUNNING", "WAITING"}}
    \cup {Outcome(After(t, s.state, vm), "GENERAL") :
        t \in {s, Ticked(s)}, vm \in {"TRAPPED", "ERROR"}}

\* sandbox_step.
SandboxStep(s) ==
    IF CpuSpent(s) \/ s.over
    THEN {Outcome(Violation(s), "INVALID")}
    ELSE IF s.vm = "HALTED"
    THEN {Outcome(After(s, "TERMINATED", s.vm), "GENERAL")}
    ELSE IF s.vm \notin {"IDLE", "RUNNING"}
    THEN {Outcome(s, "INVALID")}
    ELSE PlainSteps(s) \cup IoSteps(s) \cup A2aSteps(s)

VmStarted(s) == [s EXCEPT !.vm = IF @ = "IDLE" THEN "RUNNING" ELSE @]

\* Variant: nobody looks whether the agent has ended.
MayRunFinal(id) == Live(id) /\ ~agents[id].paused

\* Variant: nobody looks whether the agent is paused.
MayRunPaused(id) == Live(id) /\ agents[id].state \notin Final

\* The checks at the head of flux_agent_run and flux_agent_step.
MayRun(id) == Live(id) /\ agents[id].state \notin Final /\ ~agents[id].paused

\* flux_agent_step.
Step(id) ==
    /\ Api("step") /\ MayRun(id)
    /\ \E out \in SandboxStep(VmStarted(agents[id])) :
          agents' = [agents EXCEPT ![id] = out.slot]
    /\ UNCHANGED <<initialized, bitmap, frame, held, schedVars>>

-----------------------------------------------------------------------------
(* flux_agent_run: a slice of execution under the lock.                     *)

Begin(id, ticks, bySched) ==
    /\ MayRun(id)
    /\ agents' = [agents EXCEPT ![id] = [VmStarted(@) EXCEPT !.state = "THINKING"]]
    /\ slice' = [id |-> id, left |-> ticks, sched |-> bySched]
    /\ UNCHANGED <<initialized, bitmap, frame, cast>>

Run(id, ticks) ==
    /\ Api("run") /\ Begin(id, ticks, FALSE)
    /\ UNCHANGED schedVars

\* The scheduler goes on with the next agent after a slice it gave.
SchedOn == [sched EXCEPT !.pc = "scan", !.i = @ + 1, !.pick = NoId]

End(slot) ==
    /\ agents' = [agents EXCEPT ![slice.id] =
                     IF slot.state = "TERMINATED" THEN [slot EXCEPT !.vm = "HALTED"]
                                                  ELSE slot]
    /\ slice' = NoSlice
    /\ sched' = IF slice.sched THEN SchedOn ELSE sched
    /\ UNCHANGED <<initialized, bitmap, frame, cast, cursor>>

\* The ticks of the slice are used up.
SliceSpent ==
    /\ slice # NoSlice /\ slice.left = 0
    /\ End([agents[slice.id] EXCEPT !.state = "IDLE"])

SliceStep ==
    /\ slice # NoSlice /\ slice.left > 0
    /\ \E out \in SandboxStep(agents[slice.id]) :
          IF out.result = "OK"
          THEN /\ agents' = [agents EXCEPT ![slice.id] = out.slot]
               /\ slice' = [slice EXCEPT !.left = @ - 1]
               /\ UNCHANGED <<initialized, bitmap, frame, cast, schedVars>>
          ELSE End(out.slot)

-----------------------------------------------------------------------------
(* flux_agent_schedule.                                                     *)

Ready(id) ==
    /\ agents[id].active /\ ~agents[id].paused
    /\ agents[id].state \notin Final \cup {"WAITING", "DELEGATING"}

IdAt(i) == FirstId + ((cursor + i) % AgentMax)

MaxRounds == 2 * AgentMax

SchedStart ==
    /\ "schedule" \in ApiCalls /\ initialized
    /\ sched = NoSched
    /\ sched' = [NoSched EXCEPT !.pc = "scan"]
    /\ UNCHANGED <<tableVars, cursor>>

\* Under the lock: the next agent of the round that is ready.  The lock is
\* then given back.
SchedPick ==
    /\ sched.pc = "scan" /\ Unlocked
    /\ \E i \in sched.i .. AgentMax - 1 :
          /\ Ready(IdAt(i))
          /\ \A j \in sched.i .. i - 1 : ~Ready(IdAt(j))
          /\ sched' = [sched EXCEPT !.pc = "fetch", !.i = i, !.found = TRUE,
                                    !.pick = IdAt(i)]
    /\ UNCHANGED <<tableVars, cursor>>

\* Without the lock: the ID is read from the slot, which may be free by now.
SchedFetch ==
    /\ sched.pc = "fetch"
    /\ sched' = [sched EXCEPT !.pc = "run",
                              !.pick = IF Live(@) THEN @ ELSE NoId]
    /\ UNCHANGED <<tableVars, cursor>>

\* flux_agent_run, which checks the agent again but not that it is ready.
SchedRun ==
    /\ sched.pc = "run" /\ Unlocked
    /\ IF initialized /\ MayRun(sched.pick)
       THEN /\ Begin(sched.pick, SchedSlice, TRUE)
            /\ sched' = [sched EXCEPT !.pc = "slice"]
       ELSE /\ sched' = SchedOn
            /\ UNCHANGED tableVars
    /\ UNCHANGED cursor

\* Variant: rounds are not counted.
RoundOverNever == IF sched.found THEN [NoSched EXCEPT !.pc = "scan"] ELSE NoSched

\* What follows a round: another, unless nobody was ready or it was the last.
RoundOver ==
    IF sched.found /\ sched.round + 1 < MaxRounds
    THEN [NoSched EXCEPT !.pc = "scan", !.round = sched.round + 1]
    ELSE NoSched

\* Variant: the cursor runs past the table.
CursorPast == cursor + 1

NextCursor == (cursor + 1) % AgentMax

SchedRound ==
    /\ sched.pc = "scan" /\ Unlocked
    /\ \A i \in sched.i .. AgentMax - 1 : ~Ready(IdAt(i))
    /\ cursor' = NextCursor
    /\ sched' = RoundOver
    /\ UNCHANGED tableVars

Scheduling == SchedPick \/ SchedFetch \/ SchedRun \/ SchedRound

Slicing == SliceSpent \/ SliceStep

SandboxNext ==
    \/ \E id \in Ids : Step(id) \/ \E ticks \in RunTicks : Run(id, ticks)
    \/ SchedStart \/ Scheduling \/ Slicing
=============================================================================
