--------------------------------- MODULE Vm ---------------------------------
(***************************************************************************)
(* The FLUX virtual machine of vm/vm.c: flux_vm_step, one action per group *)
(* of instructions, flux_vm_run around it, and the calls of the host.      *)
(*                                                                         *)
(* What is kept of the machine is what decides where it goes: its state,   *)
(* the program counter (counting instructions), the call stack, the depth  *)
(* of the operand stack, the registers SP, FP and TRAP_HANDLER, the cycle  *)
(* counter and the regions.  The other registers, the flags and the words  *)
(* on the operand stack are abstracted: a word read from them may be any.  *)
(* The program is arbitrary: each step executes any instruction of the     *)
(* classes the program uses.  Breakpoints are left out: nothing in the     *)
(* repository sets one.                                                    *)
(***************************************************************************)
EXTENDS Regions, Sequences

CONSTANTS StackSize,   \* FLUX_STACK_SIZE
          CallDepth,   \* FLUX_VM_MAX_CALL_DEPTH
          GpRegs,      \* the 15 registers PUSHA and POPA move
          CodeLen,     \* instructions of a program
          Programs,    \* the classes of instructions a program uses together
          CycleLimit   \* the limit of flux_vm_run; cycles are counted up to it

ASSUME VmAssumption ==
    /\ StackSize \in Nat \ {0} /\ CallDepth \in Nat
    /\ GpRegs \in Nat \ {0} /\ CodeLen \in Nat \ {0}
    /\ CycleLimit \in Nat \ {0}

VARIABLES cpu,     \* [state, pc, calls, ptr, sp, fp, handler, code]
          cycles,  \* cycle_count, up to CycleLimit
          run,     \* the limit of the flux_vm_run under way, or NoRun
          isa      \* the classes of the program's instructions

vmVars == <<cpu, cycles, run, isa, regionVars>>

NoRun == -1
Unlimited == 0
NoHandler == -1

VmStates == {"IDLE", "RUNNING", "HALTED", "TRAPPED", "ERROR", "WAITING"}

\* Words that stand for a place in the stack.  LEAVE trusts the word in FP:
\* what a program does that puts a larger one there is not explored.
Words == 0 .. StackSize

\* Where a jump may go; CodeLen is outside the program.
Targets == 0 .. CodeLen

\* flux_vm_init, and what flux_vm_reset sets again.  No bytecode is loaded.
ResetCpu == [state |-> "IDLE", pc |-> 0, calls |-> << >>, ptr |-> 0,
             sp |-> StackSize, fp |-> 0, handler |-> NoHandler, code |-> 0]

VmInit ==
    /\ cpu = ResetCpu
    /\ cycles = 0
    /\ run = NoRun
    /\ isa \in Programs
    /\ RegionsInit

----------------------------------------------------------------------------
(* What the instructions are made of *)

Failed(c) == [c EXCEPT !.state = "ERROR"]
TrappedCpu(c) == [c EXCEPT !.state = "TRAPPED"]

\* Variant: the last place of the stack is behind its end.
RawPushLate(c) ==
    IF c.ptr > StackSize THEN Failed(c) ELSE [c EXCEPT !.ptr = @ + 1]

\* stack_push and stack_pop.
RawPush(c) ==
    IF c.ptr >= StackSize THEN Failed(c) ELSE [c EXCEPT !.ptr = @ + 1]

RawPop(c) == IF c.ptr = 0 THEN Failed(c) ELSE [c EXCEPT !.ptr = @ - 1]

SpSet(c) == [c EXCEPT !.sp = StackSize - c.ptr]

\* The SP register follows unless the operation returned with an error.
Followed(c) == IF c.state = "ERROR" THEN c ELSE SpSet(c)

\* call_stack_push and the jump.
Call(c, target) ==
    IF Len(c.calls) >= CallDepth THEN Failed(c)
    ELSE [c EXCEPT !.calls = Append(@, c.pc), !.pc = target]

\* flux_vm_set_reg of any register with any word.  Only the stack
\* instructions read SP and FP and only TRAP reads TRAP_HANDLER: programs
\* without them are not told apart by what they put there.
RegisterWritten(c) ==
    {c} \cup {d \in {[c EXCEPT !.sp = w] : w \in Words}
                    \cup {[c EXCEPT !.fp = w] : w \in Words} : "stack" \in isa}
        \cup {d \in {[c EXCEPT !.handler = t] : t \in Targets \cup {NoHandler}} :
                    "system" \in isa}

\* OP_ENTER: the results of the two pushes are not looked at.
Entered(c, frame) ==
    LET d == [RawPush(RawPush(c)) EXCEPT !.fp = c.sp, !.ptr = @ + frame]
    IN  IF d.ptr > StackSize THEN [Failed(d) EXCEPT !.ptr = StackSize]
        ELSE SpSet(d)

\* OP_LEAVE: nor are those of the two pops; a failed one yields 0.
Left(c) ==
    LET d == RawPop([c EXCEPT !.ptr = StackSize - c.fp])
        saved == IF d.state = "ERROR" THEN {0} ELSE Words
    IN  {SpSet([RawPop(d) EXCEPT !.fp = w]) : w \in saved}

\* OP_PUSHA stops at the first push that fails.
AllPushed(c) ==
    IF c.ptr + GpRegs > StackSize THEN [Failed(c) EXCEPT !.ptr = StackSize]
    ELSE SpSet([c EXCEPT !.ptr = @ + GpRegs])

\* OP_POPA; SP and FP are among the registers it sets.  When it fails it may
\* have come to them or not.
AllPopped(c) ==
    IF c.ptr < GpRegs
    THEN {[Failed(c) EXCEPT !.ptr = 0, !.fp = w, !.sp = v] :
             w \in Words \cup {c.fp}, v \in Words \cup {c.sp}}
    ELSE {SpSet([c EXCEPT !.ptr = @ - GpRegs, !.fp = w]) : w \in Words}

\* STACK_ALLOC: traps when the stack is too small, SP is not updated then.
StackAllocated(c, n) ==
    IF c.ptr + n > StackSize THEN [TrappedCpu(c) EXCEPT !.ptr = StackSize]
    ELSE SpSet([c EXCEPT !.ptr = @ + n])

\* STACK_FREE: to the bottom at most.
StackFreed(c, n) ==
    SpSet([c EXCEPT !.ptr = IF c.ptr >= n THEN c.ptr - n ELSE 0])

----------------------------------------------------------------------------
(* The instructions: the states one may leave the machine c in, whose pc   *)
(* has been advanced already.                                              *)

\* TRAP: a jump to the handler if there is one.
Trap(c) ==
    IF c.handler = NoHandler THEN TrappedCpu(c) ELSE [c EXCEPT !.pc = c.handler]

\* NOP, HALT, TRAP, INVALID, and the system operations left to the kernel.
SystemOp(c) ==
    {c, [c EXCEPT !.state = "HALTED"], Trap(c), Failed(c), TrappedCpu(c)}

\* An opcode without a case.
UnknownOp(c) == Failed(c)

\* Arithmetic; a division by zero is an error.
ArithmeticOp(c) == RegisterWritten(c) \cup {Failed(c)}

\* Bit operations.
LogicOp(c) == RegisterWritten(c)

\* Comparisons only set the flags.
CompareOp(c) == {c}

\* Jumps, taken or not, and LOOP.
BranchOp(c) == {c} \cup {[c EXCEPT !.pc = t] : t \in Targets}

\* PUSH, PUSH_IMM, PUSHF, PUSHR; DUP and SWAP, which need words to copy.
PushOp(c) ==
    {Followed(RawPush(c))} \cup (IF c.ptr < 2 THEN {Failed(c)} ELSE {c})

\* POP, POPF, POPR; STACK_CHK only sets a flag.
PopOp(c) ==
    {c} \cup (IF c.ptr = 0 THEN {Failed(c)}
              ELSE {Followed(d) : d \in RegisterWritten(RawPop(c))})

\* ENTER, LEAVE, STACK_ALLOC, STACK_FREE.
FrameOp(c) ==
    {Entered(c, n) : n \in Words} \cup Left(c)
    \cup {StackAllocated(c, n) : n \in 0 .. StackSize + 1}
    \cup {StackFreed(c, n) : n \in Words}

\* CALL and CALLI.
CallOp(c) == {Call(c, t) : t \in Targets}

\* CALL_REG and ICALL; TAILCALL; the calls left to a runtime.
IndirectCallOp(c) ==
    CallOp(c) \cup {[c EXCEPT !.pc = t] : t \in Targets} \cup {TrappedCpu(c)}

\* RET and RETI: with an empty call stack the program is over.  RETI also
\* pops the flags; it does not look at the result and leaves SP alone.
ReturnOp(c) ==
    IF c.calls = << >> THEN {[c EXCEPT !.state = "HALTED"]}
    ELSE LET depth == Len(c.calls)
             back == [c EXCEPT !.pc = c.calls[depth],
                               !.calls = SubSeq(@, 1, depth - 1)]
         IN  {back, RawPop(back)}

\* SYSCALL records its number and goes on.
SyscallOp(c) == {c}

\* THROW, EXCEPTION_RET; FINALLY; CATCH and SET_HANDLER.
ExceptionOp(c) ==
    {Failed(c), c} \cup {[c EXCEPT !.handler = t] : t \in Targets \cup {NoHandler}}

\* The agent operations record or set a register; YIELD waits; those of the
\* agent runtime trap.
AgentOp(c) ==
    RegisterWritten(c) \cup {[c EXCEPT !.state = "WAITING"], TrappedCpu(c)}

\* I/O only sets the error code.
IoOp(c) == {c}

\* Tiles.
TileOp(c) == RegisterWritten(c)

\* ADAPT, EVOLVE, modules and tracing change nothing that is kept here.
HintOp(c) == {c}

\* GAS_INIT, GAS_CHECK.
GasOp(c) == {c, TrappedCpu(c)}

\* The vector operations and the native calls.
VectorOp(c) == RegisterWritten(c) \cup {TrappedCpu(c)}

----------------------------------------------------------------------------
(* flux_vm_step *)

\* The states the machine executes an instruction in.
CanStep == cpu.state \notin {"HALTED", "ERROR"}

Fetchable == cpu.pc < cpu.code

\* The machine while an instruction executes.
Fetched == [cpu EXCEPT !.state = "RUNNING", !.pc = @ + 1]

\* cycle_count after an instruction.
Counted == IF cycles < CycleLimit THEN cycles + 1 ELSE cycles

\* A run goes on after an instruction as long as the machine is running, and
\* no instruction that returns an error leaves it running.
RunAfter == IF cpu'.state = "RUNNING" THEN run ELSE NoRun

\* An instruction whose outcomes are given.
Executes(class, outcomes) ==
    /\ class \in isa
    /\ cpu' \in outcomes
    /\ cycles' = Counted

\* LOAD, STORE, LEA: in the active region, without a look at its readonly
\* flag, or when there is none in the stack.
LoadStoreOp ==
    \/ Executes("region", RegisterWritten(Fetched)) /\ UNCHANGED regionVars
    \/ /\ IsRegion(activeRegion)
       /\ Executes("region", {Fetched})
       /\ \E content \in Contents : Overwrite(activeRegion, content)

\* CMPXCHG, ATOMIC_ADD and ATOMIC_SUB write the active region and a register.
AtomicOp ==
    /\ Executes("region", RegisterWritten(Fetched))
    /\ IF IsRegion(activeRegion)
       THEN \E content \in Contents : Overwrite(activeRegion, content)
       ELSE UNCHANGED regionVars

\* LOAD_RM and STORE_RM, on any region; MEMSET, on the active one.
RegionAccessOp ==
    \/ Executes("region", RegisterWritten(Fetched)) /\ UNCHANGED regionVars
    \/ /\ Executes("region", {Fetched})
       /\ \E rid \in RegionIds, content \in Contents :
              IsRegion(rid) /\ Overwrite(rid, content)

\* REGION_CREATE, REGION_DESTROY and REGION_MAP; one that fails goes on.
RegionOp ==
    /\ Executes("region", RegisterWritten(Fetched))
    /\ \/ CreateRegion(FALSE)
       \/ \E rid \in RegionIds : DestroyRegion(rid)
       \/ UNCHANGED regionVars

\* PROF_START begins the counting of cycles again.
ProfileOp ==
    /\ "profile" \in isa
    /\ cpu' = Fetched
    /\ cycles' = 0
    /\ UNCHANGED regionVars

\* The instructions that touch no region.
PlainOp ==
    LET c == Fetched
    IN  /\ \/ Executes("system", SystemOp(c) \cup {UnknownOp(c)} \cup ExceptionOp(c)
                                 \cup SyscallOp(c) \cup AgentOp(c))
           \/ Executes("compute", ArithmeticOp(c) \cup LogicOp(c) \cup CompareOp(c)
                                  \cup IoOp(c) \cup TileOp(c) \cup HintOp(c)
                                  \cup GasOp(c) \cup VectorOp(c))
           \/ Executes("flow", BranchOp(c) \cup CallOp(c) \cup IndirectCallOp(c)
                               \cup ReturnOp(c))
           \/ Executes("stack", PushOp(c) \cup PopOp(c) \cup FrameOp(c)
                                \cup {AllPushed(c)} \cup AllPopped(c))
        /\ UNCHANGED regionVars

Execute == LoadStoreOp \/ AtomicOp \/ RegionAccessOp \/ RegionOp \/ ProfileOp \/ PlainOp

\* flux_vm_step outside the program: an error, nothing is counted.
PcFault ==
    /\ ~Fetchable
    /\ cpu' = Failed(cpu)
    /\ UNCHANGED <<cycles, regionVars>>

VmStep ==
    /\ CanStep
    /\ \/ Fetchable /\ Execute
       \/ PcFault
    /\ run' = RunAfter
    /\ UNCHANGED isa

----------------------------------------------------------------------------
(* flux_vm_run and the calls of the host *)

\* Variant: the limit is not looked at.
OverLimitNever == FALSE

OverLimit == run > 0 /\ cycles >= run

\* The loop of flux_vm_run: it waits once the limit is reached.
RunStep ==
    /\ run # NoRun
    /\ \/ /\ OverLimit
          /\ cpu' = [cpu EXCEPT !.state = "WAITING"]
          /\ run' = NoRun
          /\ UNCHANGED <<cycles, isa, regionVars>>
       \/ ~OverLimit /\ VmStep

\* flux_vm_run is entered from any state, HALTED and ERROR included.
StartRun(limit) ==
    /\ cpu' = [cpu EXCEPT !.state = "RUNNING"]
    /\ run' = limit
    /\ UNCHANGED <<cycles, isa, regionVars>>

\* flux_vm_load: the stacks and registers stay as they are.
Load ==
    /\ cpu' = [cpu EXCEPT !.state = "IDLE", !.pc = 0, !.code = CodeLen]
    /\ UNCHANGED <<cycles, run, isa, regionVars>>

\* flux_vm_reset forgets the regions; their data is not freed.
Reset ==
    /\ cpu' = ResetCpu
    /\ cycles' = 0
    /\ regions' = [r \in RegionIds |-> EmptyRegion]
    /\ activeRegion' = NoRegion
    /\ UNCHANGED <<run, isa, held>>

\* flux_vm_destroy, which frees every data pointer it finds, and
\* flux_vm_init of the machine that takes its place.
Recreate ==
    /\ held' = held \ {regions[r].data : r \in RegionIds}
    /\ cpu' = ResetCpu
    /\ cycles' = 0
    /\ regions' = [r \in RegionIds |-> EmptyRegion]
    /\ activeRegion' = NoRegion
    /\ UNCHANGED <<run, isa>>

\* flux_vm_halt and flux_vm_trap.
HostStop ==
    /\ \/ cpu' = [cpu EXCEPT !.state = "HALTED"]
       \/ cpu' = TrappedCpu(cpu)
    /\ UNCHANGED <<cycles, run, isa, regionVars>>

\* A call of a region function by the host.
HostRegionCall ==
    /\ "region" \in isa
    /\ RegionCall
    /\ UNCHANGED <<cpu, cycles, run, isa>>

\* The host is single-threaded: no call while a run is under way.
HostCall ==
    /\ run = NoRun
    /\ \/ VmStep
       \/ \E limit \in {Unlimited, CycleLimit} : StartRun(limit)
       \/ Load
       \/ Reset
       \/ Recreate
       \/ HostStop
       \/ HostRegionCall

VmNext == RunStep \/ HostCall

VmSpec == VmInit /\ [][VmNext]_vmVars

\* Once called, flux_vm_run keeps going round its loop.
VmFairSpec == VmSpec /\ WF_vmVars(RunStep)
=============================================================================
