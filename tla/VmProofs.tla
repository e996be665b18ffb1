------------------------------ MODULE VmProofs ------------------------------
(***************************************************************************)
(* Proofs about the FLUX machine: its stacks keep their bounds and its     *)
(* regions own their data apart, for every size of stack, call stack,      *)
(* region table and heap and for every program; and its bit operations and *)
(* jumps compute what they are named for, for every pair of words.         *)
(***************************************************************************)
EXTENDS VmProperties, VmWords, SequenceLemmas, TLAPS, SequenceTheorems, FiniteSetTheorems,
        WellFoundedInduction

----------------------------------------------------------------------------
(* The operand stack and the call stack.                                    *)

CpuType ==
    [state : VmStates, pc : Nat, calls : Seq(Nat), ptr : 0 .. StackSize,
     sp : Words, fp : Words, handler : Targets \cup {NoHandler}, code : Nat]

\* A machine within its bounds.
SafeCpu(c) == c \in CpuType /\ Len(c.calls) <= CallDepth

\* The inductive invariant of StackSafe: the machine is within its bounds, and
\* it is running while a run is under way.
StackInv ==
    /\ SafeCpu(cpu)
    /\ run \in Int
    /\ run # NoRun => cpu.state = "RUNNING"

\* Changing one part of a machine within its bounds.
LEMMA PartsSafe ==
    ASSUME NEW c, SafeCpu(c)
    PROVE  /\ \A s \in VmStates : SafeCpu([c EXCEPT !.state = s])
           /\ \A t \in Nat : SafeCpu([c EXCEPT !.pc = t])
           /\ \A t \in Targets \cup {NoHandler} : SafeCpu([c EXCEPT !.handler = t])
           /\ \A p \in 0 .. StackSize : SafeCpu([c EXCEPT !.ptr = p])
           /\ \A w \in Words : SafeCpu([c EXCEPT !.sp = w])
           /\ \A w \in Words : SafeCpu([c EXCEPT !.fp = w])
  BY DEF SafeCpu, CpuType

\* stack_push, stack_pop and the update of SP.
LEMMA RawSafe ==
    ASSUME NEW c, SafeCpu(c)
    PROVE  /\ SafeCpu(Failed(c)) /\ SafeCpu(TrappedCpu(c)) /\ SafeCpu(SpSet(c))
           /\ SafeCpu(RawPush(c)) /\ SafeCpu(RawPop(c)) /\ SafeCpu(Followed(c))
  <1> USE VmAssumption
  <1>1. SafeCpu(Failed(c)) /\ SafeCpu(TrappedCpu(c))
    BY PartsSafe DEF Failed, TrappedCpu, VmStates
  <1>2. SafeCpu(SpSet(c))
    <2>1. StackSize - c.ptr \in Words BY DEF SafeCpu, CpuType, Words
    <2> QED BY <2>1, PartsSafe DEF SpSet
  <1>3. SafeCpu(RawPush(c))
    <2>1. CASE c.ptr >= StackSize BY <2>1, <1>1 DEF RawPush
    <2>2. CASE ~(c.ptr >= StackSize)
      <3>1. c.ptr + 1 \in 0 .. StackSize BY <2>2 DEF SafeCpu, CpuType
      <3> QED BY <2>2, <3>1, PartsSafe DEF RawPush
    <2> QED BY <2>1, <2>2
  <1>4. SafeCpu(RawPop(c))
    <2>1. CASE c.ptr = 0 BY <2>1, <1>1 DEF RawPop
    <2>2. CASE c.ptr # 0
      <3>1. c.ptr - 1 \in 0 .. StackSize BY <2>2 DEF SafeCpu, CpuType
      <3> QED BY <2>2, <3>1, PartsSafe DEF RawPop
    <2> QED BY <2>1, <2>2
  <1> QED BY <1>1, <1>2, <1>3, <1>4 DEF Followed

\* flux_vm_set_reg.
LEMMA RegisterSafe ==
    ASSUME NEW c, SafeCpu(c)
    PROVE  \A d \in RegisterWritten(c) : SafeCpu(d)
  BY PartsSafe DEF RegisterWritten

\* CALL and RET.
LEMMA CallSafe ==
    ASSUME NEW c, SafeCpu(c), NEW t \in Targets
    PROVE  SafeCpu(Call(c, t))
  <1>1. CASE Len(c.calls) >= CallDepth
    BY <1>1, RawSafe DEF Call
  <1>2. CASE ~(Len(c.calls) >= CallDepth)
    <2> DEFINE s == Append(c.calls, c.pc)
    <2>1. c.calls \in Seq(Nat) /\ c.pc \in Nat BY DEF SafeCpu, CpuType
    <2>2. s \in Seq(Nat) /\ Len(s) = Len(c.calls) + 1 BY <2>1
    <2>3. Len(s) <= CallDepth BY <1>2, <2>1, <2>2, VmAssumption
    <2>4. t \in Nat BY VmAssumption DEF Targets
    <2>5. Call(c, t) = [c EXCEPT !.calls = s, !.pc = t] BY <1>2 DEF Call
    <2> HIDE DEF s
    <2> QED BY <2>2, <2>3, <2>4, <2>5 DEF SafeCpu, CpuType
  <1> QED BY <1>1, <1>2

LEMMA ReturnSafe ==
    ASSUME NEW c, SafeCpu(c)
    PROVE  \A d \in ReturnOp(c) : SafeCpu(d)
  <1>1. CASE c.calls = << >>
    BY <1>1, PartsSafe DEF ReturnOp, VmStates
  <1>2. CASE c.calls # << >>
    <2> DEFINE depth == Len(c.calls)
               s == SubSeq(c.calls, 1, depth - 1)
               back == [c EXCEPT !.pc = c.calls[depth], !.calls = s]
    <2>1. c.calls \in Seq(Nat) /\ depth <= CallDepth BY DEF SafeCpu, CpuType
    <2>2. depth \in Nat \ {0} BY <1>2, <2>1
    <2>3. c.calls[depth] \in Nat BY <2>1, <2>2
    <2>4. s \in Seq(Nat) /\ Len(s) = depth - 1 BY <2>1, <2>2
    <2>5. Len(s) <= CallDepth BY <2>1, <2>2, <2>4, VmAssumption
    <2>6. ReturnOp(c) = {back, RawPop(back)} BY <1>2 DEF ReturnOp
    <2> HIDE DEF s, depth
    <2>7. SafeCpu(back) BY <2>3, <2>4, <2>5 DEF SafeCpu, CpuType
    <2> HIDE DEF back
    <2> QED BY <2>6, <2>7, RawSafe
  <1> QED BY <1>1, <1>2

\* The instructions on the stack.
LEMMA StackOpsSafe ==
    ASSUME NEW c, SafeCpu(c)
    PROVE  /\ \A d \in PushOp(c) : SafeCpu(d)
           /\ \A d \in PopOp(c) : SafeCpu(d)
           /\ SafeCpu(AllPushed(c))
           /\ \A d \in AllPopped(c) : SafeCpu(d)
  <1> USE VmAssumption
  <1>0. /\ c.ptr \in 0 .. StackSize /\ c.fp \in Words /\ c.sp \in Words
        /\ 0 \in 0 .. StackSize /\ StackSize \in 0 .. StackSize
    BY DEF SafeCpu, CpuType, Words
  <1>1. \A d \in PushOp(c) : SafeCpu(d)
    <2>1. SafeCpu(RawPush(c)) BY RawSafe
    <2>2. SafeCpu(Followed(RawPush(c))) BY <2>1, RawSafe
    <2>3. SafeCpu(Failed(c)) BY RawSafe
    <2> QED BY <2>2, <2>3 DEF PushOp
  <1>2. \A d \in PopOp(c) : SafeCpu(d)
    <2>1. SafeCpu(RawPop(c)) BY RawSafe
    <2>2. \A d \in RegisterWritten(RawPop(c)) : SafeCpu(d) BY <2>1, RegisterSafe
    <2>3. \A d \in RegisterWritten(RawPop(c)) : SafeCpu(Followed(d)) BY <2>2, RawSafe
    <2>4. SafeCpu(Failed(c)) BY RawSafe
    <2> QED BY <2>3, <2>4 DEF PopOp
  <1>3. SafeCpu(AllPushed(c))
    <2>1. CASE c.ptr + GpRegs > StackSize
      <3>1. SafeCpu(Failed(c)) BY RawSafe
      <3> QED BY <2>1, <3>1, <1>0, PartsSafe DEF AllPushed
    <2>2. CASE ~(c.ptr + GpRegs > StackSize)
      <3>1. c.ptr + GpRegs \in 0 .. StackSize BY <2>2, <1>0
      <3>2. SafeCpu([c EXCEPT !.ptr = @ + GpRegs]) BY <3>1, PartsSafe
      <3> QED BY <2>2, <3>2, RawSafe DEF AllPushed
    <2> QED BY <2>1, <2>2
  <1>4. \A d \in AllPopped(c) : SafeCpu(d)
    <2>1. CASE c.ptr < GpRegs
      <3> DEFINE Half(w, v) == [Failed(c) EXCEPT !.ptr = 0, !.fp = w, !.sp = v]
      <3>1. SafeCpu(Failed(c)) BY RawSafe
      <3>2. \A w, v \in Words : SafeCpu(Half(w, v))
        BY <3>1, <1>0 DEF SafeCpu, CpuType
      <3>3. AllPopped(c) = {Half(w, v) : w \in Words \cup {c.fp}, v \in Words \cup {c.sp}}
        BY <2>1 DEF AllPopped
      <3> HIDE DEF Half
      <3> QED BY <3>2, <3>3, <1>0
    <2>2. CASE ~(c.ptr < GpRegs)
      <3> DEFINE Whole(w) == [c EXCEPT !.ptr = @ - GpRegs, !.fp = w]
      <3>1. c.ptr - GpRegs \in 0 .. StackSize BY <2>2, <1>0
      <3>2. \A w \in Words : SafeCpu(Whole(w)) BY <3>1 DEF SafeCpu, CpuType
      <3>3. AllPopped(c) = {SpSet(Whole(w)) : w \in Words} BY <2>2 DEF AllPopped
      <3> HIDE DEF Whole
      <3> QED BY <3>2, <3>3, RawSafe
    <2> QED BY <2>1, <2>2
  <1> QED BY <1>1, <1>2, <1>3, <1>4

\* ENTER, LEAVE, STACK_ALLOC and STACK_FREE.
LEMMA FrameSafe ==
    ASSUME NEW c, SafeCpu(c)
    PROVE  \A d \in FrameOp(c) : SafeCpu(d)
  <1> USE VmAssumption
  <1>0. /\ c.ptr \in 0 .. StackSize /\ c.fp \in Words /\ c.sp \in Words
        /\ 0 \in 0 .. StackSize /\ StackSize \in 0 .. StackSize /\ 0 \in Words
    BY DEF SafeCpu, CpuType, Words
  <1>1. ASSUME NEW n \in Words PROVE SafeCpu(Entered(c, n))
    <2> DEFINE b == RawPush(RawPush(c))
               d == [b EXCEPT !.fp = c.sp, !.ptr = @ + n]
    <2>1. SafeCpu(b) BY RawSafe
    <2> HIDE DEF b
    <2>2. n \in Nat /\ b.ptr \in 0 .. StackSize BY <2>1 DEF SafeCpu, CpuType, Words
    <2>3. d.ptr = b.ptr + n BY <2>1 DEF SafeCpu, CpuType
    <2>4. CASE d.ptr > StackSize
      <3>1. [Failed(d) EXCEPT !.ptr = StackSize]
            = [b EXCEPT !.state = "ERROR", !.fp = c.sp, !.ptr = StackSize]
        BY <2>1 DEF Failed, SafeCpu, CpuType
      <3>2. SafeCpu([b EXCEPT !.state = "ERROR", !.fp = c.sp, !.ptr = StackSize])
        BY <2>1, <1>0 DEF SafeCpu, CpuType, VmStates
      <3> QED BY <2>4, <3>1, <3>2 DEF Entered, b
    <2>5. CASE ~(d.ptr > StackSize)
      <3>1. b.ptr + n \in 0 .. StackSize BY <2>2, <2>3, <2>5
      <3>2. SafeCpu(d) BY <2>1, <3>1, <1>0 DEF SafeCpu, CpuType
      <3> QED BY <2>5, <3>2, RawSafe DEF Entered, b
    <2> QED BY <2>4, <2>5
  <1>2. \A d \in Left(c) : SafeCpu(d)
    <2> DEFINE b == [c EXCEPT !.ptr = StackSize - c.fp]
               d == RawPop(b)
               e == RawPop(d)
    <2>1. StackSize - c.fp \in 0 .. StackSize BY <1>0 DEF Words
    <2>2. SafeCpu(b) BY <2>1, PartsSafe
    <2> HIDE DEF b
    <2>3. SafeCpu(d) BY <2>2, RawSafe
    <2> HIDE DEF d
    <2>4. SafeCpu(e) BY <2>3, RawSafe
    <2> HIDE DEF e
    <2>5. \A w \in Words : SafeCpu(SpSet([e EXCEPT !.fp = w]))
      BY <2>4, PartsSafe, RawSafe
    <2>6. \A f \in Left(c) : \E w \in Words : f = SpSet([e EXCEPT !.fp = w])
      BY <1>0 DEF Left, e, d, b
    <2> QED BY <2>5, <2>6
  <1>3. ASSUME NEW n \in 0 .. StackSize + 1 PROVE SafeCpu(StackAllocated(c, n))
    <2>1. CASE c.ptr + n > StackSize
      <3>1. SafeCpu(TrappedCpu(c)) BY RawSafe
      <3> QED BY <2>1, <3>1, <1>0, PartsSafe DEF StackAllocated
    <2>2. CASE ~(c.ptr + n > StackSize)
      <3>1. c.ptr + n \in 0 .. StackSize BY <2>2, <1>0
      <3>2. SafeCpu([c EXCEPT !.ptr = @ + n]) BY <3>1, PartsSafe
      <3> QED BY <2>2, <3>2, RawSafe DEF StackAllocated
    <2> QED BY <2>1, <2>2
  <1>4. ASSUME NEW n \in Words PROVE SafeCpu(StackFreed(c, n))
    <2> DEFINE p == IF c.ptr >= n THEN c.ptr - n ELSE 0
    <2>1. p \in 0 .. StackSize BY <1>0 DEF Words
    <2>2. StackFreed(c, n) = SpSet([c EXCEPT !.ptr = p]) BY DEF StackFreed
    <2> HIDE DEF p
    <2> QED BY <2>1, <2>2, PartsSafe, RawSafe
  <1> QED BY <1>1, <1>2, <1>3, <1>4 DEF FrameOp

\* The other instructions.
LEMMA OtherOpsSafe ==
    ASSUME NEW c, SafeCpu(c)
    PROVE  /\ \A d \in SystemOp(c) \cup {UnknownOp(c)} \cup ExceptionOp(c)
                       \cup SyscallOp(c) \cup AgentOp(c) : SafeCpu(d)
           /\ \A d \in ArithmeticOp(c) \cup LogicOp(c) \cup CompareOp(c) \cup IoOp(c)
                       \cup TileOp(c) \cup HintOp(c) \cup GasOp(c) \cup VectorOp(c) :
                  SafeCpu(d)
           /\ \A d \in BranchOp(c) \cup CallOp(c) \cup IndirectCallOp(c)
                       \cup ReturnOp(c) : SafeCpu(d)
  <1>1. \A d \in RegisterWritten(c) : SafeCpu(d) BY RegisterSafe
  <1>2. SafeCpu(Failed(c)) /\ SafeCpu(TrappedCpu(c)) BY RawSafe
  <1>3. /\ SafeCpu([c EXCEPT !.state = "HALTED"])
        /\ SafeCpu([c EXCEPT !.state = "WAITING"])
    BY PartsSafe DEF VmStates
  <1>4. Targets \subseteq Nat /\ c.handler \in Targets \cup {NoHandler}
    BY VmAssumption DEF Targets, SafeCpu, CpuType
  <1>5. \A t \in Targets : SafeCpu([c EXCEPT !.pc = t]) BY <1>4, PartsSafe
  <1>6. SafeCpu(Trap(c)) BY <1>2, <1>4, <1>5 DEF Trap
  <1>7. \A d \in SystemOp(c) \cup {UnknownOp(c)} \cup ExceptionOp(c)
               \cup SyscallOp(c) \cup AgentOp(c) : SafeCpu(d)
    BY <1>1, <1>2, <1>3, <1>6, PartsSafe
    DEF SystemOp, UnknownOp, ExceptionOp, SyscallOp, AgentOp
  <1>8. \A d \in ArithmeticOp(c) \cup LogicOp(c) \cup CompareOp(c) \cup IoOp(c)
               \cup TileOp(c) \cup HintOp(c) \cup GasOp(c) \cup VectorOp(c) : SafeCpu(d)
    BY <1>1, <1>2 DEF ArithmeticOp, LogicOp, CompareOp, IoOp, TileOp, HintOp, GasOp, VectorOp
  <1>9. \A t \in Targets : SafeCpu(Call(c, t)) BY CallSafe
  <1>10. \A d \in BranchOp(c) \cup CallOp(c) \cup IndirectCallOp(c) : SafeCpu(d)
    BY <1>2, <1>5, <1>9 DEF BranchOp, CallOp, IndirectCallOp
  <1>11. \A d \in ReturnOp(c) : SafeCpu(d) BY ReturnSafe
  <1> QED BY <1>7, <1>8, <1>10, <1>11

\* An instruction leaves a machine within its bounds there.
LEMMA ExecuteSafe ==
    ASSUME SafeCpu(cpu), Execute
    PROVE  SafeCpu(cpu')
  <1> DEFINE c == Fetched
  <1>1. SafeCpu(c)
    <2>1. cpu.pc + 1 \in Nat /\ "RUNNING" \in VmStates
      BY DEF SafeCpu, CpuType, VmStates
    <2> QED BY <2>1 DEF Fetched, SafeCpu, CpuType
  <1> HIDE DEF c
  <1>2. \A d \in RegisterWritten(c) : SafeCpu(d) BY <1>1, RegisterSafe
  <1>3. CASE LoadStoreOp \/ AtomicOp \/ RegionAccessOp \/ RegionOp \/ ProfileOp
    <2>1. cpu' \in RegisterWritten(c) \/ cpu' = c
      BY <1>3, Zenon
      DEF LoadStoreOp, AtomicOp, RegionAccessOp, RegionOp, ProfileOp, Executes, c
    <2> QED BY <2>1, <1>1, <1>2
  <1>4. CASE PlainOp
    <2>1. \/ cpu' \in SystemOp(c) \cup {UnknownOp(c)} \cup ExceptionOp(c)
                       \cup SyscallOp(c) \cup AgentOp(c)
          \/ cpu' \in ArithmeticOp(c) \cup LogicOp(c) \cup CompareOp(c) \cup IoOp(c)
                       \cup TileOp(c) \cup HintOp(c) \cup GasOp(c) \cup VectorOp(c)
          \/ cpu' \in BranchOp(c) \cup CallOp(c) \cup IndirectCallOp(c) \cup ReturnOp(c)
          \/ cpu' \in PushOp(c) \cup PopOp(c) \cup FrameOp(c)
                       \cup {AllPushed(c)} \cup AllPopped(c)
      BY <1>4, Zenon DEF PlainOp, Executes, c
    <2> QED BY <2>1, <1>1, OtherOpsSafe, StackOpsSafe, FrameSafe
  <1> QED BY <1>3, <1>4 DEF Execute

LEMMA StackInvNext ==
    ASSUME StackInv, [VmNext]_vmVars
    PROVE  StackInv'
  <1> USE VmAssumption
  <1>0. SafeCpu(cpu) BY DEF StackInv
  <1>1. ASSUME VmStep PROVE StackInv'
    <2>1. SafeCpu(cpu')
      <3>1. SafeCpu(Failed(cpu)) BY <1>0, RawSafe
      <3> QED BY <1>0, <1>1, <3>1, ExecuteSafe DEF VmStep, PcFault
    <2>2. run' = IF cpu'.state = "RUNNING" THEN run ELSE NoRun
      BY <1>1 DEF VmStep, RunAfter
    <2> QED BY <2>1, <2>2 DEF StackInv, NoRun
  <1>2. CASE RunStep
    <2>1. CASE OverLimit
      <3>1. cpu' = [cpu EXCEPT !.state = "WAITING"] /\ run' = NoRun
        BY <1>2, <2>1 DEF RunStep
      <3>2. SafeCpu(cpu') BY <1>0, <3>1, PartsSafe DEF VmStates
      <3> QED BY <3>1, <3>2 DEF StackInv, NoRun
    <2>2. CASE ~OverLimit BY <1>1, <1>2, <2>2 DEF RunStep
    <2> QED BY <2>1, <2>2
  <1>3. CASE HostCall
    <2>1. run = NoRun BY <1>3 DEF HostCall
    <2>2. ASSUME NEW limit \in {Unlimited, CycleLimit}, StartRun(limit) PROVE StackInv'
      <3>1. cpu' = [cpu EXCEPT !.state = "RUNNING"] /\ run' = limit
        BY <2>2 DEF StartRun
      <3>2. SafeCpu(cpu') /\ cpu'.state = "RUNNING"
        <4>1. SafeCpu(cpu') BY <1>0, <3>1, PartsSafe DEF VmStates
        <4>2. cpu'.state = "RUNNING" BY <1>0, <3>1 DEF SafeCpu, CpuType
        <4> QED BY <4>1, <4>2
      <3> QED BY <3>1, <3>2 DEF StackInv, Unlimited
    <2>3. CASE Load
      <3>1. SafeCpu(cpu') BY <1>0, <2>3 DEF Load, SafeCpu, CpuType, VmStates
      <3> QED BY <2>1, <2>3, <3>1 DEF Load, StackInv, NoRun
    <2>4. CASE Reset \/ Recreate
      <3>1. cpu' = ResetCpu /\ run' = run BY <2>4 DEF Reset, Recreate
      <3>2. SafeCpu(ResetCpu)
        BY DEF ResetCpu, SafeCpu, CpuType, VmStates, Words, Targets, NoHandler
      <3> QED BY <2>1, <3>1, <3>2 DEF StackInv, NoRun
    <2>5. CASE HostStop
      <3>1. SafeCpu(cpu') BY <1>0, <2>5, PartsSafe, RawSafe DEF HostStop, VmStates
      <3> QED BY <2>1, <2>5, <3>1 DEF HostStop, StackInv, NoRun
    <2>6. CASE HostRegionCall
      BY <2>6 DEF HostRegionCall, StackInv
    <2> QED BY <1>1, <1>3, <2>2, <2>3, <2>4, <2>5, <2>6 DEF HostCall
  <1>4. CASE UNCHANGED vmVars BY <1>4 DEF vmVars, StackInv
  <1> QED BY <1>2, <1>3, <1>4 DEF VmNext

\* Whatever a program does and the host calls, the stacks keep their bounds.
THEOREM StackStaysSafe == VmSpec => []StackSafe
<1>1. VmInit => StackInv
  BY VmAssumption
  DEF VmInit, StackInv, ResetCpu, SafeCpu, CpuType, VmStates, Words, Targets,
      NoHandler, NoRun
<1>2. StackInv /\ [VmNext]_vmVars => StackInv' BY StackInvNext
<1>3. StackInv => StackSafe
  BY DEF StackInv, StackSafe, SafeCpu, CpuType
<1> QED BY <1>1, <1>2, <1>3, PTL DEF VmSpec

----------------------------------------------------------------------------
(* The regions.                                                             *)

RegionTypes ==
    /\ regions \in [RegionIds -> Region]
    /\ activeRegion \in RegionIds \cup {NoRegion}
    /\ held \subseteq Blocks

RegionInv == RegionTypes /\ RegionsAgree

LEMMA SmallestIn ==
    ASSUME NEW S \in SUBSET Nat, S # {}
    PROVE  Smallest(S) \in S
  <1>1. \E x \in S : \A y \in S : ~(<<y, x>> \in OpToRel(<, Nat))
    BY NatLessThanWellFounded, WFMin
  <1>2. \A x, y \in Nat : y < x => <<y, x>> \in OpToRel(<, Nat)
    BY DEF OpToRel
  <1>3. \E x \in S : \A y \in S : ~(y < x)
    BY <1>1, <1>2, Zenon
  <1>4. \E x \in S : \A y \in S : x <= y
    BY <1>3
  <1> QED BY <1>4 DEF Smallest

\* A step that changes what no region contains, or only what rid contains.
ContentKept ==
    \A r \in RegionIds : regions[r].active /\ regions'[r].active
                          => regions'[r].content = regions[r].content

OnlyIn(rid) ==
    /\ rid \in RegionIds
    /\ \A r \in RegionIds \ {rid} : regions'[r] = regions[r]

LEMMA KeptIsKept ==
    ASSUME ContentKept
    PROVE  KeepsOthers
  <1> DEFINE changed == {r \in RegionIds :
                            /\ regions[r].active /\ regions'[r].active
                            /\ regions'[r].content # regions[r].content}
  <1>1. changed = {} BY DEF ContentKept
  <1>2. Cardinality({}) <= 1 BY FS_EmptySet
  <1> QED BY <1>1, <1>2 DEF KeepsOthers

LEMMA OnlyIsKept ==
    ASSUME NEW rid, OnlyIn(rid),
           cycles' = cycles /\ cpu' = cpu => ~regions[rid].readonly
    PROVE  KeepsOthers
  <1> DEFINE changed == {r \in RegionIds :
                            /\ regions[r].active /\ regions'[r].active
                            /\ regions'[r].content # regions[r].content}
  <1>1. changed \in SUBSET {rid} BY DEF OnlyIn
  <1>2. IsFiniteSet({rid}) /\ Cardinality({rid}) = 1 BY FS_Singleton
  <1>3. IsFiniteSet(changed) /\ Cardinality(changed) <= 1
    BY <1>1, <1>2, FS_Subset
  <1>4. cycles' = cycles /\ cpu' = cpu => \A r \in changed : ~regions[r].readonly
    BY <1>1
  <1> QED BY <1>3, <1>4 DEF KeepsOthers

\* Writing into a region.
LEMMA OverwriteKeeps ==
    ASSUME RegionInv, NEW rid, IsRegion(rid), NEW content \in Contents,
           Overwrite(rid, content)
    PROVE  RegionInv' /\ OnlyIn(rid)
  <1>1. /\ rid \in RegionIds
        /\ regions' = [regions EXCEPT ![rid].content = content]
        /\ activeRegion' = activeRegion /\ held' = held
    BY DEF IsRegion, Overwrite
  <1>2. regions' \in [RegionIds -> Region]
    BY <1>1 DEF RegionInv, RegionTypes, Region
  <1>3. \A r \in RegionIds : /\ regions'[r].active = regions[r].active
                              /\ regions'[r].data = regions[r].data
    BY <1>1 DEF RegionInv, RegionTypes, Region
  <1>4. RegionsAgree' BY <1>1, <1>3 DEF RegionInv, RegionsAgree
  <1>5. OnlyIn(rid) BY <1>1 DEF OnlyIn, RegionInv, RegionTypes
  <1> QED BY <1>1, <1>2, <1>4, <1>5 DEF RegionInv, RegionTypes

\* flux_vm_region_create.
LEMMA CreateKeeps ==
    ASSUME RegionInv, NEW readonly \in BOOLEAN, CreateRegion(readonly)
    PROVE  RegionInv' /\ ContentKept
  <1> USE RegionAssumption
  <1> DEFINE unused == {r \in RegionIds : ~regions[r].active}
             rid == Smallest(unused)
             new == [active |-> TRUE, data |-> NewBlock,
                     readonly |-> readonly, content |-> "zero"]
  <1>1. /\ unused # {} /\ held # Blocks
        /\ held' = held \cup {NewBlock}
        /\ regions' = [regions EXCEPT ![rid] = new]
        /\ activeRegion' = IF activeRegion < 0 THEN rid ELSE activeRegion
    BY DEF CreateRegion
  <1>2. rid \in unused
    <2>1. unused \in SUBSET Nat BY DEF RegionIds
    <2> QED BY <1>1, <2>1, SmallestIn
  <1>3. NewBlock \in Blocks \ held
    <2>1. Blocks \ held # {} BY <1>1 DEF RegionInv, RegionTypes
    <2> QED BY <2>1, SmallestIn DEF NewBlock
  <1> HIDE DEF rid
  <1>4. /\ \A r \in RegionIds \ {rid} : regions'[r] = regions[r]
        /\ regions'[rid] = new
    BY <1>1, <1>2 DEF RegionInv, RegionTypes
  <1>5. new \in Region BY <1>3 DEF Region, Contents
  <1>6. regions' \in [RegionIds -> Region]
    BY <1>1, <1>2, <1>5 DEF RegionInv, RegionTypes
  <1>7. activeRegion' \in RegionIds /\ held' \subseteq Blocks
    <2>1. activeRegion < 0 \/ activeRegion \in RegionIds
      BY DEF RegionInv, RegionTypes, NoRegion
    <2> QED BY <1>1, <1>2, <1>3, <2>1 DEF RegionInv, RegionTypes
  <1>8. regions'[activeRegion'].active
    <2>1. CASE activeRegion = NoRegion
      BY <1>1, <1>4, <2>1 DEF NoRegion
    <2>2. CASE activeRegion # NoRegion
      <3>1. activeRegion \in RegionIds /\ regions[activeRegion].active
        BY <2>2 DEF RegionInv, RegionTypes, RegionsAgree
      <3>2. ~(activeRegion < 0) BY <3>1 DEF RegionIds
      <3> QED BY <1>1, <1>2, <1>4, <3>1, <3>2
    <2> QED BY <2>1, <2>2
  <1>9. /\ \A r \in RegionIds : regions'[r].active =>
              regions'[r].data \in held'
        /\ \A r \in RegionIds : ~regions'[r].active => regions'[r].data = NoData
    BY <1>1, <1>4 DEF RegionInv, RegionsAgree
  <1>10. \A r, q \in RegionIds :
            regions'[r].active /\ regions'[q].active /\ regions'[r].data = regions'[q].data
            => r = q
    BY <1>3, <1>4 DEF RegionInv, RegionsAgree
  <1>11. RegionsAgree' BY <1>7, <1>8, <1>9, <1>10 DEF RegionsAgree
  <1>12. ContentKept BY <1>2, <1>4 DEF ContentKept
  <1> QED BY <1>6, <1>7, <1>11, <1>12 DEF RegionInv, RegionTypes

\* flux_vm_region_destroy.
LEMMA DestroyKeeps ==
    ASSUME RegionInv, NEW rid, DestroyRegion(rid)
    PROVE  RegionInv' /\ ContentKept
  <1> USE RegionAssumption
  <1> DEFINE others == {r \in RegionIds \ {rid} : regions[r].active}
  <1>1. /\ rid \in RegionIds /\ regions[rid].active
        /\ held' = held \ {regions[rid].data}
        /\ regions' = [regions EXCEPT ![rid].active = FALSE, ![rid].data = NoData]
        /\ activeRegion' = ActiveAfter(rid)
    BY DEF DestroyRegion, IsRegion
  <1>2. /\ \A r \in RegionIds \ {rid} : regions'[r] = regions[r]
        /\ regions'[rid].active = FALSE /\ regions'[rid].data = NoData
    BY <1>1 DEF RegionInv, RegionTypes, Region
  <1>3. regions' \in [RegionIds -> Region]
    BY <1>1 DEF RegionInv, RegionTypes, Region
  <1>4. {r \in RegionIds : regions'[r].active} = others
    BY <1>1, <1>2
  <1>5. others = {} => activeRegion' = NoRegion
    BY <1>1 DEF ActiveAfter, RegionInv, RegionTypes, RegionsAgree
  <1>6. others # {} => activeRegion' \in others
    <2>1. others \in SUBSET Nat BY DEF RegionIds
    <2>2. others # {} => Smallest(others) \in others BY <2>1, SmallestIn
    <2>3. activeRegion \in RegionIds /\ regions[activeRegion].active
      BY <1>1 DEF RegionInv, RegionTypes, RegionsAgree
    <2> QED BY <1>1, <2>2, <2>3 DEF ActiveAfter
  <1>7. \A r \in others : regions'[r].data \in held'
    <2> SUFFICES ASSUME NEW r \in others PROVE regions'[r].data \in held'
      OBVIOUS
    <2>1. r \in RegionIds /\ r # rid /\ regions[r].active OBVIOUS
    <2>2. \A q \in RegionIds : regions[q].active /\ regions[q].data = regions[r].data
                                => q = r
      BY <2>1 DEF RegionInv, RegionsAgree
    <2>3. regions[r].data # regions[rid].data BY <1>1, <2>1, <2>2
    <2>4. regions[r].data \in held BY <2>1 DEF RegionInv, RegionsAgree
    <2>5. regions'[r] = regions[r] BY <1>2, <2>1
    <2>6. held' = held \ {regions[rid].data} BY <1>1
    <2> QED BY <2>3, <2>4, <2>5, <2>6
  <1>8. \A r \in RegionIds \ others : regions'[r].data = NoData
    BY <1>2 DEF RegionInv, RegionsAgree
  <1>9. \A r, q \in others : regions'[r].data = regions'[q].data => r = q
    BY <1>2 DEF RegionInv, RegionsAgree
  <1>10. RegionsAgree'
    BY <1>4, <1>5, <1>6, <1>7, <1>8, <1>9 DEF RegionsAgree
  <1>11. ContentKept BY <1>2 DEF ContentKept
  <1>12. activeRegion' \in RegionIds \cup {NoRegion} BY <1>5, <1>6
  <1> QED BY <1>1, <1>3, <1>10, <1>11, <1>12 DEF RegionInv, RegionTypes

\* flux_vm_region_resize.
LEMMA ResizeKeeps ==
    ASSUME RegionInv, NEW rid, ResizeRegion(rid)
    PROVE  RegionInv' /\ ContentKept
  <1> USE RegionAssumption
  <1>1. PICK block \in {regions[rid].data}
                        \cup (IF held = Blocks THEN {} ELSE {NewBlock}) :
            /\ held' = (held \ {regions[rid].data}) \cup {block}
            /\ regions' = [regions EXCEPT ![rid].data = block]
    BY DEF ResizeRegion
  <1>2. rid \in RegionIds /\ regions[rid].active /\ activeRegion' = activeRegion
    BY DEF ResizeRegion, IsRegion
  <1>3. block = regions[rid].data \/ block \in Blocks \ held
    <2>1. held # Blocks => Blocks \ held # {} BY DEF RegionInv, RegionTypes
    <2>2. held # Blocks => NewBlock \in Blocks \ held
      BY <2>1, SmallestIn DEF NewBlock
    <2> QED BY <1>1, <2>2
  <1>4. regions[rid].data \in held BY <1>2 DEF RegionInv, RegionsAgree
  <1>5. block \in Blocks BY <1>3, <1>4 DEF RegionInv, RegionTypes
  <1>6. regions' \in [RegionIds -> Region] /\ held' \subseteq Blocks
    BY <1>1, <1>5 DEF RegionInv, RegionTypes, Region
  <1>7. /\ \A r \in RegionIds \ {rid} : regions'[r] = regions[r]
        /\ \A r \in RegionIds : /\ regions'[r].active = regions[r].active
                                /\ regions'[r].content = regions[r].content
        /\ regions'[rid].data = block
    BY <1>1, <1>2 DEF RegionInv, RegionTypes, Region
  <1>8. \A r \in RegionIds : regions'[r].active => regions'[r].data \in held'
    BY <1>1, <1>2, <1>7 DEF RegionInv, RegionsAgree
  <1>9. \A r \in RegionIds : ~regions'[r].active => regions'[r].data = NoData
    BY <1>2, <1>7 DEF RegionInv, RegionsAgree
  <1>10. \A r, q \in RegionIds :
            regions'[r].active /\ regions'[q].active /\ regions'[r].data = regions'[q].data
            => r = q
    BY <1>2, <1>3, <1>7 DEF RegionInv, RegionsAgree
  <1>11. RegionsAgree'
    BY <1>2, <1>7, <1>8, <1>9, <1>10 DEF RegionInv, RegionsAgree
  <1>12. ContentKept BY <1>7 DEF ContentKept
  <1> QED BY <1>2, <1>6, <1>11, <1>12 DEF RegionInv, RegionTypes

\* The flags and the active region.
LEMMA FlagsKeep ==
    ASSUME RegionInv, NEW rid, NEW readonly \in BOOLEAN,
           SetReadonly(rid, readonly) \/ SetActive(rid)
    PROVE  RegionInv' /\ ContentKept
  <1>1. /\ regions' \in [RegionIds -> Region] /\ held' = held
        /\ \A r \in RegionIds : /\ regions'[r].active = regions[r].active
                                /\ regions'[r].data = regions[r].data
                                /\ regions'[r].content = regions[r].content
    <2>1. CASE SetReadonly(rid, readonly)
      BY <2>1 DEF SetReadonly, RegionInv, RegionTypes, Region
    <2>2. CASE SetActive(rid)
      BY <2>2 DEF SetActive, RegionInv, RegionTypes
    <2> QED BY <2>1, <2>2
  <1>2. \/ activeRegion' = activeRegion
        \/ activeRegion' \in RegionIds /\ regions[activeRegion'].active
    <2>1. CASE SetReadonly(rid, readonly) BY <2>1 DEF SetReadonly
    <2>2. CASE SetActive(rid) BY <2>2 DEF SetActive, IsRegion
    <2> QED BY <2>1, <2>2
  <1>3. RegionsAgree'
    BY <1>1, <1>2 DEF RegionInv, RegionsAgree
  <1>4. ContentKept BY <1>1 DEF ContentKept
  <1> QED BY <1>1, <1>2, <1>3, <1>4 DEF RegionInv, RegionTypes

\* All regions at once: flux_vm_region_destroy_all, flux_vm_reset and
\* flux_vm_destroy.
LEMMA AllGoneKeeps ==
    ASSUME RegionInv, DestroyAll \/ Reset \/ Recreate
    PROVE  RegionInv' /\ ContentKept
  <1>1. /\ regions' \in [RegionIds -> Region] /\ held' \subseteq held
        /\ \A r \in RegionIds : ~regions'[r].active /\ regions'[r].data = NoData
        /\ activeRegion' = NoRegion
    <2>1. EmptyRegion \in Region /\ ~EmptyRegion.active /\ EmptyRegion.data = NoData
      BY DEF EmptyRegion, Region, Contents
    <2>2. CASE DestroyAll
      BY <2>2 DEF DestroyAll, RegionInv, RegionTypes, Region
    <2>3. CASE Reset \/ Recreate
      BY <2>1, <2>3 DEF Reset, Recreate
    <2> QED BY <2>2, <2>3
  <1>2. RegionsAgree' BY <1>1 DEF RegionsAgree
  <1>3. ContentKept BY <1>1 DEF ContentKept
  <1> QED BY <1>1, <1>2, <1>3 DEF RegionInv, RegionTypes

\* Any call of the host on the regions.
LEMMA RegionCallKeeps ==
    ASSUME RegionInv, RegionCall
    PROVE  RegionInv' /\ KeepsOthers
  <1>1. ASSUME NEW rid, NEW content \in Contents, MayWrite(rid), Overwrite(rid, content)
        PROVE  RegionInv' /\ KeepsOthers
    BY <1>1, OverwriteKeeps, OnlyIsKept DEF MayWrite
  <1>2. CASE \E readonly \in BOOLEAN : CreateRegion(readonly)
    BY <1>2, CreateKeeps, KeptIsKept
  <1>3. CASE \E r \in RegionIds : DestroyRegion(r)
    BY <1>3, DestroyKeeps, KeptIsKept
  <1>4. CASE \E r \in RegionIds : ResizeRegion(r)
    BY <1>4, ResizeKeeps, KeptIsKept
  <1>5. CASE \E r \in RegionIds : SetActive(r)
    <2>1. TRUE \in BOOLEAN OBVIOUS
    <2> QED BY <1>5, <2>1, FlagsKeep, KeptIsKept
  <1>6. CASE \E r \in RegionIds, readonly \in BOOLEAN : SetReadonly(r, readonly)
    BY <1>6, FlagsKeep, KeptIsKept
  <1>7. CASE \E r \in RegionIds : WriteRegion(r)
    BY <1>1, <1>7 DEF WriteRegion
  <1>8. CASE \E r \in RegionIds, value \in Contents : FillRegion(r, value)
    <2>1. PICK r \in RegionIds, value \in Contents : FillRegion(r, value) BY <1>8
    <2>2. regions[r].content \in Contents BY DEF RegionInv, RegionTypes, Region
    <2> QED BY <1>1, <2>1, <2>2 DEF FillRegion
  <1>9. CASE \E src, dst \in RegionIds : CopyRegion(src, dst)
    <2>1. PICK src \in RegionIds, dst \in RegionIds : CopyRegion(src, dst) BY <1>9
    <2>2. regions[src].content \in Contents /\ regions[dst].content \in Contents
      BY DEF RegionInv, RegionTypes, Region
    <2> QED BY <1>1, <2>1, <2>2 DEF CopyRegion
  <1>10. CASE DestroyAll
    BY <1>10, AllGoneKeeps, KeptIsKept
  <1> QED BY <1>2, <1>3, <1>4, <1>5, <1>6, <1>7, <1>8, <1>9, <1>10 DEF RegionCall

\* An instruction: it moves the program counter, so it is no call of the host.
LEMMA ExecuteKeeps ==
    ASSUME RegionInv, SafeCpu(cpu), Execute
    PROVE  RegionInv' /\ KeepsOthers
  <1>1. \A d \in RegisterWritten(Fetched) : d.pc = cpu.pc + 1
    BY DEF RegisterWritten, Fetched, SafeCpu, CpuType
  <1>2. cpu.pc + 1 # cpu.pc BY DEF SafeCpu, CpuType
  <1>3. Fetched \in RegisterWritten(Fetched) BY DEF RegisterWritten
  <1>4. ASSUME NEW rid, NEW content \in Contents, IsRegion(rid), Overwrite(rid, content),
               cpu' \in RegisterWritten(Fetched)
        PROVE  RegionInv' /\ KeepsOthers
    <2>1. cpu' # cpu BY <1>1, <1>2, <1>4
    <2> QED BY <1>4, <2>1, OverwriteKeeps, OnlyIsKept
  <1>5. ASSUME UNCHANGED regionVars PROVE RegionInv' /\ KeepsOthers
    <2>1. RegionInv'
      BY <1>5 DEF regionVars, RegionInv, RegionTypes, RegionsAgree
    <2>2. ContentKept BY <1>5 DEF regionVars, ContentKept
    <2> QED BY <2>1, <2>2, KeptIsKept
  <1>6. CASE LoadStoreOp
    BY <1>3, <1>4, <1>5, <1>6 DEF LoadStoreOp, Executes
  <1>7. CASE AtomicOp
    BY <1>4, <1>5, <1>7 DEF AtomicOp, Executes
  <1>8. CASE RegionAccessOp
    BY <1>3, <1>4, <1>5, <1>8 DEF RegionAccessOp, Executes
  <1>9. CASE RegionOp
    <2>1. FALSE \in BOOLEAN OBVIOUS
    <2> QED BY <1>5, <1>9, <2>1, CreateKeeps, DestroyKeeps, KeptIsKept DEF RegionOp
  <1>10. CASE ProfileOp \/ PlainOp
    BY <1>5, <1>10 DEF ProfileOp, PlainOp
  <1> QED BY <1>6, <1>7, <1>8, <1>9, <1>10 DEF Execute

LEMMA RegionInvNext ==
    ASSUME StackInv, RegionInv, [VmNext]_vmVars
    PROVE  RegionInv' /\ [KeepsOthers /\ RegionsAgree']_vmVars
  <1>1. ASSUME UNCHANGED regionVars PROVE RegionInv' /\ KeepsOthers
    <2>1. RegionInv'
      BY <1>1 DEF regionVars, RegionInv, RegionTypes, RegionsAgree
    <2>2. ContentKept BY <1>1 DEF regionVars, ContentKept
    <2> QED BY <2>1, <2>2, KeptIsKept
  <1>2. ASSUME VmStep PROVE RegionInv' /\ KeepsOthers
    <2>1. SafeCpu(cpu) BY DEF StackInv
    <2> QED BY <1>1, <1>2, <2>1, ExecuteKeeps DEF VmStep, PcFault
  <1>3. ASSUME RunStep PROVE RegionInv' /\ KeepsOthers
    <2>1. VmStep \/ UNCHANGED regionVars BY <1>3 DEF RunStep, regionVars
    <2> QED BY <1>1, <1>2, <2>1
  <1>4. ASSUME HostCall PROVE RegionInv' /\ KeepsOthers
    <2>1. \/ VmStep \/ UNCHANGED regionVars \/ Reset \/ Recreate \/ RegionCall
      BY <1>4 DEF HostCall, StartRun, Load, HostStop, HostRegionCall, regionVars
    <2>2. CASE Reset \/ Recreate BY <2>2, AllGoneKeeps, KeptIsKept
    <2>3. CASE RegionCall BY <2>3, RegionCallKeeps
    <2> QED BY <1>1, <1>2, <2>1, <2>2, <2>3
  <1>5. CASE UNCHANGED vmVars
    BY <1>1, <1>5 DEF vmVars
  <1> QED BY <1>3, <1>4, <1>5 DEF VmNext, RegionInv

\* Across creation, destruction, resizing, reset and re-creation in every
\* order the regions own their data apart, the active one exists, and no call
\* reaches into another region or writes one that is readonly.
THEOREM RegionsStayApart == VmSpec => RegionsKept
<1>1. VmInit => StackInv /\ RegionInv
  <2>1. VmInit => StackInv
    BY VmAssumption
    DEF VmInit, StackInv, ResetCpu, SafeCpu, CpuType, VmStates, Words, Targets,
        NoHandler, NoRun
  <2>2. VmInit => RegionInv
    BY DEF VmInit, RegionsInit, RegionInv, RegionTypes, RegionsAgree, Region,
           EmptyRegion, Contents
  <2> QED BY <2>1, <2>2
<1>2. StackInv /\ RegionInv /\ [VmNext]_vmVars
      => StackInv' /\ RegionInv' /\ [KeepsOthers /\ RegionsAgree']_vmVars
  BY StackInvNext, RegionInvNext
<1> QED BY <1>1, <1>2, PTL DEF VmSpec, RegionsKept

----------------------------------------------------------------------------
(* The word operations.  A word is handled as the chain of its halves: the  *)
(* word, the word without its lowest bit, without its two lowest bits, ...  *)

\* Induction along an interval.
LEMMA Upward ==
    ASSUME NEW n \in Nat, NEW T, 0 \in T, \A i \in 1 .. n : i - 1 \in T => i \in T
    PROVE  \A i \in 0 .. n : i \in T
  <1> DEFINE Bad == {i \in 0 .. n : i \notin T}
  <1>1. Bad \in SUBSET Nat OBVIOUS
  <1>2. SUFFICES ASSUME Bad # {} PROVE FALSE OBVIOUS
  <1>3. PICK k \in Bad : \A j \in Bad : k <= j
    <2> HIDE DEF Bad
    <2> QED BY <1>1, <1>2, LeastOf
  <1>4. k \in 1 .. n BY <1>3
  <1>5. k - 1 \notin Bad BY <1>3, <1>4
  <1> QED BY <1>3, <1>4, <1>5

\* The same from its upper end.
LEMMA Downward ==
    ASSUME NEW n \in Nat, NEW T, n \in T, \A i \in 0 .. n - 1 : i + 1 \in T => i \in T
    PROVE  \A i \in 0 .. n : i \in T
  <1> DEFINE U == {j \in 0 .. n : n - j \in T}
  <1>1. 0 \in U OBVIOUS
  <1>2. ASSUME NEW j \in 1 .. n, j - 1 \in U PROVE j \in U
    <2>1. n - j \in 0 .. n - 1 /\ n - (j - 1) = (n - j) + 1 OBVIOUS
    <2>2. (n - j) + 1 \in T BY <1>2, <2>1
    <2> QED BY <2>1, <2>2
  <1>3. \A j \in 0 .. n : j \in U
    <2> HIDE DEF U
    <2> QED BY <1>1, <1>2, Upward
  <1>4. ASSUME NEW i \in 0 .. n PROVE i \in T
    <2>1. n - i \in 0 .. n /\ n - (n - i) = i OBVIOUS
    <2> QED BY <1>3, <2>1
  <1> QED BY <1>4

\* A recursion of n steps, each from the value before.
Recursion(f, n, start, step) ==
    /\ f \in [0 .. n -> Nat] /\ f[0] = start
    /\ \A i \in 1 .. n : f[i] = step[i][f[i - 1]]

\* A recursive definition has a value: some function obeys it.
LEMMA RecursionExists ==
    ASSUME NEW n \in Nat, NEW start \in Nat, NEW step \in [1 .. n -> [Nat -> Nat]]
    PROVE  \E f : Recursion(f, n, start, step)
  <1> DEFINE Upto(m) == \E f \in [0 .. n -> Nat] :
                          /\ f[0] = start
                          /\ \A i \in 1 .. n : i <= m => f[i] = step[i][f[i - 1]]
             T == {m \in 0 .. n : Upto(m)}
  <1>1. 0 \in T
    <2> DEFINE f == [i \in 0 .. n |-> start]
    <2>1. f \in [0 .. n -> Nat] /\ f[0] = start OBVIOUS
    <2>2. \A i \in 1 .. n : ~(i <= 0) OBVIOUS
    <2> HIDE DEF f
    <2>3. Upto(0) BY <2>1, <2>2
    <2> HIDE DEF Upto
    <2> QED BY <2>3
  <1>2. ASSUME NEW m \in 1 .. n, m - 1 \in T PROVE m \in T
    <2>1. PICK f \in [0 .. n -> Nat] :
             /\ f[0] = start
             /\ \A i \in 1 .. n : i <= m - 1 => f[i] = step[i][f[i - 1]]
      BY <1>2
    <2> DEFINE g == [f EXCEPT ![m] = step[m][f[m - 1]]]
    <2>2. step[m][f[m - 1]] \in Nat /\ m - 1 \in 0 .. n OBVIOUS
    <2>3. /\ g \in [0 .. n -> Nat] /\ g[0] = f[0] /\ g[m] = step[m][f[m - 1]]
          /\ \A i \in 0 .. n : i # m => g[i] = f[i]
      <3>1. PICK v \in Nat : v = step[m][f[m - 1]] BY <2>2
      <3>2. g = [f EXCEPT ![m] = v] BY <3>1
      <3> HIDE DEF g
      <3>3. /\ g \in [0 .. n -> Nat] /\ g[m] = v
            /\ \A i \in 0 .. n : i # m => g[i] = f[i]
        <4>1. m \in 0 .. n OBVIOUS
        <4> QED BY <2>1, <3>2, <4>1
      <3>4. 0 \in 0 .. n /\ 0 # m OBVIOUS
      <3> QED BY <3>1, <3>3, <3>4
    <2> HIDE DEF g
    <2>4. ASSUME NEW i \in 1 .. n, i <= m PROVE g[i] = step[i][g[i - 1]]
      <3>1. i - 1 \in 0 .. n /\ i - 1 # m BY <2>4
      <3>2. g[i - 1] = f[i - 1] BY <2>3, <3>1
      <3>3. CASE i = m BY <2>3, <3>2, <3>3
      <3>4. CASE i # m
        <4>1. i <= m - 1 BY <2>4, <3>4
        <4>2. g[i] = f[i] BY <2>3, <3>4
        <4> QED BY <2>1, <3>2, <4>1, <4>2
      <3> QED BY <3>3, <3>4
    <2>5. g[0] = start BY <2>1, <2>3
    <2>6. Upto(m) BY <2>3, <2>4, <2>5
    <2> HIDE DEF Upto
    <2> QED BY <2>6
  <1>3. Upto(n)
    <2> HIDE DEF T
    <2>1. \A i \in 0 .. n : i \in T BY <1>1, <1>2, Upward
    <2>2. n \in T BY <2>1
    <2> HIDE DEF Upto
    <2> QED BY <2>2 DEF T
  <1>4. \A i \in 1 .. n : i <= n OBVIOUS
  <1> QED BY <1>3, <1>4 DEF Recursion

\* The powers of two.
LEMMA WidthIs == Width \in Nat /\ Width >= 8 /\ (Width = 8 \/ Width = 64)
  BY WidthAssumption

\* Pow2 obeys its recursion.
LEMMA Pow2Is ==
    /\ Pow2 \in [0 .. Width -> Nat] /\ Pow2[0] = 1
    /\ \A i \in 1 .. Width : Pow2[i] = 2 * Pow2[i - 1]
  <1>0. Width \in Nat BY WidthIs
  <1> DEFINE step == [i \in 1 .. Width |-> [v \in Nat |-> 2 * v]]
             Doubles(p) == [k \in 0 .. Width |-> IF k = 0 THEN 1 ELSE 2 * p[k - 1]]
  <1>1. PICK f : Recursion(f, Width, 1, step)
    <2>1. step \in [1 .. Width -> [Nat -> Nat]] OBVIOUS
    <2> HIDE DEF step
    <2> QED BY <1>0, <2>1, RecursionExists
  <1>2. \A i \in 1 .. Width, v \in Nat : step[i][v] = 2 * v OBVIOUS
  <1>3. /\ f \in [0 .. Width -> Nat] /\ f[0] = 1
        /\ \A i \in 1 .. Width : f[i] = 2 * f[i - 1]
    <2>1. \A i \in 1 .. Width : f[i - 1] \in Nat BY <1>0, <1>1 DEF Recursion
    <2> HIDE DEF step
    <2> QED BY <1>1, <1>2, <2>1 DEF Recursion
  <1>4. f = Doubles(f) BY <1>0, <1>3
  <1>5. Pow2 = Doubles(Pow2)
    <2> DEFINE p == CHOOSE p : p = Doubles(p)
    <2>1. p = Doubles(p) BY <1>4
    <2>2. Pow2 = p BY DEF Pow2
    <2> HIDE DEF p
    <2> QED BY <2>1, <2>2
  <1> DEFINE T == {i \in 0 .. Width : Pow2[i] = f[i]}
  <1>6. 0 \in T BY <1>0, <1>3, <1>5
  <1>7. ASSUME NEW i \in 1 .. Width, i - 1 \in T PROVE i \in T
    <2>1. Pow2[i] = Doubles(Pow2)[i] BY <1>5
    <2>2. Pow2[i] = 2 * Pow2[i - 1] BY <1>0, <2>1
    <2> QED BY <1>3, <1>7, <2>2
  <1>8. \A i \in 0 .. Width : i \in T
    <2> HIDE DEF T
    <2> QED BY <1>0, <1>6, <1>7, Upward
  <1>9. Pow2 = f
    <2>1. \A i \in 0 .. Width : Pow2[i] = f[i] BY <1>8
    <2>2. DOMAIN Pow2 = 0 .. Width BY <1>5
    <2>3. Pow2 = [i \in 0 .. Width |-> Pow2[i]] BY <1>5
    <2>4. f = [i \in 0 .. Width |-> f[i]] BY <1>3
    <2> HIDE DEF Doubles
    <2> QED BY <2>1, <2>3, <2>4
  <1> QED BY <1>3, <1>9

\* Each power of two is at least one and doubles the one before.
LEMMA PowersGrow ==
    /\ \A i \in 0 .. Width : Pow2[i] \in Nat /\ Pow2[i] > 0
    /\ \A i \in BitPlaces : Pow2[i + 1] = 2 * Pow2[i]
  <1> DEFINE T == {i \in 0 .. Width : Pow2[i] > 0}
  <1>1. 0 \in T /\ \A i \in 1 .. Width : i - 1 \in T => i \in T
    <2>1. 0 \in T BY Pow2Is, WidthIs
    <2>2. ASSUME NEW i \in 1 .. Width, i - 1 \in T PROVE i \in T
      <3>0. i - 1 \in 0 .. Width BY WidthIs
      <3>1. Pow2[i] = 2 * Pow2[i - 1] /\ Pow2[i - 1] \in Nat BY <3>0, Pow2Is
      <3>2. Pow2[i - 1] > 0 /\ i \in 0 .. Width BY <2>2, WidthIs
      <3> QED BY <3>1, <3>2
    <2> QED BY <2>1, <2>2
  <1>2. \A i \in 0 .. Width : i \in T
    <2> HIDE DEF T
    <2> QED BY <1>1, WidthIs, Upward
  <1>3. \A i \in BitPlaces : i + 1 \in 1 .. Width /\ (i + 1) - 1 = i BY WidthIs DEF BitPlaces
  <1> QED BY <1>2, <1>3, Pow2Is

\* Division by a power of two, one bit at a time.
LEMMA DivUnique ==
    ASSUME NEW d \in Nat, d > 0, NEW t \in Int, NEW e \in 0 .. d - 1
    PROVE  (t * d + e) \div d = t /\ (t * d + e) % d = e
  <1> DEFINE x == t * d + e
             q == x \div d
             r == x % d
  <1>1. x \in Int /\ q \in Int /\ r \in 0 .. d - 1 /\ x = q * d + r OBVIOUS
  <1>2. PICK z \in Int : z = q - t BY <1>1
  <1>3. z * d = e - r BY <1>1, <1>2
  <1>4. ~(z >= 1)
    <2>1. SUFFICES ASSUME z >= 1 PROVE FALSE OBVIOUS
    <2>2. z * d >= d BY <2>1
    <2> QED BY <1>1, <1>3, <2>2
  <1>5. ~(z <= -1)
    <2>1. SUFFICES ASSUME z <= -1 PROVE FALSE OBVIOUS
    <2>2. z * d <= -d BY <2>1
    <2> QED BY <1>1, <1>3, <2>2
  <1>6. z = 0 BY <1>4, <1>5
  <1> QED BY <1>1, <1>2, <1>3, <1>6

\* Division by twice a number divides and halves.
LEMMA DivHalf ==
    ASSUME NEW x \in Nat, NEW p \in Nat, p > 0
    PROVE  x \div p \in Nat /\ x \div (2 * p) = (x \div p) \div 2
  <1>1. PICK q \in Nat, r \in 0 .. p - 1 : x = q * p + r /\ q = x \div p
    <2>1. x \div p \in Nat /\ x % p \in 0 .. p - 1 /\ x = (x \div p) * p + (x % p) OBVIOUS
    <2> QED BY <2>1
  <1>2. PICK t \in Nat, u \in 0 .. 1 : q = 2 * t + u /\ t = q \div 2
    <2>1. q \div 2 \in Nat /\ q % 2 \in 0 .. 1 /\ q = 2 * (q \div 2) + (q % 2) OBVIOUS
    <2> QED BY <2>1
  <1>3. PICK e \in Int : e = u * p + r BY <1>1, <1>2
  <1>4. e \in 0 .. 2 * p - 1 BY <1>2, <1>3
  <1>5. x = t * (2 * p) + e BY <1>1, <1>2, <1>3
  <1>6. 2 * p \in Nat /\ 2 * p > 0 OBVIOUS
  <1>7. x \div (2 * p) = t BY <1>4, <1>5, <1>6, DivUnique
  <1> QED BY <1>1, <1>2, <1>7

\* A number, then always the half of the one before, and nothing is left
\* after Width halvings.
Halvings(h) ==
    /\ h \in [0 .. Width -> Nat] /\ h[Width] = 0
    /\ \A i \in BitPlaces : h[i + 1] = h[i] \div 2

\* That is what is left of a word by its right shifts.
LEMMA ChainIs ==
    ASSUME NEW h, Halvings(h)
    PROVE  h[0] \in Word /\ \A i \in 0 .. Width : ShiftRight(h[0], i) = h[i]
  <1>0. h[0] \in Nat /\ Width \in 0 .. Width BY WidthIs DEF Halvings
  <1> DEFINE T == {i \in 0 .. Width : h[0] \div Pow2[i] = h[i]}
  <1>1. 0 \in T
    <2>1. Pow2[0] = 1 /\ 0 \in 0 .. Width BY Pow2Is, WidthIs
    <2>2. h[0] \div 1 = h[0] BY <1>0
    <2> QED BY <2>1, <2>2
  <1>2. ASSUME NEW i \in 1 .. Width, i - 1 \in T PROVE i \in T
    <2>1. i - 1 \in BitPlaces /\ (i - 1) + 1 = i /\ i \in 0 .. Width
      BY WidthIs DEF BitPlaces
    <2>2. Pow2[i] = 2 * Pow2[i - 1] BY <2>1, PowersGrow
    <2>3. Pow2[i - 1] \in Nat /\ Pow2[i - 1] > 0 BY <2>1, WidthIs, PowersGrow DEF BitPlaces
    <2>4. h[0] \div Pow2[i] = (h[0] \div Pow2[i - 1]) \div 2 BY <1>0, <2>2, <2>3, DivHalf
    <2>5. h[i] = h[i - 1] \div 2 BY <2>1 DEF Halvings
    <2> QED BY <1>2, <2>1, <2>4, <2>5
  <1>3. \A i \in 0 .. Width : i \in T
    <2> HIDE DEF T
    <2> QED BY <1>1, <1>2, WidthIs, Upward
  <1>4. h[0] \div Pow2[Width] = 0 BY <1>0, <1>3 DEF Halvings
  <1>5. h[0] < Pow2[Width]
    <2>1. PICK p \in Nat : p = Pow2[Width] /\ p > 0 BY <1>0, PowersGrow
    <2>2. h[0] \div p = 0 BY <1>4, <2>1
    <2>3. PICK x \in Nat : x = h[0] BY <1>0
    <2>4. x \div p = 0 BY <2>2, <2>3
    <2>5. x < p BY <2>1, <2>4
    <2> QED BY <2>1, <2>3, <2>5
  <1>6. Pow2[Width] \in Nat BY <1>0, PowersGrow
  <1> QED BY <1>0, <1>3, <1>5, <1>6 DEF Word, ShiftRight

\* The right shifts of a word.
Shifts(x) == [i \in 0 .. Width |-> ShiftRight(x, i)]

\* A word is such a chain: each shift drops its lowest bit.
LEMMA WordHalves ==
    ASSUME NEW x \in Word
    PROVE  Halvings(Shifts(x)) /\ Shifts(x)[0] = x
  <1>0. x \in Nat /\ x < Pow2[Width] /\ Width \in 0 .. Width
    <2>1. Width \in 0 .. Width BY WidthIs
    <2>2. Pow2[Width] \in Nat BY <2>1, PowersGrow
    <2> QED BY <2>1, <2>2 DEF Word
  <1>1. \A i \in 0 .. Width : ShiftRight(x, i) \in Nat
    BY <1>0, PowersGrow, DivHalf DEF ShiftRight
  <1>2. ShiftRight(x, Width) = 0
    <2>1. PICK p \in Nat : p = Pow2[Width] /\ p > 0 BY <1>0, PowersGrow
    <2>2. x \div p = 0 BY <1>0, <2>1
    <2> QED BY <2>1, <2>2 DEF ShiftRight
  <1>3. ASSUME NEW i \in BitPlaces PROVE ShiftRight(x, i + 1) = ShiftRight(x, i) \div 2
    <2>1. i \in 0 .. Width BY WidthIs DEF BitPlaces
    <2>2. Pow2[i] \in Nat /\ Pow2[i] > 0 /\ Pow2[i + 1] = 2 * Pow2[i] BY <2>1, PowersGrow
    <2> QED BY <1>0, <2>2, DivHalf DEF ShiftRight
  <1>4. \A i \in BitPlaces : i \in 0 .. Width /\ i + 1 \in 0 .. Width BY WidthIs DEF BitPlaces
  <1>5. 0 \in 0 .. Width /\ ShiftRight(x, 0) = x
    <2>1. 0 \in 0 .. Width BY WidthIs
    <2> QED BY <1>0, <2>1, Pow2Is DEF ShiftRight
  <1> QED BY <1>0, <1>1, <1>2, <1>3, <1>4, <1>5 DEF Halvings, Shifts

\* Chains with the same bits begin with the same word.
LEMMA SameBits ==
    ASSUME NEW g, NEW h, Halvings(g), Halvings(h), \A i \in BitPlaces : g[i] % 2 = h[i] % 2
    PROVE  g[0] = h[0]
  <1> DEFINE T == {i \in 0 .. Width : g[i] = h[i]}
  <1>0. Width \in Nat BY WidthIs
  <1>1. Width \in T BY <1>0 DEF Halvings
  <1>2. ASSUME NEW i \in 0 .. Width - 1, i + 1 \in T PROVE i \in T
    <2>1. i \in BitPlaces /\ i \in 0 .. Width BY <1>0 DEF BitPlaces
    <2>2. g[i] \in Nat /\ h[i] \in Nat BY <2>1 DEF Halvings
    <2>3. g[i] \div 2 = h[i] \div 2 BY <1>2, <2>1 DEF Halvings
    <2>4. g[i] % 2 = h[i] % 2 BY <2>1
    <2> QED BY <2>1, <2>2, <2>3, <2>4
  <1>3. \A i \in 0 .. Width : i \in T
    <2> HIDE DEF T
    <2> QED BY <1>0, <1>1, <1>2, Downward
  <1> QED BY <1>0, <1>3

\* The bits of the words of a chain are the bits of its first one.
LEMMA BitsAre ==
    ASSUME NEW h, Halvings(h)
    PROVE  Ones(h[0]) = {i \in BitPlaces : h[i] % 2 = 1}
  <1>1. \A i \in BitPlaces : i \in 0 .. Width BY WidthIs DEF BitPlaces
  <1> QED BY <1>1, ChainIs DEF Ones, Bit

\* A word is known by its ones.
LEMMA OnesOnce ==
    ASSUME NEW x \in Word, NEW y \in Word, Ones(x) = Ones(y)
    PROVE  x = y
  <1> DEFINE g == Shifts(x)
             h == Shifts(y)
  <1>1. Halvings(g) /\ g[0] = x /\ Halvings(h) /\ h[0] = y BY WordHalves
  <1> HIDE DEF g, h
  <1>2. \A i \in BitPlaces : g[i] % 2 = 1 <=> h[i] % 2 = 1 BY <1>1, BitsAre
  <1>3. \A i \in BitPlaces : g[i] \in Nat /\ h[i] \in Nat
    <2>1. \A i \in BitPlaces : i \in 0 .. Width BY WidthIs DEF BitPlaces
    <2> QED BY <1>1, <2>1 DEF Halvings
  <1>4. \A i \in BitPlaces : g[i] % 2 = h[i] % 2
    <2>1. \A a, b \in Nat : (a % 2 = 1 <=> b % 2 = 1) => a % 2 = b % 2 OBVIOUS
    <2> QED BY <1>2, <1>3, <2>1
  <1> QED BY <1>1, <1>4, SameBits

\* The word with given ones.
DigitsOf(S, f) ==
    [i \in 0 .. Width |-> IF i = Width THEN 0
                          ELSE (IF i \in S THEN 1 ELSE 0) + 2 * f[i + 1]]

\* Number computes a chain whose bits are the members of the set.
LEMMA NumberHalves ==
    ASSUME NEW S \in SUBSET BitPlaces
    PROVE  \E h : /\ Halvings(h) /\ h[0] = Number(S)
                  /\ \A i \in BitPlaces : h[i] = (IF i \in S THEN 1 ELSE 0) + 2 * h[i + 1]
  <1>0. Width \in Nat BY WidthIs
  <1> DEFINE digit(i) == IF i \in S THEN 1 ELSE 0
             step == [i \in 1 .. Width |-> [v \in Nat |-> digit(Width - i) + 2 * v]]
  <1>1. PICK f : Recursion(f, Width, 0, step)
    <2>1. step \in [1 .. Width -> [Nat -> Nat]] OBVIOUS
    <2> HIDE DEF step
    <2> QED BY <1>0, <2>1, RecursionExists
  <1>2. \A i \in 1 .. Width, v \in Nat : step[i][v] = digit(Width - i) + 2 * v OBVIOUS
  <1>3. /\ f \in [0 .. Width -> Nat] /\ f[0] = 0
        /\ \A i \in 1 .. Width : f[i] = digit(Width - i) + 2 * f[i - 1]
    <2>1. \A i \in 1 .. Width : f[i - 1] \in Nat BY <1>0, <1>1 DEF Recursion
    <2> HIDE DEF step, digit
    <2> QED BY <1>1, <1>2, <2>1 DEF Recursion
  <1> DEFINE h == [i \in 0 .. Width |-> f[Width - i]]
  <1>4. h \in [0 .. Width -> Nat] /\ h[Width] = 0
    BY <1>0, <1>3
  <1>5. ASSUME NEW i \in BitPlaces PROVE h[i] = digit(i) + 2 * h[i + 1]
    <2>1. /\ Width - i \in 1 .. Width /\ Width - (Width - i) = i
          /\ (Width - i) - 1 = Width - (i + 1)
          /\ i \in 0 .. Width /\ i + 1 \in 0 .. Width
      BY <1>0 DEF BitPlaces
    <2>2. h[i] = f[Width - i] /\ h[i + 1] = f[Width - (i + 1)] BY <2>1
    <2> HIDE DEF h, digit
    <2> QED BY <1>3, <2>1, <2>2
  <1> HIDE DEF h
  <1>6. \A i \in 0 .. Width : i # Width => i \in BitPlaces /\ i + 1 \in 0 .. Width
    BY <1>0 DEF BitPlaces
  <1>7. h = DigitsOf(S, h)
    <2>1. h = [i \in 0 .. Width |-> h[i]] BY <1>4
    <2>2. \A i \in 0 .. Width : h[i] = DigitsOf(S, h)[i]
      BY <1>4, <1>5, <1>6 DEF DigitsOf
    <2>3. DigitsOf(S, h) = [i \in 0 .. Width |-> DigitsOf(S, h)[i]] BY DEF DigitsOf
    <2> QED BY <2>1, <2>2, <2>3
  <1> DEFINE from == CHOOSE from : from = DigitsOf(S, from)
  <1>8. from = DigitsOf(S, from) BY <1>7
  <1>9. Number(S) = from[0] BY DEF Number, DigitsOf
  <1> HIDE DEF from
  <1>10. \A i \in BitPlaces : i \in 0 .. Width /\ i # Width /\ i + 1 \in 0 .. Width
    BY <1>0 DEF BitPlaces
  <1>11. /\ from[Width] = 0
         /\ \A i \in BitPlaces : from[i] = digit(i) + 2 * from[i + 1]
    BY <1>0, <1>8, <1>10 DEF DigitsOf
  <1> DEFINE T == {i \in 0 .. Width : from[i] = h[i]}
  <1>12. Width \in T BY <1>0, <1>4, <1>11
  <1>13. ASSUME NEW i \in 0 .. Width - 1, i + 1 \in T PROVE i \in T
    <2>1. i \in BitPlaces BY DEF BitPlaces
    <2> QED BY <1>5, <1>10, <1>11, <1>13, <2>1
  <1>14. \A i \in 0 .. Width : i \in T
    <2> HIDE DEF T
    <2> QED BY <1>0, <1>12, <1>13, Downward
  <1>15. h[0] = Number(S) BY <1>0, <1>9, <1>14
  <1>16. Halvings(h)
    <2>1. ASSUME NEW i \in BitPlaces PROVE h[i + 1] = h[i] \div 2
      <3>1. h[i] = digit(i) + 2 * h[i + 1] /\ h[i + 1] \in Nat BY <1>4, <1>5, <1>10
      <3>2. digit(i) \in 0 .. 1 OBVIOUS
      <3> HIDE DEF digit
      <3> QED BY <3>1, <3>2
    <2> QED BY <1>4, <2>1 DEF Halvings
  <1> QED BY <1>5, <1>15, <1>16

\* Number gives the word that has its ones in a set of places.
LEMMA NumberIs ==
    ASSUME NEW S \in SUBSET BitPlaces
    PROVE  Number(S) \in Word /\ Ones(Number(S)) = S
  <1>1. PICK h : /\ Halvings(h) /\ h[0] = Number(S)
                 /\ \A i \in BitPlaces : h[i] = (IF i \in S THEN 1 ELSE 0) + 2 * h[i + 1]
    BY NumberHalves
  <1>2. ASSUME NEW i \in BitPlaces PROVE h[i] % 2 = 1 <=> i \in S
    <2>1. h[i + 1] \in Nat
      <3>1. i + 1 \in 0 .. Width BY WidthIs DEF BitPlaces
      <3> QED BY <1>1, <3>1 DEF Halvings
    <2>2. CASE i \in S
      <3>1. h[i] = 1 + 2 * h[i + 1] BY <1>1, <2>2
      <3> QED BY <2>1, <2>2, <3>1
    <2>3. CASE i \notin S
      <3>1. h[i] = 2 * h[i + 1] BY <1>1, <2>1, <2>3
      <3> QED BY <2>1, <2>3, <3>1
    <2> QED BY <2>2, <2>3
  <1> QED BY <1>1, <1>2, ChainIs, BitsAre

\* Powers multiply by adding the places.
LEMMA PowersAdd ==
    ASSUME NEW a \in 0 .. Width
    PROVE  \A b \in 0 .. Width - a : Pow2[a + b] = Pow2[a] * Pow2[b]
  <1>0. Width \in Nat /\ Width - a \in Nat BY WidthIs
  <1>1. PICK p \in Nat : p = Pow2[a] BY PowersGrow
  <1> DEFINE T == {b \in 0 .. Width - a : Pow2[a + b] = p * Pow2[b]}
  <1>2. 0 \in T
    <2>1. Pow2[0] = 1 /\ a + 0 = a /\ 0 \in 0 .. Width - a BY <1>0, Pow2Is
    <2> QED BY <1>1, <2>1
  <1>3. ASSUME NEW b \in 1 .. Width - a, b - 1 \in T PROVE b \in T
    <2>1. /\ b - 1 \in BitPlaces /\ (b - 1) + 1 = b
          /\ a + (b - 1) \in BitPlaces /\ (a + (b - 1)) + 1 = a + b
          /\ b \in 0 .. Width - a /\ b - 1 \in 0 .. Width
      BY <1>0 DEF BitPlaces
    <2>2. Pow2[b] = 2 * Pow2[b - 1] /\ Pow2[a + b] = 2 * Pow2[a + (b - 1)]
      BY <2>1, PowersGrow
    <2>3. PICK q \in Nat : q = Pow2[b - 1] BY <2>1, PowersGrow
    <2>4. Pow2[a + (b - 1)] = p * q BY <1>3, <2>3
    <2>5. p * (2 * q) = 2 * (p * q) BY <1>1
    <2> QED BY <2>1, <2>2, <2>3, <2>4, <2>5
  <1>4. \A b \in 0 .. Width - a : b \in T
    <2> HIDE DEF T
    <2> QED BY <1>0, <1>2, <1>3, Upward
  <1> QED BY <1>1, <1>4

\* Multiplication by a power keeps strict order.
LEMMA ScaledLess ==
    ASSUME NEW x \in Nat, NEW c \in Nat, NEW p \in Nat, p > 0
    PROVE  x * p \in Nat /\ (x < c <=> x * p < c * p)
  <1>1. CASE x < c
    <2>1. PICK d \in Nat : d > 0 /\ c = x + d
      <3>1. c - x \in Nat /\ c - x > 0 /\ c = x + (c - x) BY <1>1
      <3> QED BY <3>1
    <2>2. c * p = x * p + d * p BY <2>1
    <2>3. d * p > 0 /\ d * p \in Nat /\ x * p \in Nat BY <2>1
    <2> QED BY <1>1, <2>2, <2>3
  <1>2. CASE c <= x
    <2>1. PICK d \in Nat : x = c + d
      <3>1. x - c \in Nat /\ x = c + (x - c) BY <1>2
      <3> QED BY <3>1
    <2>2. x * p = c * p + d * p BY <2>1
    <2>3. d * p \in Nat /\ c * p \in Nat BY <2>1
    <2> QED BY <1>2, <2>2, <2>3
  <1> QED BY <1>1, <1>2

\* A quotient is zero exactly when the number is below the divisor.
LEMMA BelowPower ==
    ASSUME NEW x \in Nat, NEW p \in Nat, p > 0
    PROVE  x < p <=> x \div p = 0
  OBVIOUS

\* What m shifts leave is zero exactly when every one is below m.
LEMMA AboveClear ==
    ASSUME NEW h, Halvings(h)
    PROVE  \A m \in 0 .. Width : h[m] = 0 <=> \A j \in Ones(h[0]) : j < m
  <1>0. Width \in Nat BY WidthIs
  <1>1. Ones(h[0]) = {i \in BitPlaces : h[i] % 2 = 1} BY BitsAre
  <1> DEFINE O == Ones(h[0])
             T == {m \in 0 .. Width : h[m] = 0 <=> \A j \in O : j < m}
  <1>2. O \in SUBSET BitPlaces BY <1>1
  <1>3. \A i \in BitPlaces : i \in O <=> h[i] % 2 = 1 BY <1>1
  <1> HIDE DEF O
  <1>4. Width \in T
    <2>1. \A j \in O : j < Width BY <1>0, <1>2 DEF BitPlaces
    <2> QED BY <1>0, <2>1 DEF Halvings
  <1>5. ASSUME NEW m \in 0 .. Width - 1, m + 1 \in T PROVE m \in T
    <2>1. m \in BitPlaces /\ m \in 0 .. Width /\ m + 1 \in 0 .. Width
      BY <1>0 DEF BitPlaces
    <2>2. h[m] \in Nat /\ h[m + 1] \in Nat /\ h[m + 1] = h[m] \div 2
      BY <2>1 DEF Halvings
    <2>3. h[m] = 0 <=> h[m] % 2 # 1 /\ h[m + 1] = 0 BY <2>2
    <2>4. (\A j \in O : j < m) <=> m \notin O /\ \A j \in O : j < m + 1
      <3>1. \A j \in BitPlaces : j < m <=> j # m /\ j < m + 1 BY <1>0 DEF BitPlaces
      <3> QED BY <1>2, <3>1
    <2> QED BY <1>3, <1>5, <2>1, <2>3, <2>4
  <1>6. \A m \in 0 .. Width : m \in T
    <2> HIDE DEF T
    <2> QED BY <1>0, <1>4, <1>5, Downward
  <1> QED BY <1>6 DEF O

\* Divisibility by twice a power is decided by the lowest bit and the rest.
LEMMA LowestBit ==
    ASSUME NEW y \in Nat, NEW b \in 0 .. 1, NEW p \in Nat, p > 0
    PROVE  (b + 2 * y) % (2 * p) = 0 <=> b = 0 /\ y % p = 0
  <1>1. PICK q \in Nat, r \in 0 .. p - 1 : y = q * p + r /\ r = y % p
    <2>1. y \div p \in Nat /\ y % p \in 0 .. p - 1 /\ y = (y \div p) * p + (y % p) OBVIOUS
    <2> QED BY <2>1
  <1>2. b + 2 * y = q * (2 * p) + (b + 2 * r) BY <1>1
  <1>3. b + 2 * r \in 0 .. 2 * p - 1 /\ 2 * p \in Nat /\ 2 * p > 0 BY <1>1
  <1>4. (b + 2 * y) % (2 * p) = b + 2 * r
    <2>1. PICK d \in Nat : d = 2 * p /\ d > 0 BY <1>3
    <2>2. PICK e \in 0 .. d - 1 : e = b + 2 * r BY <1>3, <2>1
    <2>3. \A t \in Int : (t * d + e) % d = e BY <2>1, <2>2, DivUnique
    <2>4. q \in Int BY <1>1
    <2>5. (q * d + e) % d = e BY <2>3, <2>4
    <2> QED BY <1>2, <2>1, <2>2, <2>5
  <1> QED BY <1>1, <1>4

\* After n shifts, 2^k divides the rest exactly when the next k places are clear.
LEMMA BelowClear ==
    ASSUME NEW h, Halvings(h)
    PROVE  \A k \in 0 .. Width : \A n \in 0 .. Width - k :
              h[n] % Pow2[k] = 0 <=> \A j \in Ones(h[0]) : ~(n <= j /\ j < n + k)
  <1>0. Width \in Nat BY WidthIs
  <1>1. Ones(h[0]) = {i \in BitPlaces : h[i] % 2 = 1} BY BitsAre
  <1> DEFINE O == Ones(h[0])
             Clear(n, k) == \A j \in O : ~(n <= j /\ j < n + k)
             T == {k \in 0 .. Width : \A n \in 0 .. Width - k :
                                         h[n] % Pow2[k] = 0 <=> Clear(n, k)}
  <1>2. O \in SUBSET BitPlaces BY <1>1
  <1>3. \A i \in BitPlaces : i \in O <=> h[i] % 2 = 1 BY <1>1
  <1> HIDE DEF O
  <1>4. 0 \in T
    <2>1. ASSUME NEW n \in 0 .. Width - 0 PROVE h[n] % Pow2[0] = 0 <=> Clear(n, 0)
      <3>1. Pow2[0] = 1 /\ n \in 0 .. Width BY <1>0, Pow2Is
      <3>2. h[n] \in Nat BY <3>1 DEF Halvings
      <3>3. h[n] % 1 = 0 BY <3>2
      <3>4. \A j \in BitPlaces : ~(n <= j /\ j < n + 0) BY <1>0 DEF BitPlaces
      <3> QED BY <1>2, <3>1, <3>3, <3>4
    <2> QED BY <1>0, <2>1
  <1>5. ASSUME NEW k \in 1 .. Width, k - 1 \in T PROVE k \in T
    <2>1. ASSUME NEW n \in 0 .. Width - k PROVE h[n] % Pow2[k] = 0 <=> Clear(n, k)
      <3>1. /\ n \in BitPlaces /\ n \in 0 .. Width /\ n + 1 \in 0 .. Width
            /\ n + 1 \in 0 .. Width - (k - 1) /\ k - 1 \in BitPlaces /\ (k - 1) + 1 = k
            /\ k - 1 \in 0 .. Width
        BY <1>0 DEF BitPlaces
      <3>2. h[n] \in Nat /\ h[n + 1] \in Nat /\ h[n + 1] = h[n] \div 2
        BY <3>1 DEF Halvings
      <3>3. PICK p \in Nat : p = Pow2[k - 1] /\ p > 0 /\ Pow2[k] = 2 * p
        BY <3>1, PowersGrow
      <3>4. PICK b \in 0 .. 1 : b = h[n] % 2 /\ h[n] = b + 2 * h[n + 1] BY <3>2
      <3>5. h[n] % Pow2[k] = 0 <=> b = 0 /\ h[n + 1] % p = 0
        <4>1. PICK y \in Nat : y = h[n + 1] BY <3>2
        <4>2. (b + 2 * y) % (2 * p) = 0 <=> b = 0 /\ y % p = 0
          BY <3>3, LowestBit
        <4> QED BY <3>3, <3>4, <4>1, <4>2
      <3>6. h[n + 1] % p = 0 <=> Clear(n + 1, k - 1) BY <1>5, <3>1, <3>3
      <3>7. Clear(n, k) <=> n \notin O /\ Clear(n + 1, k - 1)
        <4>1. \A j \in BitPlaces : (n <= j /\ j < n + k) <=>
                                   (j = n \/ (n + 1 <= j /\ j < (n + 1) + (k - 1)))
          BY <1>0 DEF BitPlaces
        <4> QED BY <1>2, <3>1, <4>1
      <3>8. b = 0 <=> n \notin O
        <4>1. n \in O <=> h[n] % 2 = 1 BY <1>3, <3>1
        <4>2. b = 0 <=> ~(b = 1) OBVIOUS
        <4> QED BY <3>4, <4>1, <4>2
      <3> HIDE DEF Clear
      <3> QED BY <3>5, <3>6, <3>7, <3>8
    <2> HIDE DEF Clear
    <2> QED BY <1>0, <2>1
  <1>6. \A k \in 0 .. Width : k \in T
    <2> HIDE DEF T
    <2> QED BY <1>0, <1>4, <1>5, Upward
  <1> QED BY <1>6 DEF O

\* The tests of the halving loops.
LEMMA LeadingClearIs ==
    ASSUME NEW x \in Word, NEW n \in 0 .. Width, NEW k \in 0 .. Width - n,
           \A j \in Ones(x) : j < Width - n
    PROVE  LeadingClear(ShiftLeft(x, n), k) <=> \A j \in Ones(x) : j < Width - n - k
  <1>0. /\ Width \in Nat /\ Width - n \in 0 .. Width /\ Width - n - k \in 0 .. Width
        /\ Width - k \in 0 .. Width /\ n \in 0 .. Width - (Width - n)
        /\ n \in 0 .. Width - (Width - n - k) /\ Width \in 0 .. Width
        /\ (Width - n) + n = Width /\ (Width - n - k) + n = Width - k
    BY WidthIs
  <1> DEFINE h == Shifts(x)
  <1>1. Halvings(h) /\ h[0] = x BY WordHalves
  <1>2. \A i \in 0 .. Width : h[i] = x \div Pow2[i] BY DEF Shifts, ShiftRight
  <1> HIDE DEF h
  <1>3. PICK p \in Nat : p = Pow2[n] /\ p > 0 BY PowersGrow
  <1>4. PICK a \in Nat : a = Pow2[Width - n] /\ a > 0 BY <1>0, PowersGrow
  <1>5. PICK c \in Nat : c = Pow2[Width - n - k] /\ c > 0 BY <1>0, PowersGrow
  <1>6. Pow2[Width] = a * p
    <2>1. Pow2[(Width - n) + n] = Pow2[Width - n] * Pow2[n] BY <1>0, PowersAdd
    <2> QED BY <1>0, <1>3, <1>4, <2>1
  <1>7. Pow2[Width - k] = c * p
    <2>1. Pow2[(Width - n - k) + n] = Pow2[Width - n - k] * Pow2[n] BY <1>0, PowersAdd
    <2> QED BY <1>0, <1>3, <1>5, <2>1
  <1>8. x \in Nat BY <1>0, PowersGrow DEF Word
  <1>9. x < a /\ (x < c <=> \A j \in Ones(x) : j < Width - n - k)
    <2>1. h[Width - n] = 0 BY <1>0, <1>1, AboveClear
    <2>2. x \div a = 0 BY <1>0, <1>2, <1>4, <2>1
    <2>3. h[Width - n - k] = 0 <=> \A j \in Ones(x) : j < Width - n - k
      BY <1>0, <1>1, AboveClear
    <2>4. x \div c = 0 <=> \A j \in Ones(x) : j < Width - n - k
      BY <1>0, <1>2, <1>5, <2>3
    <2>5. x < a BY <1>4, <1>8, <2>2, BelowPower
    <2>6. x < c <=> x \div c = 0 BY <1>5, <1>8, BelowPower
    <2> QED BY <2>4, <2>5, <2>6
  <1>10. ShiftLeft(x, n) = x * p
    <2>1. PICK y \in Nat : y = x * p BY <1>3, <1>8
    <2>2. PICK w \in Nat : w = a * p BY <1>3, <1>4
    <2>3. y < w BY <1>3, <1>4, <1>8, <1>9, <2>1, <2>2, ScaledLess
    <2>4. y % w = y BY <2>1, <2>2, <2>3
    <2> QED BY <1>3, <1>6, <2>1, <2>2, <2>4 DEF ShiftLeft, Wrap
  <1>11. x * p < c * p <=> x < c BY <1>3, <1>5, <1>8, ScaledLess
  <1>12. LeadingClear(ShiftLeft(x, n), k) <=> x * p < c * p
    <2>1. PICK y \in Nat : y = x * p BY <1>3, <1>8
    <2>2. PICK w \in Nat : w = c * p BY <1>3, <1>5
    <2> QED BY <1>7, <1>10, <2>1, <2>2 DEF LeadingClear
  <1> QED BY <1>9, <1>11, <1>12

\* The test of ctz64: no ones in the k lowest places.
LEMMA TrailingClearIs ==
    ASSUME NEW x \in Word, NEW n \in 0 .. Width, NEW k \in 0 .. Width - n
    PROVE  TrailingClear(ShiftRight(x, n), k) <=>
              \A j \in Ones(x) : ~(n <= j /\ j < n + k)
  <1> DEFINE h == Shifts(x)
  <1>1. Halvings(h) /\ h[0] = x BY WordHalves
  <1>2. h[n] = ShiftRight(x, n) BY DEF Shifts
  <1> HIDE DEF h
  <1>3. k \in 0 .. Width /\ n \in 0 .. Width - k BY WidthIs
  <1> QED BY <1>1, <1>2, <1>3, BelowClear DEF TrailingClear

\* The loops of clz64 and ctz64 halve the window they search.
Window(i) == IF i = 0 THEN Width ELSE Steps[i]

\* Each step is half of the window that is left, and the last window is one place.
LEMMA StepsHalve ==
    /\ Len(Steps) \in Nat /\ Window(0) = Width /\ Window(Len(Steps)) = 1
    /\ \A i \in 1 .. Len(Steps) : /\ Steps[i] \in 1 .. Width /\ Window(i) = Steps[i]
                                  /\ Window(i - 1) = 2 * Steps[i]
  <1>1. CASE Width = 8 BY <1>1 DEF Steps, Window
  <1>2. CASE Width = 64 BY <1>2 DEF Steps, Window
  <1> QED BY <1>1, <1>2, WidthIs

\* A loop that passes over Steps[i] more places where its i-th test holds.
Scan(tests, n) ==
    [i \in 0 .. Len(Steps) |->
        IF i = 0 THEN 0
        ELSE IF n[i - 1] \in tests[i] THEN n[i - 1] + Steps[i] ELSE n[i - 1]]

\* A scan is a function, whatever its tests.
LEMMA ScanExists ==
    ASSUME NEW tests
    PROVE  \E n \in [0 .. Len(Steps) -> Nat] : n = Scan(tests, n)
  <1> DEFINE L == Len(Steps)
             step == [i \in 1 .. L |-> [v \in Nat |->
                        IF v \in tests[i] THEN v + Steps[i] ELSE v]]
  <1>0. L \in Nat /\ \A i \in 1 .. L : Steps[i] \in Nat BY StepsHalve, WidthIs
  <1> HIDE DEF L
  <1>1. PICK n : Recursion(n, L, 0, step)
    <2>1. step \in [1 .. L -> [Nat -> Nat]] BY <1>0
    <2> HIDE DEF step
    <2> QED BY <1>0, <2>1, RecursionExists
  <1>2. \A i \in 1 .. L, v \in Nat : step[i][v] = IF v \in tests[i] THEN v + Steps[i] ELSE v
    OBVIOUS
  <1> HIDE DEF step
  <1>3. n \in [0 .. L -> Nat] /\ n[0] = 0 BY <1>1 DEF Recursion
  <1>4. ASSUME NEW i \in 0 .. L, i # 0
        PROVE  n[i] = IF n[i - 1] \in tests[i] THEN n[i - 1] + Steps[i] ELSE n[i - 1]
    <2>1. i \in 1 .. L /\ i - 1 \in 0 .. L BY <1>0, <1>4
    <2>2. n[i] = step[i][n[i - 1]] BY <1>1, <2>1 DEF Recursion
    <2>3. n[i - 1] \in Nat BY <1>3, <2>1
    <2> QED BY <1>2, <2>1, <2>2, <2>3
  <1>5. n = Scan(tests, n)
    <2>1. \A i \in 0 .. L : n[i] = Scan(tests, n)[i] BY <1>3, <1>4 DEF Scan, L
    <2>2. n = [i \in 0 .. L |-> n[i]] BY <1>3
    <2>3. Scan(tests, n) = [i \in 0 .. L |-> Scan(tests, n)[i]] BY DEF Scan, L
    <2> QED BY <2>1, <2>2, <2>3
  <1> QED BY <1>3, <1>5 DEF L

\* What a scan does at each step.
LEMMA ScanIs ==
    ASSUME NEW tests, NEW n, n = Scan(tests, n)
    PROVE  /\ n[0] = 0
           /\ \A i \in 1 .. Len(Steps) :
                n[i] = IF n[i - 1] \in tests[i] THEN n[i - 1] + Steps[i] ELSE n[i - 1]
  <1>1. /\ 0 \in 0 .. Len(Steps)
        /\ \A i \in 1 .. Len(Steps) : i \in 0 .. Len(Steps) /\ i # 0
    BY StepsHalve
  <1> QED BY <1>1 DEF Scan

\* The ones of a word are places, and only zero has none.
LEMMA SomeOnes ==
    ASSUME NEW x \in Word
    PROVE  /\ Ones(x) \in SUBSET BitPlaces
           /\ x = 0 <=> Ones(x) = {}
  <1> DEFINE h == Shifts(x)
  <1>1. Halvings(h) /\ h[0] = x BY WordHalves
  <1> HIDE DEF h
  <1>2. Ones(x) \in SUBSET BitPlaces BY DEF Ones
  <1>3. 0 \in 0 .. Width BY WidthIs
  <1>4. x = 0 <=> \A j \in Ones(x) : j < 0 BY <1>1, <1>3, AboveClear
  <1>5. \A j \in BitPlaces : ~(j < 0) BY WidthIs DEF BitPlaces
  <1> QED BY <1>2, <1>4, <1>5

\* clz64 finds the highest one: it stays within the window of every step.
LEMMA ClzIs ==
    ASSUME NEW x \in Word, x # 0
    PROVE  \E high \in Ones(x) : /\ Clz(x) = Width - 1 - high
                                 /\ \A j \in Ones(x) : j <= high
  <1> DEFINE L == Len(Steps)
             O == Ones(x)
             tests == [i \in 1 .. L |-> {v \in Nat : LeadingClear(ShiftLeft(x, v), Steps[i])}]
             Loop(n) == [i \in 0 .. L |->
                           IF i = 0 THEN 0
                           ELSE IF LeadingClear(ShiftLeft(x, n[i - 1]), Steps[i])
                                THEN n[i - 1] + Steps[i] ELSE n[i - 1]]
             found == CHOOSE n : n = Loop(n)
  <1>0. Width \in Nat /\ L \in Nat BY WidthIs, StepsHalve
  <1>1. Clz(x) = found[L] BY DEF Clz
  <1>2. found = Loop(found)
    <2>1. PICK n \in [0 .. L -> Nat] : n = Scan(tests, n) BY ScanExists
    <2>2. /\ n[0] = 0
          /\ \A i \in 1 .. L :
                n[i] = IF n[i - 1] \in tests[i] THEN n[i - 1] + Steps[i] ELSE n[i - 1]
      <3> HIDE DEF tests
      <3> QED BY <2>1, ScanIs
    <2>3. ASSUME NEW i \in 0 .. L PROVE n[i] = Loop(n)[i]
      <3>1. CASE i = 0 BY <2>2, <3>1
      <3>2. CASE i # 0
        <4>1. i \in 1 .. L /\ i - 1 \in 0 .. L BY <1>0, <3>2
        <4>2. n[i - 1] \in Nat BY <2>1, <4>1
        <4>3. n[i - 1] \in tests[i] <=> LeadingClear(ShiftLeft(x, n[i - 1]), Steps[i])
          BY <4>1, <4>2
        <4>4. n[i] = IF n[i - 1] \in tests[i] THEN n[i - 1] + Steps[i] ELSE n[i - 1]
          BY <2>2, <4>1
        <4> HIDE DEF tests
        <4> QED BY <3>2, <4>3, <4>4
      <3> QED BY <3>1, <3>2
    <2>4. n = Loop(n)
      <3>1. n = [i \in 0 .. L |-> n[i]] BY <2>1
      <3>2. Loop(n) = [i \in 0 .. L |-> Loop(n)[i]] OBVIOUS
      <3> HIDE DEF Loop
      <3> QED BY <2>3, <3>1, <3>2
    <2> HIDE DEF Loop
    <2> QED BY <2>4
  <1>3. /\ found[0] = 0
        /\ \A i \in 1 .. L : found[i] = IF LeadingClear(ShiftLeft(x, found[i - 1]), Steps[i])
                                        THEN found[i - 1] + Steps[i] ELSE found[i - 1]
    <2>1. 0 \in 0 .. L /\ \A i \in 1 .. L : i \in 0 .. L /\ i # 0 BY <1>0
    <2> HIDE DEF found
    <2> QED BY <1>2, <2>1
  <1> HIDE DEF found, L
  <1> DEFINE Top(n, w) == /\ n \in 0 .. Width - w
                          /\ \A j \in O : j < Width - n
                          /\ \E j \in O : Width - n - w <= j
             T == {i \in 0 .. L : Top(found[i], Window(i))}
  <1>4. O \in SUBSET BitPlaces /\ O # {} BY SomeOnes
  <1>5. 0 \in T
    <2>1. Window(0) = Width BY DEF Window
    <2>2. \A j \in BitPlaces : j < Width - 0 /\ Width - 0 - Width <= j BY <1>0 DEF BitPlaces
    <2>3. 0 \in 0 .. Width - Width BY <1>0
    <2>4. Top(0, Width) BY <1>4, <2>2, <2>3
    <2> HIDE DEF Top
    <2> QED BY <1>0, <1>3, <2>1, <2>4
  <1>6. ASSUME NEW i \in 1 .. L, i - 1 \in T PROVE i \in T
    <2>1. PICK k \in 1 .. Width : k = Steps[i] /\ Window(i) = k /\ Window(i - 1) = 2 * k
      BY StepsHalve DEF L
    <2>2. PICK n \in 0 .. Width - 2 * k : n = found[i - 1] BY <1>6, <2>1
    <2>3. /\ n \in 0 .. Width /\ k \in 0 .. Width - n /\ Width - n - 2 * k \in Nat
          /\ n \in 0 .. Width - k /\ n + k \in 0 .. Width - k
      BY <1>0, <2>2
    <2>4. (\A j \in O : j < Width - n) /\ \E j \in O : Width - n - 2 * k <= j
      BY <1>6, <2>1, <2>2
    <2>5. LeadingClear(ShiftLeft(x, n), k) <=> \A j \in O : j < Width - n - k
      BY <2>3, <2>4, LeadingClearIs
    <2>6. found[i] = IF LeadingClear(ShiftLeft(x, n), k) THEN n + k ELSE n
      BY <1>3, <2>1, <2>2
    <2>7. CASE LeadingClear(ShiftLeft(x, n), k)
      <3>1. found[i] = n + k BY <2>6, <2>7
      <3>2. Width - (n + k) = Width - n - k /\ Width - (n + k) - k = Width - n - 2 * k
        BY <1>0, <2>2
      <3>3. \A j \in O : j < Width - (n + k) BY <2>5, <2>7, <3>2
      <3>4. \E j \in O : Width - (n + k) - k <= j BY <2>4, <3>2
      <3> QED BY <1>0, <2>1, <2>3, <3>1, <3>3, <3>4
    <2>8. CASE ~LeadingClear(ShiftLeft(x, n), k)
      <3>1. found[i] = n BY <2>6, <2>8
      <3>2. \E j \in O : ~(j < Width - n - k) BY <2>5, <2>8
      <3>3. \A j \in BitPlaces : ~(j < Width - n - k) => Width - n - k <= j
        BY <1>0, <2>2 DEF BitPlaces
      <3>4. \E j \in O : Width - n - k <= j BY <1>4, <3>2, <3>3
      <3> QED BY <1>0, <2>1, <2>3, <2>4, <3>1, <3>4
    <2> QED BY <2>7, <2>8
  <1>7. \A i \in 0 .. L : i \in T
    <2> HIDE DEF T
    <2> QED BY <1>0, <1>5, <1>6, Upward
  <1>8. Top(found[L], 1)
    <2>1. Window(L) = 1 BY StepsHalve DEF L
    <2>2. L \in T BY <1>0, <1>7
    <2> HIDE DEF Top
    <2> QED BY <2>1, <2>2
  <1>9. PICK n \in 0 .. Width - 1 : n = found[L] BY <1>8
  <1>10. PICK high \in O : Width - n - 1 <= high BY <1>8, <1>9
  <1>11. \A j \in O : j \in BitPlaces /\ j < Width - n BY <1>4, <1>8, <1>9
  <1>12. high = Width - n - 1 BY <1>0, <1>10, <1>11 DEF BitPlaces
  <1>13. \A j \in O : j <= high BY <1>0, <1>11, <1>12 DEF BitPlaces
  <1>14. n = Width - 1 - high BY <1>0, <1>12
  <1> QED BY <1>1, <1>9, <1>13, <1>14

\* ctz64 finds the lowest one.
LEMMA CtzIs ==
    ASSUME NEW x \in Word, x # 0
    PROVE  \E low \in Ones(x) : Ctz(x) = low /\ \A j \in Ones(x) : low <= j
  <1> DEFINE L == Len(Steps)
             O == Ones(x)
             tests == [i \in 1 .. L |-> {v \in Nat : TrailingClear(ShiftRight(x, v), Steps[i])}]
             Loop(n) == [i \in 0 .. L |->
                           IF i = 0 THEN 0
                           ELSE IF TrailingClear(ShiftRight(x, n[i - 1]), Steps[i])
                                THEN n[i - 1] + Steps[i] ELSE n[i - 1]]
             found == CHOOSE n : n = Loop(n)
  <1>0. Width \in Nat /\ L \in Nat BY WidthIs, StepsHalve
  <1>1. Ctz(x) = found[L] BY DEF Ctz
  <1>2. found = Loop(found)
    <2>1. PICK n \in [0 .. L -> Nat] : n = Scan(tests, n) BY ScanExists
    <2>2. /\ n[0] = 0
          /\ \A i \in 1 .. L :
                n[i] = IF n[i - 1] \in tests[i] THEN n[i - 1] + Steps[i] ELSE n[i - 1]
      <3> HIDE DEF tests
      <3> QED BY <2>1, ScanIs
    <2>3. ASSUME NEW i \in 0 .. L PROVE n[i] = Loop(n)[i]
      <3>1. CASE i = 0 BY <2>2, <3>1
      <3>2. CASE i # 0
        <4>1. i \in 1 .. L /\ i - 1 \in 0 .. L BY <1>0, <3>2
        <4>2. n[i - 1] \in Nat BY <2>1, <4>1
        <4>3. n[i - 1] \in tests[i] <=> TrailingClear(ShiftRight(x, n[i - 1]), Steps[i])
          BY <4>1, <4>2
        <4>4. n[i] = IF n[i - 1] \in tests[i] THEN n[i - 1] + Steps[i] ELSE n[i - 1]
          BY <2>2, <4>1
        <4> HIDE DEF tests
        <4> QED BY <3>2, <4>3, <4>4
      <3> QED BY <3>1, <3>2
    <2>4. n = Loop(n)
      <3>1. n = [i \in 0 .. L |-> n[i]] BY <2>1
      <3>2. Loop(n) = [i \in 0 .. L |-> Loop(n)[i]] OBVIOUS
      <3> HIDE DEF Loop
      <3> QED BY <2>3, <3>1, <3>2
    <2> HIDE DEF Loop
    <2> QED BY <2>4
  <1>3. /\ found[0] = 0
        /\ \A i \in 1 .. L : found[i] = IF TrailingClear(ShiftRight(x, found[i - 1]), Steps[i])
                                        THEN found[i - 1] + Steps[i] ELSE found[i - 1]
    <2>1. 0 \in 0 .. L /\ \A i \in 1 .. L : i \in 0 .. L /\ i # 0 BY <1>0
    <2> HIDE DEF found
    <2> QED BY <1>2, <2>1
  <1> HIDE DEF found, L
  <1> DEFINE Low(n, w) == /\ n \in 0 .. Width - w
                          /\ \A j \in O : n <= j
                          /\ \E j \in O : j < n + w
             T == {i \in 0 .. L : Low(found[i], Window(i))}
  <1>4. O \in SUBSET BitPlaces /\ O # {} BY SomeOnes
  <1>5. 0 \in T
    <2>1. Window(0) = Width BY DEF Window
    <2>2. \A j \in BitPlaces : 0 <= j /\ j < 0 + Width BY <1>0 DEF BitPlaces
    <2>3. 0 \in 0 .. Width - Width BY <1>0
    <2>4. Low(0, Width) BY <1>4, <2>2, <2>3
    <2> HIDE DEF Low
    <2> QED BY <1>0, <1>3, <2>1, <2>4
  <1>6. ASSUME NEW i \in 1 .. L, i - 1 \in T PROVE i \in T
    <2>1. PICK k \in 1 .. Width : k = Steps[i] /\ Window(i) = k /\ Window(i - 1) = 2 * k
      BY StepsHalve DEF L
    <2>2. PICK n \in 0 .. Width - 2 * k : n = found[i - 1] BY <1>6, <2>1
    <2>3. /\ n \in 0 .. Width /\ k \in 0 .. Width - n
          /\ n \in 0 .. Width - k /\ n + k \in 0 .. Width - k
      BY <1>0, <2>2
    <2>4. (\A j \in O : n <= j) /\ \E j \in O : j < n + 2 * k BY <1>6, <2>1, <2>2
    <2>5. TrailingClear(ShiftRight(x, n), k) <=> \A j \in O : ~(n <= j /\ j < n + k)
      BY <2>3, TrailingClearIs
    <2>6. found[i] = IF TrailingClear(ShiftRight(x, n), k) THEN n + k ELSE n
      BY <1>3, <2>1, <2>2
    <2>7. CASE TrailingClear(ShiftRight(x, n), k)
      <3>1. found[i] = n + k BY <2>6, <2>7
      <3>2. \A j \in O : j \in BitPlaces /\ ~(j < n + k) BY <1>4, <2>4, <2>5, <2>7
      <3>3. \A j \in O : n + k <= j BY <1>0, <2>2, <3>2 DEF BitPlaces
      <3>4. \E j \in O : j < (n + k) + k
        <4>1. (n + k) + k = n + 2 * k BY <2>2
        <4> QED BY <2>4, <4>1
      <3> QED BY <1>0, <2>1, <2>3, <3>1, <3>3, <3>4
    <2>8. CASE ~TrailingClear(ShiftRight(x, n), k)
      <3>1. found[i] = n BY <2>6, <2>8
      <3>2. \E j \in O : j < n + k BY <2>5, <2>8
      <3> QED BY <1>0, <2>1, <2>3, <2>4, <3>1, <3>2
    <2> QED BY <2>7, <2>8
  <1>7. \A i \in 0 .. L : i \in T
    <2> HIDE DEF T
    <2> QED BY <1>0, <1>5, <1>6, Upward
  <1>8. Low(found[L], 1)
    <2>1. Window(L) = 1 BY StepsHalve DEF L
    <2>2. L \in T BY <1>0, <1>7
    <2> HIDE DEF Low
    <2> QED BY <2>1, <2>2
  <1>9. PICK n \in 0 .. Width - 1 : n = found[L] BY <1>8
  <1>10. PICK low \in O : low < n + 1 BY <1>8, <1>9
  <1>11. \A j \in O : j \in BitPlaces /\ n <= j BY <1>4, <1>8, <1>9
  <1>12. low = n BY <1>0, <1>10, <1>11 DEF BitPlaces
  <1> QED BY <1>1, <1>9, <1>11, <1>12


\* The shifts move the ones.
LEMMA ShiftRightIs ==
    ASSUME NEW x \in Word, NEW n \in 0 .. Width
    PROVE  /\ ShiftRight(x, n) \in Word
           /\ Ones(ShiftRight(x, n)) = {i \in BitPlaces : i + n \in Ones(x)}
           /\ \A i \in 0 .. Width : i + n <= Width =>
                 ShiftRight(ShiftRight(x, n), i) = ShiftRight(x, i + n)
  <1>0. Width \in Nat BY WidthIs
  <1> DEFINE h == Shifts(x)
             g == [i \in 0 .. Width |-> IF i + n <= Width THEN h[i + n] ELSE 0]
  <1>1. Halvings(h) /\ h[0] = x BY WordHalves
  <1>2. h[n] = ShiftRight(x, n) BY DEF Shifts
  <1> HIDE DEF h
  <1>3. Halvings(g) /\ g[0] = h[n]
    <2>1. \A i \in 0 .. Width : i + n <= Width => i + n \in 0 .. Width BY <1>0
    <2>2. g \in [0 .. Width -> Nat] BY <1>1, <2>1 DEF Halvings
    <2>3. g[Width] = 0
      <3>1. Width + n <= Width => Width + n = Width BY <1>0
      <3> QED BY <1>0, <1>1, <3>1 DEF Halvings
    <2>4. ASSUME NEW i \in BitPlaces PROVE g[i + 1] = g[i] \div 2
      <3>1. i \in 0 .. Width /\ i + 1 \in 0 .. Width BY <1>0 DEF BitPlaces
      <3>2. CASE i + n < Width
        <4>1. i + n \in BitPlaces /\ (i + 1) + n = (i + n) + 1 BY <1>0, <3>1, <3>2 DEF BitPlaces
        <4>2. h[(i + n) + 1] = h[i + n] \div 2 BY <1>1, <4>1 DEF Halvings
        <4>3. i + n <= Width /\ (i + 1) + n <= Width BY <1>0, <3>1, <3>2
        <4> QED BY <3>1, <4>1, <4>2, <4>3
      <3>3. CASE i + n = Width
        <4>1. ~((i + 1) + n <= Width) BY <1>0, <3>1, <3>3
        <4>2. h[i + n] = 0 BY <1>1, <3>3 DEF Halvings
        <4> QED BY <1>0, <3>1, <3>3, <4>1, <4>2
      <3>4. CASE i + n > Width
        <4>1. ~((i + 1) + n <= Width) /\ ~(i + n <= Width) BY <1>0, <3>1, <3>4
        <4> QED BY <3>1, <4>1
      <3> QED BY <1>0, <3>1, <3>2, <3>3, <3>4
    <2>5. 0 \in 0 .. Width /\ 0 + n <= Width /\ 0 + n = n BY <1>0
    <2>6. g[0] = h[n] BY <2>5
    <2> HIDE DEF g
    <2> QED BY <2>2, <2>3, <2>4, <2>6 DEF Halvings
  <1>4. ASSUME NEW i \in BitPlaces PROVE g[i] % 2 = 1 <=> i + n \in Ones(x)
    <2>1. i \in 0 .. Width BY <1>0 DEF BitPlaces
    <2>2. CASE i + n < Width
      <3>1. i + n \in BitPlaces /\ i + n <= Width BY <1>0, <2>1, <2>2 DEF BitPlaces
      <3>2. i + n \in Ones(x) <=> h[i + n] % 2 = 1 BY <1>1, <3>1, BitsAre
      <3> QED BY <2>1, <3>1, <3>2
    <2>3. CASE ~(i + n < Width)
      <3>1. i + n \notin BitPlaces BY <1>0, <2>3 DEF BitPlaces
      <3>2. i + n \notin Ones(x) BY <3>1, SomeOnes
      <3>3. g[i] = 0
        <4>1. i + n <= Width => i + n = Width BY <1>0, <2>1, <2>3
        <4> QED BY <1>0, <1>1, <2>1, <4>1 DEF Halvings
      <3> QED BY <3>2, <3>3
    <2> QED BY <2>2, <2>3
  <1>7. \A i \in 0 .. Width : i + n <= Width => g[i] = h[i + n] OBVIOUS
  <1> HIDE DEF g
  <1>8. ASSUME NEW i \in 0 .. Width, i + n <= Width
        PROVE  ShiftRight(ShiftRight(x, n), i) = ShiftRight(x, i + n)
    <2>1. i + n \in 0 .. Width BY <1>0, <1>8
    <2>2. h[i + n] = ShiftRight(x, i + n) BY <1>1, <2>1, ChainIs
    <2>3. ShiftRight(g[0], i) = g[i] BY <1>3, ChainIs
    <2> QED BY <1>2, <1>3, <1>7, <1>8, <2>2, <2>3
  <1>5. Ones(g[0]) = {i \in BitPlaces : i + n \in Ones(x)} BY <1>3, <1>4, BitsAre
  <1>6. g[0] \in Word BY <1>3, ChainIs
  <1> QED BY <1>2, <1>3, <1>5, <1>6, <1>8

\* A left shift moves them up and drops those that leave the word.
LEMMA ShiftLeftIs ==
    ASSUME NEW x \in Word, NEW n \in 0 .. Width
    PROVE  /\ ShiftLeft(x, n) \in Word
           /\ Ones(ShiftLeft(x, n)) = {i \in BitPlaces : i - n \in Ones(x)}
  <1>0. Width \in Nat /\ Width - n \in 0 .. Width /\ n \in 0 .. Width - (Width - n)
    BY WidthIs
  <1> DEFINE S == {i \in BitPlaces : i - n \in Ones(x)}
             h == Shifts(x)
  <1>1. Halvings(h) /\ h[0] = x BY WordHalves
  <1> HIDE DEF h
  <1>2. PICK g : /\ Halvings(g) /\ g[0] = Number(S)
                 /\ \A i \in BitPlaces : g[i] = (IF i \in S THEN 1 ELSE 0) + 2 * g[i + 1]
    BY NumberHalves
  <1>3. Number(S) \in Word /\ Ones(Number(S)) = S BY NumberIs
  <1>4. PICK a \in Nat : a = g[n] BY <1>2 DEF Halvings
  <1>5. PICK c \in Nat : c = h[Width - n] BY <1>0, <1>1 DEF Halvings
  <1>6. g[0] = Pow2[n] * a
    <2> DEFINE T == {i \in 0 .. n : g[i] = Pow2[n - i] * a}
    <2>1. n \in T
      <3>1. n - n = 0 /\ Pow2[0] = 1 BY <1>0, Pow2Is
      <3> QED BY <1>0, <1>4, <3>1
    <2>2. ASSUME NEW i \in 0 .. n - 1, i + 1 \in T PROVE i \in T
      <3>1. /\ i \in BitPlaces /\ n - (i + 1) \in BitPlaces
            /\ (n - (i + 1)) + 1 = n - i /\ n - (i + 1) \in 0 .. Width
        BY <1>0 DEF BitPlaces
      <3>2. i \notin S
        <4>1. i - n \notin BitPlaces BY <1>0 DEF BitPlaces
        <4> QED BY <4>1, SomeOnes
      <3>3. g[i + 1] \in Nat
        <4>1. i + 1 \in 0 .. Width BY <1>0
        <4> QED BY <1>2, <4>1 DEF Halvings
      <3>4. g[i] = 2 * g[i + 1] BY <1>2, <3>1, <3>2, <3>3
      <3>5. PICK p \in Nat : p = Pow2[n - (i + 1)] /\ Pow2[n - i] = 2 * p
        BY <3>1, PowersGrow
      <3>6. g[i + 1] = p * a BY <2>2, <3>5
      <3>7. 2 * (p * a) = (2 * p) * a BY <1>4, <3>5
      <3>8. i \in 0 .. n BY <1>0
      <3> QED BY <3>4, <3>5, <3>6, <3>7, <3>8
    <2>3. \A i \in 0 .. n : i \in T
      <3> HIDE DEF T
      <3> QED BY <1>0, <2>1, <2>2, Downward
    <2>4. 0 \in 0 .. n /\ n - 0 = n BY <1>0
    <2> QED BY <2>3, <2>4
  <1>7. x = a + Pow2[Width - n] * c
    <2> DEFINE m == Width - n
               T == {j \in 0 .. m : h[j] = g[n + j] + Pow2[m - j] * c}
    <2>1. m \in T
      <3>1. m - m = 0 /\ Pow2[0] = 1 /\ n + m = Width BY <1>0, Pow2Is
      <3>2. g[Width] = 0 BY <1>2 DEF Halvings
      <3> QED BY <1>0, <1>5, <3>1, <3>2
    <2>2. ASSUME NEW j \in 0 .. m - 1, j + 1 \in T PROVE j \in T
      <3>1. /\ j \in BitPlaces /\ m - (j + 1) \in BitPlaces /\ n + j \in BitPlaces
            /\ (m - (j + 1)) + 1 = m - j /\ m - (j + 1) \in 0 .. Width
            /\ n + (j + 1) = (n + j) + 1 /\ (n + j) - n = j
            /\ j + 1 \in 0 .. Width /\ j \in 0 .. Width /\ (n + j) + 1 \in 0 .. Width
        BY <1>0 DEF BitPlaces
      <3>2. n + j \in S <=> h[j] % 2 = 1
        <4>1. j \in Ones(x) <=> h[j] % 2 = 1 BY <1>1, <3>1, BitsAre
        <4> QED BY <3>1, <4>1
      <3>3. PICK u \in Nat, v \in Nat, w \in Nat :
               /\ u = h[j] /\ v = h[j + 1] /\ w = g[(n + j) + 1] /\ v = u \div 2
        <4>1. h[j] \in Nat /\ h[j + 1] \in Nat /\ h[j + 1] = h[j] \div 2
          BY <1>1, <3>1 DEF Halvings
        <4>2. g[(n + j) + 1] \in Nat BY <1>2, <3>1 DEF Halvings
        <4> QED BY <4>1, <4>2
      <3>4. g[n + j] = (IF n + j \in S THEN 1 ELSE 0) + 2 * w BY <1>2, <3>1, <3>3
      <3>5. PICK b \in 0 .. 1 : u = b + 2 * v /\ (b = 1 <=> u % 2 = 1)
        BY <3>3
      <3>6. g[n + j] = b + 2 * w
        <4>1. CASE n + j \in S
          <5>1. b = 1 BY <3>2, <3>3, <3>5, <4>1
          <5> QED BY <3>4, <4>1, <5>1
        <4>2. CASE n + j \notin S
          <5>1. b = 0 BY <3>2, <3>3, <3>5, <4>2
          <5> QED BY <3>4, <4>2, <5>1
        <4> QED BY <4>1, <4>2
      <3>7. PICK p \in Nat : p = Pow2[m - (j + 1)] /\ Pow2[m - j] = 2 * p
        BY <3>1, PowersGrow
      <3>8. v = w + p * c BY <2>2, <3>1, <3>3, <3>7
      <3>9. PICK z \in Nat : z = p * c BY <1>5, <3>7
      <3>10. (2 * p) * c = 2 * z BY <1>5, <3>7, <3>9
      <3>11. u = (b + 2 * w) + 2 * z BY <3>3, <3>5, <3>8, <3>9
      <3>12. j \in 0 .. m BY <1>0
      <3> QED BY <3>3, <3>6, <3>7, <3>10, <3>11, <3>12
    <2>3. \A j \in 0 .. m : j \in T
      <3>1. m \in Nat BY <1>0
      <3> HIDE DEF T, m
      <3> QED BY <2>1, <2>2, <3>1, Downward
    <2>4. 0 \in 0 .. m /\ m - 0 = m /\ n + 0 = n BY <1>0
    <2> QED BY <1>1, <1>4, <2>3, <2>4
  <1>8. PICK p \in Nat : p = Pow2[n] BY PowersGrow
  <1>9. PICK q \in Nat : q = Pow2[Width - n] BY <1>0, PowersGrow
  <1>10. PICK d \in Nat : d = Pow2[Width] /\ d > 0 /\ d = q * p
    <2>1. Width \in 0 .. Width /\ (Width - n) + n = Width BY <1>0
    <2>2. Pow2[(Width - n) + n] = q * p BY <1>0, <1>8, <1>9, PowersAdd
    <2> QED BY <2>1, <2>2, PowersGrow
  <1>11. x * p = c * d + g[0]
    <2>1. (a + q * c) * p = c * (q * p) + p * a
      <3>1. PICK r \in Nat : r = q * c BY <1>5, <1>9
      <3>2. (a + r) * p = p * a + r * p BY <1>4, <1>8, <3>1
      <3>3. (q * c) * p = c * (q * p) BY <1>5, <1>8, <1>9
      <3>4. p * a \in Nat /\ r * p \in Nat BY <1>4, <1>8, <3>1
      <3> QED BY <3>1, <3>2, <3>3, <3>4
    <2> QED BY <1>6, <1>7, <1>8, <1>9, <1>10, <2>1
  <1>12. g[0] \in 0 .. d - 1 BY <1>2, <1>3, <1>10 DEF Word
  <1>13. ShiftLeft(x, n) = g[0]
    <2>1. PICK e \in 0 .. d - 1 : e = g[0] BY <1>12
    <2>2. c \in Int BY <1>5
    <2>3. (c * d + e) % d = e BY <1>10, <2>1, <2>2, DivUnique
    <2> QED BY <1>8, <1>10, <1>11, <2>1, <2>3 DEF ShiftLeft, Wrap
  <1> QED BY <1>2, <1>3, <1>13

\* An or unites them.
LEMMA OrIs ==
    ASSUME NEW x \in Word, NEW y \in Word
    PROVE  Or(x, y) \in Word /\ Ones(Or(x, y)) = Ones(x) \cup Ones(y)
  <1>1. Ones(x) \cup Ones(y) \in SUBSET BitPlaces BY SomeOnes
  <1> QED BY <1>1, NumberIs DEF Or

\* The rotations move the ones around.
LEMMA RotlIs ==
    ASSUME NEW x \in Word, NEW n \in BitPlaces
    PROVE  /\ Rotl(x, n) \in Word
           /\ \A i \in BitPlaces : i \in Ones(Rotl(x, n)) <=>
                 (IF n <= i THEN i - n ELSE i - n + Width) \in Ones(x)
  <1>0. Width \in Nat /\ n \in 0 .. Width /\ n < Width BY WidthIs DEF BitPlaces
  <1>1. PICK m \in 0 .. Width : /\ m = (Width - n) % Width
                                /\ m = IF n = 0 THEN 0 ELSE Width - n
    <2>1. CASE n = 0
      <3>1. (Width - n) % Width = 0 BY <1>0, <2>1, WidthIs
      <3> QED BY <1>0, <2>1, <3>1
    <2>2. CASE n # 0
      <3>1. (Width - n) % Width = Width - n BY <1>0, <2>2
      <3> QED BY <1>0, <2>2, <3>1
    <2> QED BY <2>1, <2>2
  <1>2. /\ ShiftLeft(x, n) \in Word
        /\ Ones(ShiftLeft(x, n)) = {i \in BitPlaces : i - n \in Ones(x)}
    BY <1>0, ShiftLeftIs
  <1>3. /\ ShiftRight(x, m) \in Word
        /\ Ones(ShiftRight(x, m)) = {i \in BitPlaces : i + m \in Ones(x)}
    BY ShiftRightIs
  <1>4. Rotl(x, n) = Or(ShiftLeft(x, n), ShiftRight(x, m)) BY <1>1 DEF Rotl
  <1>5. /\ Rotl(x, n) \in Word
        /\ \A i \in BitPlaces : i \in Ones(Rotl(x, n)) <=>
              i - n \in Ones(x) \/ i + m \in Ones(x)
    BY <1>2, <1>3, <1>4, OrIs
  <1>6. Ones(x) \in SUBSET BitPlaces BY SomeOnes
  <1>7. ASSUME NEW i \in BitPlaces
        PROVE  (i - n \in Ones(x) \/ i + m \in Ones(x)) <=>
                 (IF n <= i THEN i - n ELSE i - n + Width) \in Ones(x)
    <2>1. CASE n = 0 BY <1>0, <1>1, <2>1 DEF BitPlaces
    <2>2. CASE n # 0 /\ n <= i
      <3>1. i + m \notin BitPlaces BY <1>0, <1>1, <2>2 DEF BitPlaces
      <3> QED BY <1>6, <2>2, <3>1
    <2>3. CASE n # 0 /\ ~(n <= i)
      <3>1. i - n \notin BitPlaces /\ i + m = i - n + Width
        BY <1>0, <1>1, <2>3 DEF BitPlaces
      <3> QED BY <1>6, <2>3, <3>1
    <2> QED BY <2>1, <2>2, <2>3
  <1> QED BY <1>5, <1>7

\* rotr64 moves each the other way round.
LEMMA RotrIs ==
    ASSUME NEW x \in Word, NEW n \in BitPlaces
    PROVE  /\ Rotr(x, n) \in Word
           /\ \A i \in BitPlaces : i \in Ones(Rotr(x, n)) <=>
                 (IF i + n < Width THEN i + n ELSE i + n - Width) \in Ones(x)
  <1>0. Width \in Nat /\ n \in 0 .. Width /\ n < Width BY WidthIs DEF BitPlaces
  <1>1. PICK m \in 0 .. Width : /\ m = (Width - n) % Width
                                /\ m = IF n = 0 THEN 0 ELSE Width - n
    <2>1. CASE n = 0
      <3>1. (Width - n) % Width = 0 BY <1>0, <2>1, WidthIs
      <3> QED BY <1>0, <2>1, <3>1
    <2>2. CASE n # 0
      <3>1. (Width - n) % Width = Width - n BY <1>0, <2>2
      <3> QED BY <1>0, <2>2, <3>1
    <2> QED BY <2>1, <2>2
  <1>2. /\ ShiftRight(x, n) \in Word
        /\ Ones(ShiftRight(x, n)) = {i \in BitPlaces : i + n \in Ones(x)}
    BY <1>0, ShiftRightIs
  <1>3. /\ ShiftLeft(x, m) \in Word
        /\ Ones(ShiftLeft(x, m)) = {i \in BitPlaces : i - m \in Ones(x)}
    BY ShiftLeftIs
  <1>4. Rotr(x, n) = Or(ShiftRight(x, n), ShiftLeft(x, m)) BY <1>1 DEF Rotr
  <1>5. /\ Rotr(x, n) \in Word
        /\ \A i \in BitPlaces : i \in Ones(Rotr(x, n)) <=>
              i + n \in Ones(x) \/ i - m \in Ones(x)
    BY <1>2, <1>3, <1>4, OrIs
  <1>6. Ones(x) \in SUBSET BitPlaces BY SomeOnes
  <1>7. ASSUME NEW i \in BitPlaces
        PROVE  (i + n \in Ones(x) \/ i - m \in Ones(x)) <=>
                 (IF i + n < Width THEN i + n ELSE i + n - Width) \in Ones(x)
    <2>1. CASE n = 0 BY <1>0, <1>1, <2>1 DEF BitPlaces
    <2>2. CASE n # 0 /\ i + n < Width
      <3>1. i - m \notin BitPlaces BY <1>0, <1>1, <2>2 DEF BitPlaces
      <3> QED BY <1>6, <2>2, <3>1
    <2>3. CASE n # 0 /\ ~(i + n < Width)
      <3>1. i + n \notin BitPlaces /\ i - m = i + n - Width
        BY <1>0, <1>1, <2>3 DEF BitPlaces
      <3> QED BY <1>6, <2>3, <3>1
    <2> QED BY <2>1, <2>2, <2>3
  <1> QED BY <1>5, <1>7

\* So rotl64 moves every bit by n and rotr64 takes it back.
LEMMA RotationsTurn ==
    ASSUME NEW x \in Word, NEW n \in BitPlaces
    PROVE  /\ \A i \in BitPlaces : Bit(Rotl(x, n), (i + n) % Width) = Bit(x, i)
           /\ Rotr(Rotl(x, n), n) = x
  <1>0. Width \in Nat /\ n < Width /\ n \in Nat BY WidthIs DEF BitPlaces
  <1> DEFINE y == Rotl(x, n)
  <1>1. /\ y \in Word
        /\ \A i \in BitPlaces : i \in Ones(y) <=>
              (IF n <= i THEN i - n ELSE i - n + Width) \in Ones(x)
    BY RotlIs
  <1> HIDE DEF y
  <1>2. ASSUME NEW i \in BitPlaces
        PROVE  \E j \in BitPlaces : /\ j = (i + n) % Width
                                    /\ j = IF i + n < Width THEN i + n ELSE i + n - Width
                                    /\ j \in Ones(y) <=> i \in Ones(x)
    <2>0. i \in Nat /\ i < Width BY <1>0 DEF BitPlaces
    <2>1. CASE i + n < Width
      <3>1. (i + n) % Width = i + n /\ i + n \in BitPlaces /\ n <= i + n /\ (i + n) - n = i
        BY <1>0, <2>0, <2>1 DEF BitPlaces
      <3> QED BY <1>1, <2>1, <3>1
    <2>2. CASE ~(i + n < Width)
      <3>1. PICK j \in BitPlaces : j = i + n - Width /\ ~(n <= j) /\ j - n + Width = i
        BY <1>0, <2>0, <2>2 DEF BitPlaces
      <3>2. (i + n) % Width = j
        <4>1. (1 * Width + j) % Width = j
          <5>1. j \in 0 .. Width - 1 /\ 1 \in Int /\ Width > 0 BY <1>0 DEF BitPlaces
          <5> QED BY <1>0, <5>1, DivUnique
        <4>2. i + n = 1 * Width + j BY <1>0, <2>0, <3>1
        <4> QED BY <4>1, <4>2
      <3> QED BY <1>1, <2>2, <3>1, <3>2
    <2> QED BY <2>1, <2>2
  <1>3. \A w \in Word : \A i \in BitPlaces : Bit(w, i) \in 0 .. 1
    <2>1. \A i \in BitPlaces : i \in 0 .. Width BY <1>0 DEF BitPlaces
    <2>2. ASSUME NEW w \in Word, NEW i \in BitPlaces PROVE Bit(w, i) \in 0 .. 1
      <3>1. ShiftRight(w, i) \in Nat
        <4>1. Halvings(Shifts(w)) BY WordHalves
        <4> QED BY <2>1, <4>1 DEF Halvings, Shifts
      <3>2. \A v \in Nat : v % 2 \in 0 .. 1 OBVIOUS
      <3> QED BY <3>1, <3>2 DEF Bit
    <2> QED BY <2>2
  <1>4. ASSUME NEW i \in BitPlaces PROVE Bit(y, (i + n) % Width) = Bit(x, i)
    <2>1. PICK j \in BitPlaces : j = (i + n) % Width /\ (j \in Ones(y) <=> i \in Ones(x))
      BY <1>2
    <2>2. Bit(y, j) = 1 <=> Bit(x, i) = 1 BY <2>1 DEF Ones
    <2>3. Bit(y, j) \in 0 .. 1 /\ Bit(x, i) \in 0 .. 1 BY <1>1, <1>3
    <2> QED BY <2>1, <2>2, <2>3
  <1>5. Rotr(y, n) = x
    <2>1. /\ Rotr(y, n) \in Word
          /\ \A i \in BitPlaces : i \in Ones(Rotr(y, n)) <=>
                (IF i + n < Width THEN i + n ELSE i + n - Width) \in Ones(y)
      BY <1>1, RotrIs
    <2>2. \A i \in BitPlaces : i \in Ones(Rotr(y, n)) <=> i \in Ones(x)
      BY <1>2, <2>1
    <2>3. Ones(Rotr(y, n)) \in SUBSET BitPlaces /\ Ones(x) \in SUBSET BitPlaces
      BY <2>1, SomeOnes
    <2>4. Ones(Rotr(y, n)) = Ones(x) BY <2>2, <2>3
    <2> QED BY <2>1, <2>4, OnesOnce
  <1> QED BY <1>4, <1>5 DEF y

\* The bits of a chain, four at a time.
LEMMA LowBits ==
    ASSUME NEW h, Halvings(h)
    PROVE  /\ \A i \in BitPlaces : h[i] \in Nat /\ h[i] % 2 \in 0 .. 1
                                   /\ h[i] = (h[i] % 2) + 2 * h[i + 1]
           /\ \A i \in 0 .. Width - 2 :
                h[i] = (h[i] % 2) + 2 * (h[i + 1] % 2) + 4 * h[i + 2]
           /\ \A i \in 0 .. Width - 4 :
                h[i] = (h[i] % 2) + 2 * (h[i + 1] % 2) + 4 * (h[i + 2] % 2)
                         + 8 * (h[i + 3] % 2) + 16 * h[i + 4]
  <1>0. Width \in Nat BY WidthIs
  <1>1. ASSUME NEW i \in BitPlaces
        PROVE  h[i] \in Nat /\ h[i] % 2 \in 0 .. 1 /\ h[i] = (h[i] % 2) + 2 * h[i + 1]
    <2>1. i \in 0 .. Width /\ i + 1 \in 0 .. Width BY <1>0 DEF BitPlaces
    <2>2. h[i] \in Nat /\ h[i + 1] = h[i] \div 2 BY <2>1 DEF Halvings
    <2> QED BY <2>2
  <1>2. \A i \in 0 .. Width : h[i] \in Nat BY DEF Halvings
  <1>3. ASSUME NEW i \in 0 .. Width - 2
        PROVE  h[i] = (h[i] % 2) + 2 * (h[i + 1] % 2) + 4 * h[i + 2]
    <2>1. /\ i \in BitPlaces /\ i + 1 \in BitPlaces /\ (i + 1) + 1 = i + 2
          /\ i + 2 \in 0 .. Width
      BY <1>0 DEF BitPlaces
    <2>2. h[i] = (h[i] % 2) + 2 * h[i + 1] BY <1>1, <2>1
    <2>3. h[i + 1] = (h[i + 1] % 2) + 2 * h[i + 2] BY <1>1, <2>1
    <2>4. PICK a \in 0 .. 1, b \in 0 .. 1, v \in Nat, w \in Nat :
             /\ a = h[i] % 2 /\ b = h[i + 1] % 2 /\ v = h[i + 1] /\ w = h[i + 2]
      BY <1>1, <1>2, <2>1
    <2>5. h[i] = a + 2 * v /\ v = b + 2 * w BY <2>2, <2>3, <2>4
    <2>6. h[i] = a + 2 * b + 4 * w BY <2>5
    <2> QED BY <2>4, <2>6
  <1>4. ASSUME NEW i \in 0 .. Width - 4
        PROVE  h[i] = (h[i] % 2) + 2 * (h[i + 1] % 2) + 4 * (h[i + 2] % 2)
                         + 8 * (h[i + 3] % 2) + 16 * h[i + 4]
    <2>1. /\ i \in 0 .. Width - 2 /\ i + 2 \in 0 .. Width - 2
          /\ (i + 2) + 1 = i + 3 /\ (i + 2) + 2 = i + 4
          /\ i \in BitPlaces /\ i + 1 \in BitPlaces /\ i + 2 \in BitPlaces
          /\ i + 3 \in BitPlaces /\ i + 4 \in 0 .. Width /\ i + 2 \in 0 .. Width
      BY <1>0 DEF BitPlaces
    <2>2. h[i] = (h[i] % 2) + 2 * (h[i + 1] % 2) + 4 * h[i + 2] BY <1>3, <2>1
    <2>3. h[i + 2] = (h[i + 2] % 2) + 2 * (h[i + 3] % 2) + 4 * h[i + 4]
      BY <1>3, <2>1
    <2>4. PICK a \in 0 .. 1, b \in 0 .. 1, c \in 0 .. 1, d \in 0 .. 1 :
             /\ a = h[i] % 2 /\ b = h[i + 1] % 2 /\ c = h[i + 2] % 2 /\ d = h[i + 3] % 2
      BY <1>1, <2>1
    <2>5. PICK v \in Nat, w \in Nat : v = h[i + 2] /\ w = h[i + 4] BY <1>2, <2>1
    <2>6. h[i] = a + 2 * b + 4 * v /\ v = c + 2 * d + 4 * w BY <2>2, <2>3, <2>4, <2>5
    <2>7. h[i] = a + 2 * b + 4 * c + 8 * d + 16 * w BY <2>6
    <2> QED BY <2>4, <2>5, <2>7
  <1> QED BY <1>1, <1>3, <1>4

\* The base of a digit of k bits.
Base(k) == CASE k = 1 -> 2 [] k = 2 -> 4 [] k = 4 -> 16

\* A number whose digits of k bits are known from the top.
LEMMA DigitsShift ==
    ASSUME NEW k \in {2, 4}, NEW u, u[Width] = 0,
           \A i \in 0 .. Width : i % k = 0 => u[i] \in Nat,
           \A i \in BitPlaces : i % k = 0 => u[i + k] = u[i] \div Base(k)
    PROVE  /\ u[0] \in Word
           /\ \A i \in 0 .. Width : i % k = 0 => ShiftRight(u[0], i) = u[i]
  <1>0. Width \in Nat /\ Width % k = 0 /\ Width >= k /\ 0 % k = 0 /\ 0 \in 0 .. Width
        /\ Width \in 0 .. Width
    BY WidthIs
  <1>1. PICK x \in Nat : x = u[0] BY <1>0
  <1> DEFINE T == {i \in 0 .. Width : \A j \in 0 .. i : j % k = 0 => x \div Pow2[j] = u[j]}
  <1>2. 0 \in T
    <2>1. x \div 1 = x OBVIOUS
    <2>2. \A j \in 0 .. 0 : j = 0 OBVIOUS
    <2> QED BY <1>0, <1>1, <2>1, <2>2, Pow2Is
  <1>3. ASSUME NEW i \in 1 .. Width, i - 1 \in T PROVE i \in T
    <2>1. SUFFICES ASSUME i % k = 0 PROVE x \div Pow2[i] = u[i]
      <3>1. \A j \in 0 .. i : j = i \/ j \in 0 .. i - 1 OBVIOUS
      <3>2. i \in 0 .. Width BY <1>0
      <3> QED BY <1>3, <3>1, <3>2
    <2>2. PICK j \in BitPlaces : j + k = i /\ j % k = 0 /\ j \in 0 .. i - 1
      <3>1. i >= k BY <2>1
      <3>2. i - k \in 0 .. i - 1 /\ (i - k) + k = i BY <3>1
      <3>3. (i - k) % k = 0
        <4>1. CASE k = 2 BY <2>1, <4>1
        <4>2. CASE k = 4 BY <2>1, <4>2
        <4> QED BY <4>1, <4>2
      <3>4. i - k \in BitPlaces BY <1>0, <3>2 DEF BitPlaces
      <3> QED BY <3>2, <3>3, <3>4
    <2>3. x \div Pow2[j] = u[j] BY <1>3, <2>2
    <2>4. u[i] = u[j] \div Base(k) BY <2>2
    <2>5. \A l \in 0 .. Width - 1 : x \div Pow2[l + 1] = (x \div Pow2[l]) \div 2
                                    /\ x \div Pow2[l] \in Nat
      <3>1. \A l \in 0 .. Width - 1 : /\ l \in BitPlaces /\ l \in 0 .. Width
        BY <1>0 DEF BitPlaces
      <3> QED BY <3>1, PowersGrow, DivHalf
    <2>6. \A y \in Nat : (y \div 2) \div 2 = y \div 4 OBVIOUS
    <2>7. CASE k = 2
      <3>1. j \in 0 .. Width - 1 /\ j + 1 \in 0 .. Width - 1 /\ (j + 1) + 1 = i
        BY <1>0, <2>2, <2>7 DEF BitPlaces
      <3>2. x \div Pow2[i] = (x \div Pow2[j]) \div 4 BY <2>5, <2>6, <3>1
      <3> QED BY <2>3, <2>4, <2>7, <3>2 DEF Base
    <2>8. CASE k = 4
      <3>1. /\ j \in 0 .. Width - 1 /\ j + 1 \in 0 .. Width - 1 /\ j + 2 \in 0 .. Width - 1
            /\ j + 3 \in 0 .. Width - 1
            /\ (j + 1) + 1 = j + 2 /\ (j + 2) + 1 = j + 3 /\ (j + 3) + 1 = i
        BY <1>0, <2>2, <2>8 DEF BitPlaces
      <3>2. x \div Pow2[j + 2] = (x \div Pow2[j]) \div 4 BY <2>5, <2>6, <3>1
      <3>3. x \div Pow2[i] = (x \div Pow2[j + 2]) \div 4 BY <2>5, <2>6, <3>1
      <3>4. \A y \in Nat : (y \div 4) \div 4 = y \div 16 OBVIOUS
      <3>5. x \div Pow2[i] = (x \div Pow2[j]) \div 16 BY <2>5, <3>1, <3>2, <3>3, <3>4
      <3> QED BY <2>3, <2>4, <2>8, <3>5 DEF Base
    <2> QED BY <2>7, <2>8
  <1>4. \A i \in 0 .. Width : i \in T
    <2> HIDE DEF T
    <2> QED BY <1>0, <1>2, <1>3, Upward
  <1>5. \A i \in 0 .. Width : i % k = 0 => x \div Pow2[i] = u[i]
    <2>1. \A i \in 0 .. Width : i \in 0 .. i OBVIOUS
    <2> QED BY <1>4, <2>1
  <1>6. x \in Word
    <2>1. PICK p \in Nat : p = Pow2[Width] /\ p > 0 BY <1>0, PowersGrow
    <2>2. x \div p = 0 BY <1>0, <1>5, <2>1
    <2>3. x < p BY <2>1, <2>2, BelowPower
    <2> QED BY <2>1, <2>3 DEF Word
  <1> QED BY <1>1, <1>5, <1>6 DEF ShiftRight

\* Every other digit of k bits is left by the mask.
LEMMA MaskedDigits ==
    ASSUME NEW w \in Word, NEW k \in {1, 2, 4}
    PROVE  \E g : /\ g \in [0 .. Width -> Nat] /\ g[Width] = 0
                  /\ g[0] = Masked(w, Groups(k))
                  /\ \A i \in BitPlaces : i % (2 * k) = 0 =>
                        g[i] = (ShiftRight(w, i) % Base(k)) + Base(k) * Base(k) * g[i + 2 * k]
  <1>0. Width \in Nat /\ (Width = 8 \/ Width = 64) BY WidthIs
  <1> DEFINE S == Ones(w) \cap Groups(k)
             q == Shifts(w)
  <1>1. Halvings(q) /\ q[0] = w BY WordHalves
  <1>2. \A i \in 0 .. Width : q[i] = ShiftRight(w, i) BY DEF Shifts
  <1> HIDE DEF q
  <1>3. S \in SUBSET BitPlaces BY DEF Ones
  <1>4. PICK g : /\ Halvings(g) /\ g[0] = Number(S)
                 /\ \A i \in BitPlaces : g[i] = (IF i \in S THEN 1 ELSE 0) + 2 * g[i + 1]
    BY <1>3, NumberHalves
  <1>5. ASSUME NEW i \in BitPlaces
        PROVE  /\ i \div k \in Nat
               /\ g[i] % 2 = IF (i \div k) % 2 = 0 THEN q[i] % 2 ELSE 0
    <2>1. i \in Nat /\ i \div k \in Nat BY DEF BitPlaces
    <2>2. g[i + 1] \in Nat
      <3>1. i + 1 \in 0 .. Width BY <1>0 DEF BitPlaces
      <3> QED BY <1>4, <3>1 DEF Halvings
    <2>3. i \in S <=> (i \div k) % 2 = 0 /\ q[i] % 2 = 1
      <3>1. i \in Ones(w) <=> q[i] % 2 = 1 BY <1>1, BitsAre
      <3> QED BY <3>1 DEF Groups
    <2>4. q[i] % 2 \in 0 .. 1 BY <1>1, LowBits
    <2>5. g[i] % 2 = IF i \in S THEN 1 ELSE 0
      <3>1. CASE i \in S
        <4>1. g[i] = 1 + 2 * g[i + 1] BY <1>4, <3>1
        <4> QED BY <2>2, <3>1, <4>1
      <3>2. CASE i \notin S
        <4>1. g[i] = 2 * g[i + 1] BY <1>4, <2>2, <3>2
        <4> QED BY <2>2, <3>2, <4>1
      <3> QED BY <3>1, <3>2
    <2> HIDE DEF S
    <2> QED BY <2>1, <2>3, <2>4, <2>5
  <1>6. ASSUME NEW i \in BitPlaces, i % (2 * k) = 0
        PROVE  g[i] = (q[i] % Base(k)) + Base(k) * Base(k) * g[i + 2 * k]
    <2>0. i \in Nat /\ i < Width BY <1>0 DEF BitPlaces
    <2>1. CASE k = 1
      <3>1. i % 2 = 0 BY <1>6, <2>1
      <3>2. i \in 0 .. Width - 2 /\ i + 1 \in BitPlaces /\ i + 2 \in 0 .. Width
        BY <1>0, <2>0, <3>1 DEF BitPlaces
      <3>3. (i \div 1) % 2 = 0 /\ ((i + 1) \div 1) % 2 = 1 BY <2>0, <3>1
      <3>4. g[i] % 2 = q[i] % 2 /\ g[i + 1] % 2 = 0 BY <1>5, <2>1, <3>2, <3>3
      <3>5. g[i] = (g[i] % 2) + 2 * (g[i + 1] % 2) + 4 * g[i + 2] BY <1>4, <3>2, LowBits
      <3>6. g[i + 2] \in Nat BY <1>4, <3>2 DEF Halvings
      <3>7. q[i] % 2 \in 0 .. 1 BY <1>1, LowBits
      <3>8. g[i] = (q[i] % 2) + 2 * 2 * g[i + 2] BY <3>4, <3>5, <3>6, <3>7
      <3>9. Base(k) = 2 /\ i + 2 * k = i + 2 BY <2>0, <2>1 DEF Base
      <3> QED BY <3>8, <3>9
    <2>2. CASE k = 2
      <3>1. i % 4 = 0 BY <1>6, <2>2
      <3>2. /\ i \in 0 .. Width - 4 /\ i + 1 \in BitPlaces /\ i + 2 \in BitPlaces
            /\ i + 3 \in BitPlaces /\ i + 4 \in 0 .. Width /\ i \in 0 .. Width - 2
            /\ i + 2 \in 0 .. Width
        BY <1>0, <2>0, <3>1 DEF BitPlaces
      <3>3. /\ (i \div 2) % 2 = 0 /\ ((i + 1) \div 2) % 2 = 0
            /\ ((i + 2) \div 2) % 2 = 1 /\ ((i + 3) \div 2) % 2 = 1
        BY <2>0, <3>1
      <3>4. /\ g[i] % 2 = q[i] % 2 /\ g[i + 1] % 2 = q[i + 1] % 2
            /\ g[i + 2] % 2 = 0 /\ g[i + 3] % 2 = 0
        BY <1>5, <2>2, <3>2, <3>3
      <3>5. g[i] = (g[i] % 2) + 2 * (g[i + 1] % 2) + 4 * (g[i + 2] % 2)
                     + 8 * (g[i + 3] % 2) + 16 * g[i + 4]
        BY <1>4, <3>2, LowBits
      <3>6. q[i] = (q[i] % 2) + 2 * (q[i + 1] % 2) + 4 * q[i + 2] BY <1>1, <3>2, LowBits
      <3>7. PICK a \in 0 .. 1, b \in 0 .. 1 : a = q[i] % 2 /\ b = q[i + 1] % 2
        BY <1>1, <3>2, LowBits
      <3>8. PICK v \in Nat, y \in Nat : v = q[i + 2] /\ y = g[i + 4]
        BY <1>1, <1>4, <3>2 DEF Halvings
      <3>9. g[i] = a + 2 * b + 16 * y BY <3>4, <3>5, <3>7, <3>8
      <3>10. q[i] % 4 = a + 2 * b BY <3>6, <3>7, <3>8
      <3>11. g[i] = (q[i] % 4) + 4 * 4 * g[i + 4] BY <3>8, <3>9, <3>10
      <3>12. Base(k) = 4 /\ i + 2 * k = i + 4 BY <2>0, <2>2 DEF Base
      <3> QED BY <3>11, <3>12
    <2>3. CASE k = 4
      <3>1. i % 8 = 0 BY <1>6, <2>3
      <3>2. /\ i \in 0 .. Width - 4 /\ i + 1 \in BitPlaces /\ i + 2 \in BitPlaces
            /\ i + 3 \in BitPlaces /\ i + 4 \in BitPlaces /\ i + 5 \in BitPlaces
            /\ i + 6 \in BitPlaces /\ i + 7 \in BitPlaces /\ i + 8 \in 0 .. Width
            /\ i + 4 \in 0 .. Width - 4 /\ i + 4 \in 0 .. Width
            /\ (i + 4) + 1 = i + 5 /\ (i + 4) + 2 = i + 6 /\ (i + 4) + 3 = i + 7
            /\ (i + 4) + 4 = i + 8
        BY <1>0, <2>0, <3>1 DEF BitPlaces
      <3>3. /\ (i \div 4) % 2 = 0 /\ ((i + 1) \div 4) % 2 = 0
            /\ ((i + 2) \div 4) % 2 = 0 /\ ((i + 3) \div 4) % 2 = 0
            /\ ((i + 4) \div 4) % 2 = 1 /\ ((i + 5) \div 4) % 2 = 1
            /\ ((i + 6) \div 4) % 2 = 1 /\ ((i + 7) \div 4) % 2 = 1
        BY <2>0, <3>1
      <3>4. /\ g[i] % 2 = q[i] % 2 /\ g[i + 1] % 2 = q[i + 1] % 2
            /\ g[i + 2] % 2 = q[i + 2] % 2 /\ g[i + 3] % 2 = q[i + 3] % 2
            /\ g[i + 4] % 2 = 0 /\ g[i + 5] % 2 = 0
            /\ g[i + 6] % 2 = 0 /\ g[i + 7] % 2 = 0
        BY <1>5, <2>3, <3>2, <3>3
      <3>5. g[i] = (g[i] % 2) + 2 * (g[i + 1] % 2) + 4 * (g[i + 2] % 2)
                     + 8 * (g[i + 3] % 2) + 16 * g[i + 4]
        BY <1>4, <3>2, LowBits
      <3>6. g[i + 4] = (g[i + 4] % 2) + 2 * (g[i + 5] % 2) + 4 * (g[i + 6] % 2)
                         + 8 * (g[i + 7] % 2) + 16 * g[i + 8]
        BY <1>4, <3>2, LowBits
      <3>7. q[i] = (q[i] % 2) + 2 * (q[i + 1] % 2) + 4 * (q[i + 2] % 2)
                     + 8 * (q[i + 3] % 2) + 16 * q[i + 4]
        BY <1>1, <3>2, LowBits
      <3>8. PICK a \in 0 .. 1, b \in 0 .. 1, c \in 0 .. 1, d \in 0 .. 1 :
               /\ a = q[i] % 2 /\ b = q[i + 1] % 2 /\ c = q[i + 2] % 2 /\ d = q[i + 3] % 2
        BY <1>1, <3>2, LowBits
      <3>9. PICK v \in Nat, y \in Nat, z \in Nat :
               v = q[i + 4] /\ y = g[i + 8] /\ z = g[i + 4]
        BY <1>1, <1>4, <3>2 DEF Halvings
      <3>10. z = 16 * y
        <4>1. g[i + 4] = 0 + 2 * 0 + 4 * 0 + 8 * 0 + 16 * y
          <5>1. g[i + 8] = y BY <3>9
          <5> QED BY <3>4, <3>6, <5>1
        <4>2. g[i + 4] = z BY <3>9
        <4> QED BY <3>9, <4>1, <4>2
      <3>11. g[i] = a + 2 * b + 4 * c + 8 * d + 16 * z BY <3>4, <3>5, <3>8, <3>9
      <3>12. q[i] % 16 = a + 2 * b + 4 * c + 8 * d
        <4>1. PICK n \in 0 .. 15 : n = a + 2 * b + 4 * c + 8 * d BY <3>8
        <4>2. q[i] = a + 2 * b + 4 * c + 8 * d + 16 * v BY <3>7, <3>8, <3>9
        <4>3. q[i] = n + 16 * v BY <4>1, <4>2
        <4>4. (n + 16 * v) % 16 = n BY <3>9, <4>1
        <4> QED BY <4>1, <4>3, <4>4
      <3>13. g[i] = (q[i] % 16) + 16 * 16 * g[i + 8] BY <3>8, <3>9, <3>10, <3>11, <3>12
      <3>14. Base(k) = 16 /\ i + 2 * k = i + 8 BY <2>0, <2>3 DEF Base
      <3> QED BY <3>13, <3>14
    <2> QED BY <2>1, <2>2, <2>3
  <1>7. \A i \in BitPlaces : i \in 0 .. Width BY <1>0 DEF BitPlaces
  <1>8. g[0] = Masked(w, Groups(k)) BY <1>4 DEF Masked
  <1>9. g \in [0 .. Width -> Nat] /\ g[Width] = 0 BY <1>4 DEF Halvings
  <1> HIDE DEF S
  <1> QED BY <1>2, <1>6, <1>7, <1>8, <1>9

\* Wrapping keeps words as they are.
LEMMA WrapWord ==
    ASSUME NEW x \in Word
    PROVE  x \in Nat /\ Wrap(x) = x
  <1>1. Width \in 0 .. Width BY WidthIs
  <1>2. PICK p \in Nat : p = Pow2[Width] /\ p > 0 BY <1>1, PowersGrow
  <1>3. x \in Nat /\ x < p BY <1>2 DEF Word
  <1>4. x % p = x BY <1>2, <1>3
  <1> QED BY <1>2, <1>3, <1>4 DEF Wrap

\* The intermediate words of popcount64.
Pairs(x) == Wrap(x - Masked(ShiftRight(x, 1), Groups(1)))
Quads(w) == Wrap(Masked(w, Groups(2)) + Masked(ShiftRight(w, 2), Groups(2)))
Bytes(w) == Masked(Wrap(w + ShiftRight(w, 4)), Groups(4))

\* The digits of two bits hold how many of the two are ones.
LEMMA PairsAre ==
    ASSUME NEW x \in Word
    PROVE  /\ Pairs(x) \in Word
           /\ \A i \in BitPlaces : i % 2 = 0 =>
                 ShiftRight(Pairs(x), i) =
                    Bit(x, i) + Bit(x, i + 1) + 4 * ShiftRight(Pairs(x), i + 2)
  <1>0. /\ Width \in Nat /\ Width % 2 = 0 /\ 0 \in 0 .. Width /\ Width \in 0 .. Width
        /\ 1 \in 0 .. Width /\ 0 \in BitPlaces
    BY WidthIs DEF BitPlaces
  <1> DEFINE h == Shifts(x)
             w == ShiftRight(x, 1)
  <1>1. Halvings(h) /\ h[0] = x BY WordHalves
  <1>2. \A i \in 0 .. Width : h[i] = ShiftRight(x, i) BY DEF Shifts
  <1>3. /\ w \in Word
        /\ \A i \in 0 .. Width : i + 1 <= Width => ShiftRight(w, i) = ShiftRight(x, i + 1)
    BY <1>0, ShiftRightIs
  <1> HIDE DEF h, w
  <1>4. PICK g : /\ g \in [0 .. Width -> Nat] /\ g[Width] = 0
                 /\ g[0] = Masked(w, Groups(1))
                 /\ \A i \in BitPlaces : i % (2 * 1) = 0 =>
                       g[i] = (ShiftRight(w, i) % Base(1)) + Base(1) * Base(1) * g[i + 2 * 1]
    BY <1>3, MaskedDigits
  <1> DEFINE u == [i \in 0 .. Width |-> h[i] - g[i]]
  <1>5. ASSUME NEW i \in BitPlaces, i % 2 = 0
        PROVE  /\ i + 2 \in 0 .. Width /\ i \in 0 .. Width /\ i + 1 \in BitPlaces
               /\ (i + 2) % 2 = 0
               /\ \E a \in 0 .. 1, b \in 0 .. 1 : /\ a = Bit(x, i) /\ b = Bit(x, i + 1)
                                                  /\ g[i] = b + 4 * g[i + 2]
                                                  /\ h[i] = a + 2 * b + 4 * h[i + 2]
    <2>1. /\ i \in 0 .. Width - 2 /\ i + 1 \in BitPlaces /\ i + 1 <= Width
          /\ i \in 0 .. Width /\ i + 2 \in 0 .. Width /\ (i + 2) % 2 = 0
          /\ i + 1 \in 0 .. Width
      BY <1>0, <1>5 DEF BitPlaces
    <2>2. h[i] = (h[i] % 2) + 2 * (h[i + 1] % 2) + 4 * h[i + 2] BY <1>1, <2>1, LowBits
    <2>3. h[i] % 2 \in 0 .. 1 /\ h[i + 1] % 2 \in 0 .. 1 BY <1>1, <2>1, LowBits
    <2>4. Bit(x, i) = h[i] % 2 /\ Bit(x, i + 1) = h[i + 1] % 2 BY <1>2, <2>1 DEF Bit
    <2>5. ShiftRight(w, i) = h[i + 1] BY <1>2, <1>3, <2>1
    <2>6. Base(1) = 2 /\ i % (2 * 1) = 0 /\ i + 2 * 1 = i + 2 BY <1>5, <2>1 DEF Base
    <2>7. g[i] = (h[i + 1] % 2) + 2 * 2 * g[i + 2] BY <1>4, <2>5, <2>6
    <2>8. PICK b \in 0 .. 1 : b = h[i + 1] % 2 BY <2>3
    <2>9. g[i + 2] \in Nat BY <1>4, <2>1
    <2>10. g[i] = b + 4 * g[i + 2] BY <2>7, <2>8, <2>9
    <2> QED BY <2>1, <2>2, <2>3, <2>4, <2>8, <2>10
  <1>6. \A i \in 0 .. Width : h[i] \in Nat /\ g[i] \in Nat BY <1>1, <1>4 DEF Halvings
  <1>7. \A i \in 0 .. Width : i % 2 = 0 => u[i] \in Nat
    <2> DEFINE T == {i \in 0 .. Width : \A j \in i .. Width : j % 2 = 0 => g[j] <= h[j]}
    <2>1. Width \in T
      <3>1. g[Width] = 0 /\ h[Width] = 0 BY <1>1, <1>4 DEF Halvings
      <3>2. \A j \in Width .. Width : j = Width BY <1>0
      <3> QED BY <1>0, <3>1, <3>2
    <2>2. ASSUME NEW i \in 0 .. Width - 1, i + 1 \in T PROVE i \in T
      <3>1. SUFFICES ASSUME i % 2 = 0 PROVE g[i] <= h[i]
        <4>1. \A j \in i .. Width : j = i \/ j \in i + 1 .. Width BY <1>0
        <4>2. i \in 0 .. Width BY <1>0
        <4> QED BY <2>2, <4>1, <4>2
      <3>2. i \in BitPlaces /\ i + 2 \in i + 1 .. Width
        <4>1. i \in BitPlaces BY DEF BitPlaces
        <4>2. i + 2 \in 0 .. Width BY <1>5, <3>1, <4>1
        <4> QED BY <4>1, <4>2
      <3>3. g[i + 2] <= h[i + 2] BY <1>5, <2>2, <3>1, <3>2
      <3>4. PICK a \in 0 .. 1, b \in 0 .. 1 : /\ g[i] = b + 4 * g[i + 2]
                                              /\ h[i] = a + 2 * b + 4 * h[i + 2]
        BY <1>5, <3>1, <3>2
      <3>5. g[i + 2] \in Nat /\ h[i + 2] \in Nat BY <1>0, <1>6, <3>2
      <3> QED BY <3>3, <3>4, <3>5
    <2>3. \A i \in 0 .. Width : i \in T
      <3> HIDE DEF T
      <3> QED BY <1>0, <2>1, <2>2, Downward
    <2>4. ASSUME NEW i \in 0 .. Width, i % 2 = 0 PROVE u[i] \in Nat
      <3>1. i \in i .. Width OBVIOUS
      <3>2. g[i] <= h[i] BY <2>3, <2>4, <3>1
      <3> QED BY <1>6, <3>2
    <2> QED BY <2>4
  <1>8. ASSUME NEW i \in BitPlaces, i % 2 = 0
        PROVE  \E c \in 0 .. 2 : c = Bit(x, i) + Bit(x, i + 1) /\ u[i] = c + 4 * u[i + 2]
    <2>1. i + 2 \in 0 .. Width /\ i \in 0 .. Width BY <1>5, <1>8
    <2>2. PICK a \in 0 .. 1, b \in 0 .. 1 : /\ a = Bit(x, i) /\ b = Bit(x, i + 1)
                                            /\ g[i] = b + 4 * g[i + 2]
                                            /\ h[i] = a + 2 * b + 4 * h[i + 2]
      BY <1>5, <1>8
    <2>3. u[i] = h[i] - g[i] /\ u[i + 2] = h[i + 2] - g[i + 2] BY <2>1
    <2>4. g[i + 2] \in Nat /\ h[i + 2] \in Nat BY <1>6, <2>1
    <2>5. u[i] = (a + b) + 4 * u[i + 2]
      <3> HIDE DEF u
      <3>1. PICK p \in Nat, q \in Nat : p = g[i + 2] /\ q = h[i + 2] BY <2>4
      <3>2. u[i] = (a + 2 * b + 4 * q) - (b + 4 * p) /\ u[i + 2] = q - p
        BY <2>2, <2>3, <3>1
      <3> QED BY <3>2
    <2>6. a + b \in 0 .. 2 BY <2>2
    <2> QED BY <2>2, <2>5, <2>6
  <1>9. ASSUME NEW i \in BitPlaces, i % 2 = 0 PROVE u[i + 2] = u[i] \div Base(2)
    <2>1. PICK c \in 0 .. 2 : u[i] = c + 4 * u[i + 2] BY <1>8, <1>9
    <2>2. u[i + 2] \in Nat BY <1>5, <1>7, <1>9
    <2>3. \A v \in Nat : (c + 4 * v) \div 4 = v BY <2>1
    <2>4. Base(2) = 4 BY DEF Base
    <2> HIDE DEF u
    <2> QED BY <2>1, <2>2, <2>3, <2>4
  <1>10. u[Width] = 0 /\ u[0] = x - g[0]
    <2>1. g[Width] = 0 /\ h[Width] = 0 BY <1>1, <1>4 DEF Halvings
    <2> QED BY <1>0, <1>1, <2>1
  <1> HIDE DEF u
  <1>11. /\ u[0] \in Word
         /\ \A i \in 0 .. Width : i % 2 = 0 => ShiftRight(u[0], i) = u[i]
    BY <1>7, <1>9, <1>10, DigitsShift
  <1>12. Pairs(x) = u[0]
    <2>1. Wrap(u[0]) = u[0] BY <1>11, WrapWord
    <2> QED BY <1>4, <1>10, <2>1 DEF Pairs, w
  <1>13. ASSUME NEW i \in BitPlaces, i % 2 = 0
         PROVE  ShiftRight(Pairs(x), i) =
                    Bit(x, i) + Bit(x, i + 1) + 4 * ShiftRight(Pairs(x), i + 2)
    <2>1. PICK c \in 0 .. 2 : c = Bit(x, i) + Bit(x, i + 1) /\ u[i] = c + 4 * u[i + 2]
      BY <1>8, <1>13
    <2>2. /\ i + 2 \in 0 .. Width /\ i \in 0 .. Width /\ (i + 2) % 2 = 0 BY <1>5, <1>13
    <2>3. ShiftRight(Pairs(x), i) = u[i] /\ ShiftRight(Pairs(x), i + 2) = u[i + 2]
      BY <1>11, <1>12, <1>13, <2>2
    <2> QED BY <2>1, <2>3
  <1> QED BY <1>11, <1>12, <1>13

\* The digits of four bits are the sums of two neighbours.
LEMMA QuadsAre ==
    ASSUME NEW w \in Word,
           \A i \in BitPlaces : i % 2 = 0 => ShiftRight(w, i) % 4 \in 0 .. 2
    PROVE  /\ Quads(w) \in Word
           /\ \A i \in BitPlaces : i % 4 = 0 =>
                 ShiftRight(Quads(w), i) =
                    (ShiftRight(w, i) % 4) + (ShiftRight(w, i + 2) % 4)
                       + 16 * ShiftRight(Quads(w), i + 4)
  <1>0. /\ Width \in Nat /\ Width % 4 = 0 /\ 0 \in 0 .. Width /\ Width \in 0 .. Width
        /\ 2 \in 0 .. Width
    BY WidthIs
  <1> DEFINE v == ShiftRight(w, 2)
  <1>1. /\ v \in Word
        /\ \A i \in 0 .. Width : i + 2 <= Width => ShiftRight(v, i) = ShiftRight(w, i + 2)
    BY <1>0, ShiftRightIs
  <1> HIDE DEF v
  <1>2. PICK f : /\ f \in [0 .. Width -> Nat] /\ f[Width] = 0
                 /\ f[0] = Masked(w, Groups(2))
                 /\ \A i \in BitPlaces : i % (2 * 2) = 0 =>
                       f[i] = (ShiftRight(w, i) % Base(2)) + Base(2) * Base(2) * f[i + 2 * 2]
    BY MaskedDigits
  <1>3. PICK g : /\ g \in [0 .. Width -> Nat] /\ g[Width] = 0
                 /\ g[0] = Masked(v, Groups(2))
                 /\ \A i \in BitPlaces : i % (2 * 2) = 0 =>
                       g[i] = (ShiftRight(v, i) % Base(2)) + Base(2) * Base(2) * g[i + 2 * 2]
    BY <1>1, MaskedDigits
  <1> DEFINE u == [i \in 0 .. Width |-> f[i] + g[i]]
  <1>4. ASSUME NEW i \in BitPlaces, i % 4 = 0
        PROVE  /\ i + 4 \in 0 .. Width /\ i \in 0 .. Width /\ (i + 4) % 4 = 0
               /\ \E a \in 0 .. 2, b \in 0 .. 2 :
                     /\ a = ShiftRight(w, i) % 4 /\ b = ShiftRight(w, i + 2) % 4
                     /\ u[i] = a + b + 16 * u[i + 4]
    <2>1. /\ i + 4 \in 0 .. Width /\ i \in 0 .. Width /\ (i + 4) % 4 = 0 /\ i % 2 = 0
          /\ i + 2 <= Width /\ i + 2 \in BitPlaces /\ (i + 2) % 2 = 0
          /\ i % (2 * 2) = 0 /\ i + 2 * 2 = i + 4
      BY <1>0, <1>4 DEF BitPlaces
    <2>2. PICK a \in 0 .. 2, b \in 0 .. 2 :
             a = ShiftRight(w, i) % 4 /\ b = ShiftRight(w, i + 2) % 4
      BY <2>1
    <2>3. ShiftRight(v, i) = ShiftRight(w, i + 2) BY <1>1, <2>1
    <2>4. Base(2) = 4 BY DEF Base
    <2>5. f[i] = a + 4 * 4 * f[i + 4] BY <1>2, <2>1, <2>2, <2>4
    <2>6. g[i] = b + 4 * 4 * g[i + 4] BY <1>3, <2>1, <2>2, <2>3, <2>4
    <2>7. PICK m \in Nat, n \in Nat : m = f[i + 4] /\ n = g[i + 4] BY <1>2, <1>3, <2>1
    <2>8. u[i] = f[i] + g[i] /\ u[i + 4] = m + n BY <2>1, <2>7
    <2>9. f[i] = a + 16 * m /\ g[i] = b + 16 * n BY <2>5, <2>6, <2>7
    <2>10. u[i] = a + b + 16 * u[i + 4] BY <2>8, <2>9
    <2> QED BY <2>1, <2>2, <2>10
  <1>5. \A i \in 0 .. Width : u[i] \in Nat BY <1>2, <1>3
  <1>6. u[Width] = 0 /\ u[0] = f[0] + g[0] BY <1>0, <1>2, <1>3
  <1> HIDE DEF u
  <1>7. ASSUME NEW i \in BitPlaces, i % 4 = 0 PROVE u[i + 4] = u[i] \div Base(4)
    <2>1. PICK a \in 0 .. 2, b \in 0 .. 2 : u[i] = a + b + 16 * u[i + 4] BY <1>4, <1>7
    <2>2. PICK n \in Nat : n = u[i + 4] BY <1>4, <1>5, <1>7
    <2>3. Base(4) = 16 BY DEF Base
    <2>4. (a + b + 16 * n) \div 16 = n BY <2>2
    <2> QED BY <2>1, <2>2, <2>3, <2>4
  <1>8. /\ u[0] \in Word
        /\ \A i \in 0 .. Width : i % 4 = 0 => ShiftRight(u[0], i) = u[i]
    BY <1>5, <1>6, <1>7, DigitsShift
  <1>9. Quads(w) = u[0]
    <2>1. Wrap(u[0]) = u[0] BY <1>8, WrapWord
    <2> QED BY <1>2, <1>3, <1>6, <2>1 DEF Quads, v
  <1>10. ASSUME NEW i \in BitPlaces, i % 4 = 0
         PROVE  ShiftRight(Quads(w), i) =
                    (ShiftRight(w, i) % 4) + (ShiftRight(w, i + 2) % 4)
                       + 16 * ShiftRight(Quads(w), i + 4)
    <2>1. PICK a \in 0 .. 2, b \in 0 .. 2 :
             /\ a = ShiftRight(w, i) % 4 /\ b = ShiftRight(w, i + 2) % 4
             /\ u[i] = a + b + 16 * u[i + 4]
      BY <1>4, <1>10
    <2>2. /\ i + 4 \in 0 .. Width /\ i \in 0 .. Width /\ (i + 4) % 4 = 0 BY <1>4, <1>10
    <2>3. ShiftRight(Quads(w), i) = u[i] /\ ShiftRight(Quads(w), i + 4) = u[i + 4]
      BY <1>8, <1>9, <1>10, <2>2
    <2> QED BY <2>1, <2>3
  <1> QED BY <1>8, <1>9, <1>10

\* The digits of eight bits are the sums of two neighbours again.
SumsDigits(g, w) ==
    /\ g \in [0 .. Width -> Nat] /\ g[Width] = 0 /\ g[0] = Bytes(w)
    /\ \A i \in BitPlaces : i % 8 = 0 =>
          g[i] = (ShiftRight(w, i) % 16) + (ShiftRight(w, i + 4) % 16) + 256 * g[i + 8]

\* The digits of eight bits are the sums of two neighbours again.
LEMMA BytesAre ==
    ASSUME NEW w \in Word,
           \A i \in BitPlaces : i % 4 = 0 => ShiftRight(w, i) % 16 \in 0 .. 4
    PROVE  \E g : SumsDigits(g, w)
  <1>0. /\ Width \in Nat /\ Width % 8 = 0 /\ Width % 4 = 0 /\ 0 \in 0 .. Width
        /\ Width \in 0 .. Width /\ 4 \in 0 .. Width /\ 0 + 4 = 4 /\ ~(Width + 4 <= Width)
    BY WidthIs
  <1> DEFINE h == Shifts(w)
             H(i) == IF i <= Width THEN h[i] ELSE 0
             u == [i \in 0 .. Width |-> H(i) + H(i + 4)]
  <1>1. Halvings(h) /\ h[0] = w BY WordHalves
  <1>2. \A i \in 0 .. Width : h[i] = ShiftRight(w, i) /\ h[i] \in Nat
    BY <1>1 DEF Shifts, Halvings
  <1> HIDE DEF h
  <1>3. \A i \in Nat : H(i) \in Nat
    <2>1. \A i \in Nat : i <= Width => i \in 0 .. Width BY <1>0
    <2> QED BY <1>2, <2>1
  <1>4. ASSUME NEW i \in Nat, i % 4 = 0, i <= Width
        PROVE  \E a \in 0 .. 4 : H(i) = a + 16 * H(i + 4) /\ (i < Width => a = ShiftRight(w, i) % 16)
    <2>1. CASE i = Width
      <3>1. H(i) = 0 /\ H(i + 4) = 0 BY <1>0, <1>1, <2>1 DEF Halvings
      <3>2. 0 \in 0 .. 4 /\ 0 = 0 + 16 * 0 OBVIOUS
      <3> QED BY <1>0, <2>1, <3>1, <3>2
    <2>2. CASE i < Width
      <3>1. /\ i \in 0 .. Width - 4 /\ i \in BitPlaces /\ i \in 0 .. Width
            /\ i + 4 \in 0 .. Width /\ i + 4 <= Width
            /\ i + 1 \in BitPlaces /\ i + 2 \in BitPlaces /\ i + 3 \in BitPlaces
        BY <1>0, <1>4, <2>2 DEF BitPlaces
      <3>2. h[i] = (h[i] % 2) + 2 * (h[i + 1] % 2) + 4 * (h[i + 2] % 2)
                     + 8 * (h[i + 3] % 2) + 16 * h[i + 4]
        BY <1>1, <3>1, LowBits
      <3>3. PICK b0 \in 0 .. 1, b1 \in 0 .. 1, b2 \in 0 .. 1, b3 \in 0 .. 1 :
               /\ b0 = h[i] % 2 /\ b1 = h[i + 1] % 2 /\ b2 = h[i + 2] % 2 /\ b3 = h[i + 3] % 2
        BY <1>1, <3>1, LowBits
      <3>4. PICK n \in 0 .. 15 : n = b0 + 2 * b1 + 4 * b2 + 8 * b3
        <4>1. PICK c \in 0 .. 3 : c = b0 + 2 * b1 OBVIOUS
        <4>2. PICK d \in 0 .. 3 : d = b2 + 2 * b3 OBVIOUS
        <4>3. c + 4 * d \in 0 .. 15 BY <4>1, <4>2
        <4>4. c + 4 * d = b0 + 2 * b1 + 4 * b2 + 8 * b3 BY <4>1, <4>2
        <4> QED BY <4>3, <4>4
      <3>5. PICK v \in Nat : v = h[i + 4] BY <1>2, <3>1
      <3>6. h[i] = n + 16 * v
        <4>1. h[i] = b0 + 2 * b1 + 4 * b2 + 8 * b3 + 16 * v BY <3>2, <3>3, <3>5
        <4> QED BY <3>4, <4>1
      <3>7. (n + 16 * v) % 16 = n BY <3>4, <3>5
      <3>8. n = ShiftRight(w, i) % 16 BY <1>2, <3>1, <3>6, <3>7
      <3>9. n \in 0 .. 4 BY <1>4, <3>1, <3>8
      <3>10. H(i) = h[i] /\ H(i + 4) = v BY <3>1, <3>5, <2>2
      <3> HIDE DEF H
      <3> QED BY <3>6, <3>8, <3>9, <3>10
    <2> QED BY <1>4, <1>0, <2>1, <2>2
  <1>5. /\ \A i \in 0 .. Width : u[i] \in Nat /\ u[i] = H(i) + H(i + 4)
        /\ u[Width] = 0
        /\ u[0] = w + ShiftRight(w, 4)
    <2>1. \A i \in 0 .. Width : i \in Nat /\ i + 4 \in Nat BY <1>0
    <2>2. \A i \in 0 .. Width : u[i] = H(i) + H(i + 4) OBVIOUS
    <2>3. H(Width) = 0 /\ H(Width + 4) = 0 BY <1>0, <1>1 DEF Halvings
    <2>4. H(0) = w /\ H(0 + 4) = ShiftRight(w, 4) BY <1>0, <1>1, <1>2
    <2> HIDE DEF H, u
    <2>5. u[Width] = 0 BY <1>0, <2>2, <2>3
    <2>6. u[0] = w + ShiftRight(w, 4) BY <1>0, <2>2, <2>4
    <2> QED BY <1>3, <2>1, <2>2, <2>5, <2>6
  <1> HIDE DEF u, H
  <1>6. ASSUME NEW i \in BitPlaces, i % 4 = 0
        PROVE  /\ i + 4 \in 0 .. Width /\ i \in 0 .. Width
               /\ \E a \in 0 .. 8 : /\ u[i] = a + 16 * u[i + 4]
                                    /\ i + 4 < Width =>
                                         a = (ShiftRight(w, i) % 16) + (ShiftRight(w, i + 4) % 16)
    <2>1. /\ i \in Nat /\ i + 4 \in Nat /\ i <= Width /\ i + 4 <= Width /\ i < Width
          /\ (i + 4) % 4 = 0 /\ (i + 4) + 4 \in Nat /\ i \in 0 .. Width /\ i + 4 \in 0 .. Width
      BY <1>0, <1>6 DEF BitPlaces
    <2>2. PICK a \in 0 .. 4 : H(i) = a + 16 * H(i + 4) /\ a = ShiftRight(w, i) % 16
      BY <1>4, <1>6, <2>1
    <2>3. PICK b \in 0 .. 4 : /\ H(i + 4) = b + 16 * H((i + 4) + 4)
                              /\ i + 4 < Width => b = ShiftRight(w, i + 4) % 16
      BY <1>4, <2>1
    <2>4. PICK m \in Nat, n \in Nat : m = H(i + 4) /\ n = H((i + 4) + 4) BY <1>3, <2>1
    <2>5. H(i) = a + 16 * m /\ m = b + 16 * n BY <2>2, <2>3, <2>4
    <2>6. u[i] = H(i) + m /\ u[i + 4] = m + n BY <1>5, <2>1, <2>4
    <2>7. u[i] = (a + b) + 16 * u[i + 4] BY <2>4, <2>5, <2>6
    <2>8. a + b \in 0 .. 8 BY <2>2
    <2> QED BY <2>1, <2>2, <2>3, <2>7, <2>8
  <1>7. ASSUME NEW i \in BitPlaces, i % 4 = 0 PROVE u[i + 4] = u[i] \div Base(4)
    <2>1. PICK a \in 0 .. 8 : u[i] = a + 16 * u[i + 4] BY <1>6, <1>7
    <2>2. PICK n \in Nat : n = u[i + 4] BY <1>5, <1>6, <1>7
    <2>3. Base(4) = 16 BY DEF Base
    <2>4. (a + 16 * n) \div 16 = n BY <2>2
    <2> QED BY <2>1, <2>2, <2>3, <2>4
  <1>8. /\ u[0] \in Word
        /\ \A i \in 0 .. Width : i % 4 = 0 => ShiftRight(u[0], i) = u[i]
    BY <1>5, <1>7, DigitsShift
  <1>9. PICK g : /\ g \in [0 .. Width -> Nat] /\ g[Width] = 0
                 /\ g[0] = Masked(u[0], Groups(4))
                 /\ \A i \in BitPlaces : i % (2 * 4) = 0 =>
                       g[i] = (ShiftRight(u[0], i) % Base(4)) + Base(4) * Base(4) * g[i + 2 * 4]
    BY <1>8, MaskedDigits
  <1>10. g[0] = Bytes(w)
    <2>1. Wrap(u[0]) = u[0] BY <1>8, WrapWord
    <2> QED BY <1>5, <1>9, <2>1 DEF Bytes
  <1>11. ASSUME NEW i \in BitPlaces, i % 8 = 0
         PROVE  g[i] = (ShiftRight(w, i) % 16) + (ShiftRight(w, i + 4) % 16) + 256 * g[i + 8]
    <2>1. /\ i % 4 = 0 /\ i \in 0 .. Width /\ i + 4 < Width /\ i + 8 \in 0 .. Width
          /\ i % (2 * 4) = 0 /\ i + 2 * 4 = i + 8
      BY <1>0, <1>11 DEF BitPlaces
    <2>2. PICK a \in 0 .. 8 :
             /\ u[i] = a + 16 * u[i + 4]
             /\ a = (ShiftRight(w, i) % 16) + (ShiftRight(w, i + 4) % 16)
      BY <1>6, <2>1
    <2>3. PICK n \in Nat : n = u[i + 4] BY <1>5, <1>6, <2>1
    <2>4. (a + 16 * n) % 16 = a BY <2>3
    <2>5. ShiftRight(u[0], i) % 16 = a BY <1>8, <2>1, <2>2, <2>3, <2>4
    <2>6. Base(4) = 16 BY DEF Base
    <2>7. g[i] = a + 16 * 16 * g[i + 8] BY <1>9, <2>1, <2>5, <2>6
    <2>8. PICK m \in Nat : m = g[i + 8] BY <1>9, <2>1
    <2>9. g[i] = a + 256 * m BY <2>7, <2>8
    <2> QED BY <2>2, <2>8, <2>9
  <1>12. g \in [0 .. Width -> Nat] /\ g[Width] = 0 BY <1>9
  <1>13. SumsDigits(g, w) BY <1>10, <1>11, <1>12 DEF SumsDigits
  <1> QED BY <1>13

\* How many ones a word has from place i on.
OnesFrom(x, i) == Cardinality({j \in Ones(x) : i <= j})

\* The ones are counted from the highest place down.
LEMMA OnesCounted ==
    ASSUME NEW x \in Word
    PROVE  /\ OnesFrom(x, 0) = Cardinality(Ones(x)) /\ OnesFrom(x, Width) = 0
           /\ \A i \in 0 .. Width : OnesFrom(x, i) \in Nat
           /\ \A i \in BitPlaces : /\ Bit(x, i) \in 0 .. 1
                                   /\ OnesFrom(x, i) = Bit(x, i) + OnesFrom(x, i + 1)
  <1>0. Width \in Nat BY WidthIs
  <1>1. Ones(x) \in SUBSET BitPlaces BY SomeOnes
  <1>2. \A i : IsFiniteSet({j \in Ones(x) : i <= j})
    <2>1. IsFiniteSet(BitPlaces)
      <3>1. 0 \in Int /\ Width - 1 \in Int BY <1>0
      <3> QED BY <3>1, FS_Interval DEF BitPlaces
    <2>2. \A i : {j \in Ones(x) : i <= j} \in SUBSET BitPlaces BY <1>1
    <2> QED BY <2>1, <2>2, FS_Subset
  <1>3. {j \in Ones(x) : 0 <= j} = Ones(x) BY <1>1 DEF BitPlaces
  <1>4. {j \in Ones(x) : Width <= j} = {} BY <1>0, <1>1 DEF BitPlaces
  <1>5. Cardinality({}) = 0 BY FS_EmptySet
  <1>6. \A i \in 0 .. Width : OnesFrom(x, i) \in Nat BY <1>2, FS_CardinalityType DEF OnesFrom
  <1>7. ASSUME NEW i \in BitPlaces
        PROVE  Bit(x, i) \in 0 .. 1 /\ OnesFrom(x, i) = Bit(x, i) + OnesFrom(x, i + 1)
    <2> DEFINE A == {j \in Ones(x) : i <= j}
               B == {j \in Ones(x) : i + 1 <= j}
    <2>1. Bit(x, i) \in 0 .. 1
      <3>1. i \in 0 .. Width BY <1>0 DEF BitPlaces
      <3>2. Halvings(Shifts(x)) BY WordHalves
      <3>3. Shifts(x)[i] % 2 \in 0 .. 1 BY <3>2, LowBits
      <3> QED BY <3>1, <3>3 DEF Shifts, Bit
    <2>2. Cardinality(B) \in Nat BY <1>2, FS_CardinalityType
    <2>3. OnesFrom(x, i) = Cardinality(A) /\ OnesFrom(x, i + 1) = Cardinality(B)
      BY DEF OnesFrom
    <2>4. CASE i \in Ones(x)
      <3>1. A = B \cup {i} /\ i \notin B BY <1>0, <1>1, <2>4 DEF BitPlaces
      <3>2. Cardinality(A) = Cardinality(B) + 1 BY <1>2, <3>1, FS_AddElement
      <3>3. Bit(x, i) = 1 BY <2>4 DEF Ones
      <3> HIDE DEF A, B
      <3> QED BY <2>1, <2>2, <2>3, <3>2, <3>3
    <2>5. CASE i \notin Ones(x)
      <3>1. A = B BY <1>0, <1>1, <2>5 DEF BitPlaces
      <3>2. Bit(x, i) = 0 BY <2>1, <2>5 DEF Ones
      <3> HIDE DEF A, B
      <3> QED BY <2>1, <2>2, <2>3, <3>1, <3>2
    <2> QED BY <2>4, <2>5
  <1> QED BY <1>3, <1>4, <1>5, <1>6, <1>7 DEF OnesFrom

\* The bytes hold how many of their eight bits are ones.
CountsOnes(g, x) ==
    /\ g \in [0 .. Width -> Nat] /\ g[Width] = 0 /\ g[0] = Bytes(Quads(Pairs(x)))
    /\ \A i \in BitPlaces : i % 8 = 0 =>
          \E f \in 0 .. 8 : /\ g[i] = f + 256 * g[i + 8]
                            /\ OnesFrom(x, i) = f + OnesFrom(x, i + 8)

\* Each byte holds how many of its eight bits are ones.
LEMMA BytesCount ==
    ASSUME NEW x \in Word
    PROVE  \E g : CountsOnes(g, x)
  <1>0. Width \in Nat /\ Width % 8 = 0 BY WidthIs
  <1> DEFINE P == Pairs(x)
             Q == Quads(P)
  <1>1. /\ P \in Word
        /\ \A i \in BitPlaces : i % 2 = 0 =>
              ShiftRight(P, i) = Bit(x, i) + Bit(x, i + 1) + 4 * ShiftRight(P, i + 2)
    BY PairsAre
  <1> HIDE DEF P
  <1>2. \A w \in Word : \A i \in 0 .. Width : ShiftRight(w, i) \in Nat
    <2>1. ASSUME NEW w \in Word, NEW i \in 0 .. Width PROVE ShiftRight(w, i) \in Nat
      <3>1. Halvings(Shifts(w)) BY WordHalves
      <3> QED BY <3>1 DEF Halvings, Shifts
    <2> QED BY <2>1
  <1>3. ASSUME NEW i \in BitPlaces, i % 2 = 0
        PROVE  /\ ShiftRight(P, i) % 4 \in 0 .. 2
               /\ ShiftRight(P, i) % 4 = Bit(x, i) + Bit(x, i + 1)
    <2>1. i + 1 \in BitPlaces /\ i + 2 \in 0 .. Width BY <1>0, <1>3 DEF BitPlaces
    <2>2. PICK a \in 0 .. 1, b \in 0 .. 1 : a = Bit(x, i) /\ b = Bit(x, i + 1)
      BY <2>1, OnesCounted
    <2>3. PICK n \in Nat : n = ShiftRight(P, i + 2) BY <1>1, <1>2, <2>1
    <2>4. ShiftRight(P, i) = (a + b) + 4 * n BY <1>1, <1>3, <2>2, <2>3
    <2>5. ((a + b) + 4 * n) % 4 = a + b BY <2>2, <2>3
    <2> QED BY <2>2, <2>4, <2>5
  <1>4. /\ Q \in Word
        /\ \A i \in BitPlaces : i % 4 = 0 =>
              ShiftRight(Q, i) = (ShiftRight(P, i) % 4) + (ShiftRight(P, i + 2) % 4)
                                    + 16 * ShiftRight(Q, i + 4)
    BY <1>1, <1>3, QuadsAre
  <1> HIDE DEF Q
  <1>5. ASSUME NEW i \in BitPlaces, i % 4 = 0
        PROVE  /\ ShiftRight(Q, i) % 16 \in 0 .. 4
               /\ ShiftRight(Q, i) % 16 =
                     Bit(x, i) + Bit(x, i + 1) + Bit(x, i + 2) + Bit(x, i + 3)
    <2>1. /\ i + 1 \in BitPlaces /\ i + 2 \in BitPlaces /\ i + 3 \in BitPlaces
          /\ i + 4 \in 0 .. Width /\ i % 2 = 0 /\ (i + 2) % 2 = 0 /\ (i + 2) + 1 = i + 3
      BY <1>0, <1>5 DEF BitPlaces
    <2>2. PICK a \in 0 .. 1, b \in 0 .. 1, c \in 0 .. 1, d \in 0 .. 1 :
             /\ a = Bit(x, i) /\ b = Bit(x, i + 1) /\ c = Bit(x, i + 2) /\ d = Bit(x, i + 3)
      BY <2>1, OnesCounted
    <2>3. PICK n \in Nat : n = ShiftRight(Q, i + 4) BY <1>2, <1>4, <2>1
    <2>4. ShiftRight(P, i) % 4 = a + b /\ ShiftRight(P, i + 2) % 4 = c + d
      BY <1>3, <2>1, <2>2
    <2>5. ShiftRight(Q, i) = (a + b) + (c + d) + 16 * n BY <1>4, <1>5, <2>3, <2>4
    <2>6. PICK e \in 0 .. 4 : e = a + b + c + d BY <2>2
    <2>7. ShiftRight(Q, i) = e + 16 * n BY <2>2, <2>5, <2>6
    <2>8. (e + 16 * n) % 16 = e BY <2>3, <2>6
    <2> QED BY <2>2, <2>6, <2>7, <2>8
  <1>6. PICK g : SumsDigits(g, Q) BY <1>4, <1>5, BytesAre
  <1>7. ASSUME NEW i \in BitPlaces, i % 8 = 0
        PROVE  \E f \in 0 .. 8 : /\ g[i] = f + 256 * g[i + 8]
                                 /\ OnesFrom(x, i) = f + OnesFrom(x, i + 8)
    <2>1. /\ i + 1 \in BitPlaces /\ i + 2 \in BitPlaces /\ i + 3 \in BitPlaces
          /\ i + 4 \in BitPlaces /\ i + 5 \in BitPlaces /\ i + 6 \in BitPlaces
          /\ i + 7 \in BitPlaces /\ i + 8 \in 0 .. Width
          /\ i % 4 = 0 /\ (i + 4) % 4 = 0
          /\ (i + 1) + 1 = i + 2 /\ (i + 2) + 1 = i + 3 /\ (i + 3) + 1 = i + 4
          /\ (i + 4) + 1 = i + 5 /\ (i + 5) + 1 = i + 6 /\ (i + 6) + 1 = i + 7
          /\ (i + 7) + 1 = i + 8 /\ (i + 4) + 2 = i + 6 /\ (i + 4) + 3 = i + 7
      BY <1>0, <1>7 DEF BitPlaces
    <2>2. PICK e \in 0 .. 4 :
             /\ e = ShiftRight(Q, i) % 16
             /\ e = Bit(x, i) + Bit(x, i + 1) + Bit(x, i + 2) + Bit(x, i + 3)
      BY <1>5, <2>1
    <2>3. PICK d \in 0 .. 4 :
             /\ d = ShiftRight(Q, i + 4) % 16
             /\ d = Bit(x, i + 4) + Bit(x, i + 5) + Bit(x, i + 6) + Bit(x, i + 7)
      <3>1. /\ ShiftRight(Q, i + 4) % 16 \in 0 .. 4
            /\ ShiftRight(Q, i + 4) % 16 = Bit(x, i + 4) + Bit(x, (i + 4) + 1)
                                             + Bit(x, (i + 4) + 2) + Bit(x, (i + 4) + 3)
        BY <1>5, <2>1
      <3> QED BY <2>1, <3>1
    <2>4. g[i] = e + d + 256 * g[i + 8] BY <1>6, <1>7, <2>2, <2>3 DEF SumsDigits
    <2>5. \A j \in BitPlaces : Bit(x, j) \in 0 .. 1 /\ OnesFrom(x, j) = Bit(x, j) + OnesFrom(x, j + 1)
      BY OnesCounted
    <2>6. OnesFrom(x, i + 8) \in Nat /\ OnesFrom(x, i + 4) \in Nat
      <3>1. i + 4 \in 0 .. Width BY <1>0, <2>1 DEF BitPlaces
      <3> QED BY <2>1, <3>1, OnesCounted
    <2>7. OnesFrom(x, i + 4) = d + OnesFrom(x, i + 8)
      <3>1. /\ OnesFrom(x, i + 4) = Bit(x, i + 4) + OnesFrom(x, i + 5)
            /\ OnesFrom(x, i + 5) = Bit(x, i + 5) + OnesFrom(x, i + 6)
            /\ OnesFrom(x, i + 6) = Bit(x, i + 6) + OnesFrom(x, i + 7)
            /\ OnesFrom(x, i + 7) = Bit(x, i + 7) + OnesFrom(x, i + 8)
        BY <2>1, <2>5
      <3>2. /\ Bit(x, i + 4) \in Nat /\ Bit(x, i + 5) \in Nat
            /\ Bit(x, i + 6) \in Nat /\ Bit(x, i + 7) \in Nat
        BY <2>1, <2>5
      <3> QED BY <2>3, <2>6, <3>1, <3>2
    <2>8. OnesFrom(x, i) = e + OnesFrom(x, i + 4)
      <3>1. /\ OnesFrom(x, i) = Bit(x, i) + OnesFrom(x, i + 1)
            /\ OnesFrom(x, i + 1) = Bit(x, i + 1) + OnesFrom(x, i + 2)
            /\ OnesFrom(x, i + 2) = Bit(x, i + 2) + OnesFrom(x, i + 3)
            /\ OnesFrom(x, i + 3) = Bit(x, i + 3) + OnesFrom(x, i + 4)
        BY <2>1, <2>5
      <3>2. /\ Bit(x, i) \in Nat /\ Bit(x, i + 1) \in Nat
            /\ Bit(x, i + 2) \in Nat /\ Bit(x, i + 3) \in Nat
        BY <2>1, <2>5
      <3> QED BY <2>2, <2>6, <3>1, <3>2
    <2>9. e + d \in 0 .. 8 BY <2>2, <2>3
    <2>10. OnesFrom(x, i) = (e + d) + OnesFrom(x, i + 8) BY <2>2, <2>3, <2>6, <2>7, <2>8
    <2> QED BY <2>4, <2>9, <2>10
  <1>8. g[0] = Bytes(Quads(Pairs(x))) BY <1>6 DEF P, Q, SumsDigits
  <1>9. g \in [0 .. Width -> Nat] /\ g[Width] = 0 BY <1>6 DEF SumsDigits
  <1>10. CountsOnes(g, x) BY <1>7, <1>8, <1>9 DEF CountsOnes
  <1> QED BY <1>10

\* The multiplication adds the bytes up in the highest one.
LEMMA EightPowers == Pow2[0] = 1 /\ Pow2[8] = 256
  <1>1. /\ 0 \in 0 .. Width /\ \A i \in 1 .. 8 : i \in 1 .. Width /\ i - 1 \in 0 .. Width
    BY WidthIs
  <1>2. Pow2[0] = 1 /\ \A i \in 1 .. 8 : Pow2[i] = 2 * Pow2[i - 1] BY <1>1, Pow2Is
  <1>3. Pow2[1] = 2 /\ Pow2[2] = 4 /\ Pow2[3] = 8 /\ Pow2[4] = 16 BY <1>2
  <1>4. Pow2[5] = 32 /\ Pow2[6] = 64 /\ Pow2[7] = 128 /\ Pow2[8] = 256 BY <1>2, <1>3
  <1> QED BY <1>2, <1>4

\* The two powers that the multiplication and its shift go by, for 64 bits.
LEMMA WidePowers ==
    ASSUME Width = 64
    PROVE  Pow2[56] = 72057594037927936 /\ Pow2[64] = 18446744073709551616
  <1>1. 8 \in 0 .. Width /\ 16 \in 0 .. Width /\ 32 \in 0 .. Width /\ 48 \in 0 .. Width
    OBVIOUS
  <1>2. Pow2[16] = 65536
    <2>1. 8 \in 0 .. Width - 8 /\ 8 + 8 = 16 OBVIOUS
    <2>2. Pow2[8 + 8] = Pow2[8] * Pow2[8] BY <1>1, <2>1, PowersAdd
    <2> QED BY EightPowers, <2>1, <2>2, SMT
  <1>3. Pow2[32] = 4294967296
    <2>1. 16 \in 0 .. Width - 16 /\ 16 + 16 = 32 OBVIOUS
    <2>2. Pow2[16 + 16] = Pow2[16] * Pow2[16] BY <1>1, <2>1, PowersAdd
    <2> QED BY <1>2, <2>1, <2>2, SMT
  <1>4. Pow2[48] = 281474976710656
    <2>1. 16 \in 0 .. Width - 32 /\ 32 + 16 = 48 OBVIOUS
    <2>2. Pow2[32 + 16] = Pow2[32] * Pow2[16] BY <1>1, <2>1, PowersAdd
    <2> QED BY <1>2, <1>3, <2>1, <2>2, SMT
  <1>5. Pow2[56] = 72057594037927936
    <2>1. 8 \in 0 .. Width - 48 /\ 48 + 8 = 56 OBVIOUS
    <2>2. Pow2[48 + 8] = Pow2[48] * Pow2[8] BY <1>1, <2>1, PowersAdd
    <2> QED BY <1>4, EightPowers, <2>1, <2>2, SMT
  <1>6. Pow2[64] = 18446744073709551616
    <2>1. 56 \in 0 .. Width /\ 8 \in 0 .. Width - 56 /\ 56 + 8 = 64 OBVIOUS
    <2>2. \A i \in 0 .. Width - 56 : Pow2[56 + i] = Pow2[56] * Pow2[i] BY <2>1, PowersAdd
    <2>3. Pow2[64] = Pow2[56] * Pow2[8] BY <2>1, <2>2
    <2>4. PICK p \in Nat : p = Pow2[56] BY <1>5, SMT
    <2>5. Pow2[64] = p * 256 BY <2>3, <2>4, EightPowers
    <2>6. p > 72057594037927935 /\ p < 72057594037927937 BY <1>5, <2>4, SMT
    <2>7. p * 256 = 18446744073709551616 BY <2>6, SMT
    <2> QED BY <2>5, <2>7, SMT
  <1> QED BY <1>5, <1>6, SMT

\* What the multiplication by 0x0101... and the shift by 56 leave of a number.
TopByte(n) == ((n * 72340172838076673) % 18446744073709551616) \div 72057594037927936

\* The word of eight bytes, the lowest first.
EightBytes(a, b, c, d, e, f, g, h) ==
    a + 256 * (b + 256 * (c + 256 * (d + 256 * (e + 256 * (f + 256 * (g + 256 * h))))))

\* popcount64 counts the ones.
LEMMA PopCountIs ==
    ASSUME NEW x \in Word
    PROVE  PopCount(x) = Cardinality(Ones(x))
  <1>1. PopCount(x) = ShiftRight(Wrap(Bytes(Quads(Pairs(x))) * ((Pow2[Width] - 1) \div 255)),
                                 Width - 8)
    BY DEF PopCount, Pairs, Quads, Bytes
  <1>2. PICK g : CountsOnes(g, x) BY BytesCount
  <1>3. /\ g[Width] = 0 /\ g[0] = Bytes(Quads(Pairs(x)))
        /\ \A i \in BitPlaces : i % 8 = 0 =>
              \E f \in 0 .. 8 : /\ g[i] = f + 256 * g[i + 8]
                                /\ OnesFrom(x, i) = f + OnesFrom(x, i + 8)
    BY <1>2 DEF CountsOnes
  <1>4. OnesFrom(x, 0) = Cardinality(Ones(x)) /\ OnesFrom(x, Width) = 0 BY OnesCounted
  <1>5. CASE Width = 8
    <2>1. 0 \in BitPlaces /\ 0 % 8 = 0 /\ 0 + 8 = Width BY <1>5 DEF BitPlaces
    <2>2. PICK f \in 0 .. 8 : g[0] = f + 256 * g[Width] /\ OnesFrom(x, 0) = f + OnesFrom(x, Width)
      BY <1>3, <2>1
    <2>3. g[0] = f /\ Cardinality(Ones(x)) = f BY <1>3, <1>4, <2>2
    <2>4. PopCount(x) = ((f * ((256 - 1) \div 255)) % 256) \div 1
      <3>1. Width - 8 = 0 BY <1>5
      <3> QED BY <1>1, <1>3, <1>5, <2>3, <3>1, EightPowers DEF ShiftRight, Wrap
    <2>5. ((f * ((256 - 1) \div 255)) % 256) \div 1 = f OBVIOUS
    <2> QED BY <2>3, <2>4, <2>5
  <1>6. CASE Width = 64
    <2>1. \A i \in {0, 8, 16, 24, 32, 40, 48, 56} : i \in BitPlaces /\ i % 8 = 0
      BY <1>6 DEF BitPlaces
    <2>2. \A i \in {0, 8, 16, 24, 32, 40, 48, 56} :
              \E f \in 0 .. 8 : /\ g[i] = f + 256 * g[i + 8]
                                /\ OnesFrom(x, i) = f + OnesFrom(x, i + 8)
      BY <1>3, <2>1
    <2>3. PICK f0 \in 0 .. 8 : g[0] = f0 + 256 * g[8] /\ OnesFrom(x, 0) = f0 + OnesFrom(x, 8)
      BY <2>2
    <2>4. PICK f1 \in 0 .. 8 : g[8] = f1 + 256 * g[16] /\ OnesFrom(x, 8) = f1 + OnesFrom(x, 16)
      BY <2>2
    <2>5. PICK f2 \in 0 .. 8 : g[16] = f2 + 256 * g[24] /\ OnesFrom(x, 16) = f2 + OnesFrom(x, 24)
      BY <2>2
    <2>6. PICK f3 \in 0 .. 8 : g[24] = f3 + 256 * g[32] /\ OnesFrom(x, 24) = f3 + OnesFrom(x, 32)
      BY <2>2
    <2>7. PICK f4 \in 0 .. 8 : g[32] = f4 + 256 * g[40] /\ OnesFrom(x, 32) = f4 + OnesFrom(x, 40)
      BY <2>2
    <2>8. PICK f5 \in 0 .. 8 : g[40] = f5 + 256 * g[48] /\ OnesFrom(x, 40) = f5 + OnesFrom(x, 48)
      BY <2>2
    <2>9. PICK f6 \in 0 .. 8 : g[48] = f6 + 256 * g[56] /\ OnesFrom(x, 48) = f6 + OnesFrom(x, 56)
      BY <2>2
    <2>10. PICK f7 \in 0 .. 8 : g[56] = f7 + 256 * g[64] /\ OnesFrom(x, 56) = f7 + OnesFrom(x, 64)
      BY <2>2
    <2>11. g[64] = 0 /\ OnesFrom(x, 64) = 0 BY <1>3, <1>4, <1>6
    <2>12. OnesFrom(x, 56) = f7 /\ OnesFrom(x, 48) = f6 + f7 BY <2>9, <2>10, <2>11
    <2>13. OnesFrom(x, 40) = f5 + f6 + f7 /\ OnesFrom(x, 32) = f4 + f5 + f6 + f7
      BY <2>7, <2>8, <2>12
    <2>14. OnesFrom(x, 16) = f2 + f3 + f4 + f5 + f6 + f7 BY <2>5, <2>6, <2>13
    <2>15. Cardinality(Ones(x)) = f0 + f1 + f2 + f3 + f4 + f5 + f6 + f7
      BY <1>4, <2>3, <2>4, <2>14
    <2>16. g[56] = f7 /\ g[48] = f6 + 256 * f7 BY <2>9, <2>10, <2>11
    <2>17. g[40] = f5 + 256 * (f6 + 256 * f7) BY <2>8, <2>16
    <2>18. g[32] = f4 + 256 * (f5 + 256 * (f6 + 256 * f7)) BY <2>7, <2>17
    <2>19. g[24] = f3 + 256 * (f4 + 256 * (f5 + 256 * (f6 + 256 * f7))) BY <2>6, <2>18
    <2>20. g[16] = f2 + 256 * (f3 + 256 * (f4 + 256 * (f5 + 256 * (f6 + 256 * f7))))
      BY <2>5, <2>19
    <2>21. g[8] = f1 + 256 * (f2 + 256 * (f3 + 256 * (f4 + 256 * (f5 + 256 * (f6 + 256 * f7)))))
      BY <2>4, <2>20
    <2>22. g[0] = EightBytes(f0, f1, f2, f3, f4, f5, f6, f7) BY <2>3, <2>21 DEF EightBytes
    <2>23. TopByte(g[0]) = f0 + f1 + f2 + f3 + f4 + f5 + f6 + f7
      <3>1. PICK n \in Nat :
               n = f0 + 256 * (f1 + 256 * (f2 + 256 * (f3 + 256 * (f4 + 256 *
                      (f5 + 256 * (f6 + 256 * f7))))))
        OBVIOUS
      <3>2. ((n * 72340172838076673) % 18446744073709551616) \div 72057594037927936
               = f0 + f1 + f2 + f3 + f4 + f5 + f6 + f7
        BY <3>1, SMTT(60)
      <3>3. g[0] = n BY <2>22, <3>1 DEF EightBytes
      <3>4. TopByte(n) = f0 + f1 + f2 + f3 + f4 + f5 + f6 + f7 BY <3>2, SMT DEF TopByte
      <3> QED BY <3>3, <3>4
    <2>24. PopCount(x) = TopByte(g[0])
      <3>1. (18446744073709551616 - 1) \div 255 = 72340172838076673 BY SMT
      <3>2. Width - 8 = 56 BY <1>6
      <3> QED BY <1>1, <1>3, <1>6, <3>1, <3>2, WidePowers, SMT DEF ShiftRight, Wrap, TopByte
    <2> QED BY <2>15, <2>23, <2>24
  <1> QED BY <1>5, <1>6, WidthIs

\* The jumps.
LEMMA JumpsDecideAll ==
    ASSUME NEW a \in Word, NEW b \in Word
    PROVE  JumpsDecide(a, b)
  <1>1. PICK p \in Nat, q \in Nat : p = Pow2[Width] /\ q = Pow2[Width - 1]
    <2>1. Width \in 0 .. Width /\ Width - 1 \in 0 .. Width BY WidthIs
    <2> QED BY <2>1, PowersGrow
  <1>2. a \in Int /\ b \in Int BY <1>1 DEF Word
  <1>3. PICK x \in Int, y \in Int : x = Signed(a) /\ y = Signed(b) BY <1>1, <1>2 DEF Signed
  <1> DEFINE flags == FlagsOf(a, b)
  <1>4. /\ "EQUAL" \in flags <=> a = b
        /\ "LESS" \in flags <=> a < b
        /\ "GREATER" \in flags <=> a > b
    BY DEF FlagsOf
  <1> HIDE DEF flags
  <1>5. /\ Taken("JE", flags) = (a = b) /\ Taken("JNE", flags) = (a # b)
        /\ Taken("JG", flags) = (a > b) /\ Taken("JL", flags) = (a < b)
    BY <1>4 DEF Taken
  <1>6. /\ Taken("JGE", flags) = (a >= b) /\ Taken("JLE", flags) = (a <= b)
    BY <1>2, <1>4 DEF Taken
  <1>7. /\ Taken("JG", FlagsOfRelation("GT", a, b)) = (x > y)
        /\ Taken("JL", FlagsOfRelation("LT", a, b)) = (x < y)
        /\ Taken("JGE", FlagsOfRelation("GE", a, b)) = (x >= y)
        /\ Taken("JLE", FlagsOfRelation("LE", a, b)) = (x <= y)
    BY <1>3 DEF Taken, FlagsOfRelation
  <1> QED BY <1>3, <1>5, <1>6, <1>7 DEF JumpsDecide, flags

\* The bit operations and jumps of vm.c, on every two words of 8 or 64 bits:
\* the counts are the numbers of ones and of leading and trailing zeros, the
\* rotations move every bit and undo each other, and a conditional jump is
\* taken when its relation holds.
THEOREM WordsStayRight == WordsSpec => []WordsRight
  <1>1. WordsInit => WordsRight
    <2> SUFFICES ASSUME WordsInit PROVE WordsRight
      OBVIOUS
    <2>1. operands[1] \in Word /\ operands[2] \in Word BY DEF WordsInit
    <2>2. PICK x \in Word, y \in Word : x = operands[1] /\ y = operands[2] BY <2>1
    <2>3. PICK n \in BitPlaces : n = y % Width
      <3>1. y \in Nat
        BY WrapWord
      <3> QED BY <3>1, WidthIs DEF BitPlaces
    <2>4. BitsCounted(x, n)
      <3>1. PopCount(x) = Cardinality(Ones(x)) BY PopCountIs
      <3>2. IF x = 0 THEN Clz(x) = Width /\ Ctz(x) = Width
            ELSE \E low, high \in Ones(x) :
                    /\ \A i \in Ones(x) : low <= i /\ i <= high
                    /\ Ctz(x) = low /\ Clz(x) = Width - 1 - high
        <4>1. CASE x = 0 BY <4>1 DEF Clz, Ctz
        <4>2. CASE x # 0 BY <4>2, ClzIs, CtzIs
        <4> QED BY <4>1, <4>2
      <3> QED BY <3>1, <3>2, RotationsTurn DEF BitsCounted
    <2>5. JumpsDecide(x, y) BY JumpsDecideAll
    <2> QED BY <2>2, <2>3, <2>4, <2>5 DEF WordsRight
  <1>2. WordsRight /\ [UNCHANGED operands]_operands => WordsRight'
    BY DEF WordsRight
  <1> QED BY <1>1, <1>2, PTL DEF WordsSpec
=============================================================================
