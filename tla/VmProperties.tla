---------------------------- MODULE VmProperties ----------------------------
(* What the FLUX machine of Vm keeps. *)
EXTENDS Vm

\* Whatever program runs, and however far an instruction gets before it fails,
\* the operand stack's pointer, SP and FP stay within the stack and the call
\* stack within its depth (stack_push, ENTER, LEAVE, PUSHA, STACK_ALLOC), for
\* programs that keep FP within the stack; a machine that runs under
\* flux_vm_run is in the RUNNING state.
StackSafe ==
    /\ cpu.ptr \in 0 .. StackSize
    /\ cpu.sp \in Words /\ cpu.fp \in Words
    /\ Len(cpu.calls) <= CallDepth
    /\ cpu.state \in VmStates
    /\ run # NoRun => cpu.state = "RUNNING"

\* An active region has data of its own that malloc handed out and nobody
\* freed, an inactive one has none, and LOAD and STORE go to a region that
\* exists as long as there is one.
RegionsAgree ==
    LET active == {r \in RegionIds : regions[r].active}
    IN  /\ \A r \in active : regions[r].data \in held
        /\ \A r \in RegionIds \ active : regions[r].data = NoData
        /\ \A r, q \in active : regions[r].data = regions[q].data => r = q
        /\ IF active = {} THEN activeRegion = NoRegion
                          ELSE activeRegion \in active

\* A step changes what at most one region contains, and a call of the host
\* never changes one that is readonly (flux_vm_region_write, _fill, _copy).
KeepsOthers ==
    LET changed == {r \in RegionIds :
                       /\ regions[r].active /\ regions'[r].active
                       /\ regions'[r].content # regions[r].content}
    IN  /\ Cardinality(changed) <= 1
        /\ cycles' = cycles /\ cpu' = cpu => \A r \in changed : ~regions[r].readonly

\* Across creation, destruction, resizing, reset and re-creation in every
\* order, by programs and by the host, the regions own their data apart, the
\* active one exists, and no call reaches into another region or writes one
\* that is readonly (vm/region.c).
RegionsKept == [][KeepsOthers /\ RegionsAgree']_vmVars

\* flux_vm_run with a limit returns, whatever the program does, unless the
\* program starts the profile (PROF_START) again and again: that sets the
\* cycles back to 0.
Limited == run = CycleLimit

RunReturns ==
    \/ []<>(Limited /\ cycles = 0)
    \/ [](Limited => <>(run = NoRun))

=============================================================================
