----------------------------- MODULE KernelProofs -----------------------------
(***************************************************************************)
(* Invariants of the kernel, for every size of its tables and queues, every *)
(* choice of calls and every scheduling parameter; then what the scheduler  *)
(* keeps in the regime of equal priorities, for every size and call in it.  *)
(***************************************************************************)
EXTENDS KernelProperties, KernelLemmas

-----------------------------------------------------------------------------
(* Types.                                                                   *)

LEMMA PidsAreNat == Pids \subseteq Nat /\ Inboxes \subseteq Nat /\ KERNEL \in Nat /\ INVALID \in Nat
  BY ProcAssumption DEF Pids, Inboxes, KERNEL, INVALID

LEMMA TypeInit == Init => TypeOK /\ RingShape
<1> SUFFICES ASSUME Init PROVE TypeOK /\ RingShape
  OBVIOUS
<1>1. UnusedPcb \in PcbType /\ KernelPcb \in PcbType
  BY ProcAssumption DEF UnusedPcb, KernelPcb, PcbType, States, KERNEL, INVALID
<1>2. pcb \in [Slots -> PcbType]
  BY <1>1 DEF Init, ProcInit
<1>3. NoWaiter \in WaiterType
  BY DEF NoWaiter, WaiterType, INVALID
<1>4. <<>> \in Seq(MsgType)
  OBVIOUS
<1> QED BY <1>2, <1>3, <1>4, EmptyRingType
        DEF Init, ProcInit, SchedInit, IpcInit, TypeOK, RingShape, KERNEL

\* The PCBs a slot is rewritten to.
LEMMA RewritePcb ==
  ASSUME NEW p \in PcbType
  PROVE  /\ \A st \in States : [p EXCEPT !.state = st] \in PcbType
         /\ \A n \in Nat : [p EXCEPT !.prio = n] \in PcbType
         /\ \A st \in States, n \in Nat : [p EXCEPT !.state = st, !.waiting = n] \in PcbType
         /\ [p EXCEPT !.bc = TRUE] \in PcbType
         /\ CleanPcb(p) \in PcbType
         /\ Woken(p) \in PcbType
BY DEF PcbType, CleanPcb, Woken, States, INVALID

\* A call that waits, and one that stops waiting, rewrite two fields at once.
LEMMA BlockAtType ==
  ASSUME TypeOK, NEW i \in Slots, NEW n \in Nat, NEW st \in {"BLOCKED", "RUNNING"}
  PROVE  /\ [pcb EXCEPT ![i].state = st, ![i].waiting = n] \in TableType
         /\ [pcb EXCEPT ![i].state = st, ![i].waiting = n]
              = [pcb EXCEPT ![i] = [pcb[i] EXCEPT !.state = st, !.waiting = n]]
<1>1. [pcb[i] EXCEPT !.state = st, !.waiting = n] \in PcbType
  BY RewritePcb DEF TypeOK, States
<1>2. [pcb EXCEPT ![i].state = st, ![i].waiting = n]
        = [pcb EXCEPT ![i] = [pcb[i] EXCEPT !.state = st, !.waiting = n]]
  BY DEF TypeOK
<1> QED BY <1>1, <1>2 DEF TypeOK, TableType

LEMMA HereIn == TypeOK => Here \in Slots /\ Me \in PcbType
  BY SlotOfIn DEF TypeOK, Here, Me

LEMMA ForgetOk ==
  ASSUME TypeOK, NEW i, Forget(i)
  PROVE  waiter' \in [Slots -> WaiterType]
<1>1. NoWaiter \in WaiterType BY DEF NoWaiter, WaiterType, INVALID
<1> QED BY <1>1 DEF Forget, TypeOK

LEMMA ParentAfterExitOk ==
  ASSUME TypeOK
  PROVE  /\ ParentAfterExit \in TableType
         /\ \A i \in Slots : /\ ParentAfterExit[i].state = "UNUSED" <=> pcb[i].state = "UNUSED"
                             /\ ParentAfterExit[i].pid = pcb[i].pid
                             /\ ParentAfterExit[i].agent = pcb[i].agent
                             /\ ParentAfterExit[i].bc = pcb[i].bc
<1>1. SlotOf(Me.parent) \in Slots
  BY HereIn, SlotOfIn DEF PcbType
<1>2. \A i \in Slots : pcb[i] \in PcbType /\ Woken(pcb[i]) \in PcbType
  BY RewritePcb DEF TypeOK
<1>3. \A i \in Slots : /\ Woken(pcb[i]).state = "READY" /\ Woken(pcb[i]).pid = pcb[i].pid
                       /\ Woken(pcb[i]).agent = pcb[i].agent /\ Woken(pcb[i]).bc = pcb[i].bc
  BY <1>2 DEF Woken, PcbType
<1>4. pcb \in [Slots -> PcbType] BY DEF TypeOK
<1> HIDE DEF Woken
<1> QED BY <1>1, <1>2, <1>3, <1>4 DEF ParentAfterExit, TableType

LEMMA CleanupOk ==
  ASSUME TypeOK, NEW pcbs \in TableType, NEW i \in Slots, Cleanup(pcbs, i)
  PROVE  /\ pcb' \in TableType
         /\ waiter' \in [Slots -> WaiterType]
         /\ activeCount' \in Int /\ agentCount' \in Int /\ numProcs' \in Int
<1>1. pcb' \in TableType
  BY RewritePcb DEF Cleanup, TableType
<1>2. waiter' \in [Slots -> WaiterType] BY ForgetOk DEF Cleanup
<1>3. activeCount' \in Int /\ agentCount' \in Int /\ numProcs' \in Int
  BY DEF Cleanup, AgentWeight, TypeOK
<1> QED BY <1>1, <1>2, <1>3

LEMMA TickType == ASSUME TypeOK, Tick PROVE TypeOK' /\ (RingShape => RingShape')
<1>0. /\ pcb \in TableType /\ ring \in RingType /\ schedCur \in Nat /\ slice \in Nat
      /\ boostTimer \in Nat /\ kcur \in Nat
  BY DEF TypeOK, TableType
<1>1. waiter' \in [Slots -> WaiterType]
  <2>1. ASSUME NEW i \in Slots
        PROVE  [waiter[i] EXCEPT !.left = IF @ > 0 THEN @ - 1 ELSE @] \in WaiterType
    <3>1. waiter[i] \in WaiterType BY DEF TypeOK
    <3>2. \A l \in Nat : (IF l > 0 THEN l - 1 ELSE l) \in Nat OBVIOUS
    <3>3. (IF FOREVER > 0 THEN FOREVER - 1 ELSE FOREVER) = FOREVER BY DEF FOREVER
    <3>4. \A l \in Nat \cup {FOREVER} :
             (IF l > 0 THEN l - 1 ELSE l) \in Nat \cup {FOREVER}
      BY <3>2, <3>3
    <3> QED BY <3>1, <3>4 DEF WaiterType
  <2> QED BY <2>1 DEF Tick, Elapsed
<1>2. CASE KeepRunning
  <2>1. ring' \in RingType /\ (WellShaped(ring) => WellShaped(ring'))
    BY <1>0, <1>2, AgedOk DEF KeepRunning
  <2>2. slice' \in Nat BY <1>0, <1>2 DEF KeepRunning
  <2> QED BY <1>1, <1>2, <2>1, <2>2 DEF KeepRunning, Tick, TypeOK, RingShape
<1>3. CASE GoIdle
  <2>1. ring' \in RingType /\ (WellShaped(ring) => WellShaped(ring'))
    BY <1>0, <1>3, SwitchRingOk DEF GoIdle
  <2> QED BY <1>1, <1>3, <2>1 DEF GoIdle, Tick, TypeOK, KERNEL, RingShape
<1>4. CASE SwitchTo
  BY <1>0, <1>1, <1>4, SwitchToOk DEF Tick, TypeOK, TableType, RingShape
<1> QED BY <1>2, <1>3, <1>4 DEF Tick, SchedStep

LEMMA SpawnType ==
  ASSUME TypeOK, NEW pid \in Pids, NEW agent \in BOOLEAN, Spawn(pid, agent)
  PROVE  TypeOK' /\ (RingShape => RingShape')
<1>1. pid \in Nat /\ SlotOf(pid) \in Slots BY PidsAreNat, SlotOfIn
<1>2. SpawnedPcb(pid, kcur, agent) \in PcbType
  BY <1>1, ProcAssumption
     DEF TypeOK, SpawnedPcb, UnusedPcb, PcbType, States, INVALID
<1>3. pcb' \in TableType
  BY <1>2 DEF Spawn, TypeOK, TableType
<1>4. ring' \in RingType /\ (WellShaped(ring) => WellShaped(ring'))
  BY <1>1, <1>3, EnqueueRingOk DEF Spawn, TypeOK
<1>5. /\ nextPid' \in Nat /\ stacks' \in Nat
      /\ activeCount' \in Int /\ agentCount' \in Int /\ numProcs' \in Int
  BY <1>1 DEF Spawn, TypeOK
<1> QED BY <1>3, <1>4, <1>5 DEF Spawn, TypeOK, TableType, ipcVars, RingShape

LEMMA SpawnNoStackType ==
  ASSUME TypeOK, NEW pid \in Pids, SpawnNoStack(pid)
  PROVE  TypeOK' /\ (RingShape => RingShape')
BY PidsAreNat DEF SpawnNoStack, TypeOK, schedVars, ipcVars, RingShape

LEMMA ExitType == ASSUME TypeOK, Exit PROVE TypeOK' /\ (RingShape => RingShape')
<1>1. ParentAfterExit \in TableType /\ Here \in Slots BY ParentAfterExitOk, HereIn
<1>2. Cleanup(ParentAfterExit, Here) /\ UNCHANGED <<ring, slice, boostTimer>> /\ schedCur' = INVALID
  BY DEF Exit, YieldCurrent
<1> QED BY <1>1, <1>2, CleanupOk DEF Cleanup, TypeOK, TableType, INVALID, RingShape

LEMMA KillType ==
  ASSUME TypeOK, NEW pid \in Pids, Kill(pid)
  PROVE  TypeOK' /\ (RingShape => RingShape')
<1>1. SlotOf(pid) \in Slots /\ pcb \in TableType
  BY PidsAreNat, SlotOfIn DEF TypeOK, TableType
<1>2. Cleanup(pcb, SlotOf(pid)) /\ UNCHANGED schedVars BY DEF Kill
<1> QED BY <1>1, <1>2, CleanupOk DEF Cleanup, TypeOK, TableType, schedVars, RingShape

LEMMA YieldType == ASSUME TypeOK, Yield PROVE TypeOK' /\ (RingShape => RingShape')
<1> DEFINE pcbs == IF Me.state = "RUNNING"
                   THEN [pcb EXCEPT ![Here].state = "READY"] ELSE pcb
<1>1. pcbs \in TableType
  BY HereIn, RewritePcb DEF TypeOK, TableType, States
<1>2. pcb' = EnqueuePcb(pcbs, ring, kcur) /\ ring' = EnqueueRing(pcbs, ring, kcur)
  BY DEF Yield
<1> HIDE DEF pcbs
<1>3. pcb' \in TableType /\ ring' \in RingType /\ (WellShaped(ring) => WellShaped(ring'))
  BY <1>1, <1>2, EnqueueRingOk, EnqueuePcbOk DEF TypeOK
<1> QED BY <1>3 DEF Yield, YieldCurrent, TypeOK, TableType, ipcVars, INVALID, RingShape

\* The calls that rewrite one PCB and nothing else.
LEMMA PcbCallsType ==
  ASSUME TypeOK,
         \/ \E pid \in Pids : Wait(pid) \/ BcLoad(pid) \/ BcExec(pid)
         \/ \E pid \in Pids, prio \in Priorities : SetPriority(pid, prio)
         \/ \E st \in {"AGENT_IDLE", "AGENT_THINKING"} : SetState(st)
  PROVE  TypeOK' /\ (RingShape => RingShape')
<1>1. pcb' \in TableType
  <2>1. pcb \in TableType /\ Here \in Slots BY HereIn DEF TypeOK, TableType
  <2>2. \A pid \in Pids : pid \in Nat /\ SlotOf(pid) \in Slots BY PidsAreNat, SlotOfIn
  <2>3. ASSUME NEW pid \in Pids, Wait(pid) PROVE pcb' \in TableType
    BY <2>1, <2>2, <2>3, BlockAtType DEF Wait
  <2>4. ASSUME NEW pid \in Pids, BcLoad(pid) PROVE pcb' \in TableType
    BY <2>1, <2>2, <2>4, RewritePcb DEF BcLoad, TableType
  <2>5. ASSUME NEW pid \in Pids, BcExec(pid) PROVE pcb' \in TableType
    BY <2>1, <2>2, <2>5, RewritePcb DEF BcExec, TableType, States
  <2>6. ASSUME NEW pid \in Pids, NEW prio \in Priorities, SetPriority(pid, prio)
        PROVE  pcb' \in TableType
    <3>1. prio \in Nat BY KernelAssumption
    <3> QED BY <2>1, <2>2, <2>6, <3>1, RewritePcb DEF SetPriority, TableType
  <2>7. ASSUME NEW st \in {"AGENT_IDLE", "AGENT_THINKING"}, SetState(st)
        PROVE  pcb' \in TableType
    BY <2>1, <2>7, RewritePcb DEF SetState, TableType, States
  <2> QED BY <2>3, <2>4, <2>5, <2>6, <2>7
<1>2. UNCHANGED <<nextPid, activeCount, agentCount, numProcs, kcur, stacks, schedVars, ipcVars>>
  BY DEF Wait, BcLoad, BcExec, SetPriority, SetState
<1> QED BY <1>1, <1>2 DEF TypeOK, TableType, schedVars, ipcVars, RingShape

LEMMA SendType ==
  ASSUME TypeOK, NEW target \in Pids, Send(target)
  PROVE  TypeOK' /\ (RingShape => RingShape')
<1>1. target \in Nat /\ SlotOf(target) \in Slots BY PidsAreNat, SlotOfIn
<1>2. pcb' \in TableType /\ ring' \in RingType /\ (WellShaped(ring) => WellShaped(ring'))
  <2>1. CASE WokenBySend(pcb[SlotOf(target)])
    <3>1. pcb' = [pcb EXCEPT ![SlotOf(target)] = Woken(@)] /\ ring' = EnqueueRing(pcb', ring, target)
      BY <2>1 DEF Send
    <3>2. Woken(pcb[SlotOf(target)]) \in PcbType BY <1>1, RewritePcb DEF TypeOK
    <3>3. pcb' \in TableType BY <1>1, <3>1, <3>2 DEF TypeOK, TableType
    <3> QED BY <1>1, <3>1, <3>3, EnqueueRingOk DEF TypeOK
  <2>2. CASE ~WokenBySend(pcb[SlotOf(target)])
    BY <2>2 DEF Send, TypeOK, TableType
  <2> QED BY <2>1, <2>2
<1>3. inbox' \in InboxType
  <2>1. Msg(kcur, target) \in MsgType BY <1>1, MsgOk DEF TypeOK
  <2>2. \A q \in Seq(MsgType) : Append(q, Msg(kcur, target)) \in Seq(MsgType)
    BY <2>1
  <2> QED BY <2>2 DEF Send, TypeOK, InboxType
<1>4. msgId' \in Nat BY DEF Send, TypeOK
<1> QED BY <1>2, <1>3, <1>4 DEF Send, TypeOK, TableType, InboxType, RingShape

LEMMA RecvType ==
  ASSUME TypeOK, NEW filter \in Filters,
         \/ RecvNow(filter)
         \/ \E timeout \in Timeouts \cup {FOREVER} : RecvBlock(filter, timeout)
  PROVE  TypeOK' /\ (RingShape => RingShape')
<1>1. CASE RecvNow(filter)
  <2>1. inbox' \in InboxType
    BY <1>1, TakeMatchOk DEF RecvNow, HasInbox, TypeOK, InboxType
  <2> QED BY <1>1, <2>1 DEF RecvNow, TypeOK, InboxType, procVars, schedVars, RingShape
<1>2. ASSUME NEW timeout \in Timeouts \cup {FOREVER}, RecvBlock(filter, timeout)
      PROVE  TypeOK' /\ (RingShape => RingShape')
  <2>1. filter \in Nat BY KernelAssumption
  <2>2. pcb' \in TableType
    BY <1>2, <2>1, HereIn, BlockAtType DEF RecvBlock
  <2>3. [pid |-> kcur, filter |-> filter, left |-> timeout] \in WaiterType
    BY <2>1, IpcAssumption DEF WaiterType, TypeOK
  <2>4. waiter' \in [Slots -> WaiterType]
    BY <1>2, <2>3 DEF RecvBlock, TypeOK
  <2> QED BY <1>2, <2>2, <2>4 DEF RecvBlock, TypeOK, TableType, schedVars, RingShape
<1> QED BY <1>1, <1>2

LEMMA PollTimeoutType == ASSUME TypeOK, PollTimeout PROVE TypeOK' /\ (RingShape => RingShape')
<1>1. pcb' \in TableType /\ ring' \in RingType /\ (WellShaped(ring) => WellShaped(ring'))
  <2>1. CASE Me.state = "BLOCKED"
    <3>1. pcb' = [pcb EXCEPT ![Here] = Woken(@)] /\ ring' = EnqueueRing(pcb', ring, waiter[Here].pid)
      BY <2>1 DEF PollTimeout
    <3>2. Woken(pcb[Here]) \in PcbType BY HereIn, RewritePcb DEF Me
    <3>3. pcb' \in TableType BY HereIn, <3>1, <3>2 DEF TypeOK, TableType
    <3>4. waiter[Here].pid \in Nat BY HereIn DEF TypeOK, WaiterType
    <3> QED BY <3>1, <3>3, <3>4, EnqueueRingOk DEF TypeOK
  <2>2. CASE Me.state # "BLOCKED"
    BY <2>2 DEF PollTimeout, TypeOK, TableType
  <2> QED BY <2>1, <2>2
<1>2. waiter' \in [Slots -> WaiterType] BY ForgetOk DEF PollTimeout
<1> QED BY <1>1, <1>2 DEF PollTimeout, TypeOK, TableType, RingShape

LEMMA PollReceiveType == ASSUME TypeOK, PollReceive PROVE TypeOK' /\ (RingShape => RingShape')
<1>1. pcb' \in TableType
  BY HereIn, BlockAtType DEF PollReceive, INVALID
<1>2. inbox' \in InboxType
  BY TakeMatchOk DEF PollReceive, TypeOK, InboxType
<1>3. waiter' \in [Slots -> WaiterType] BY ForgetOk DEF PollReceive
<1> QED BY <1>1, <1>2, <1>3 DEF PollReceive, TypeOK, TableType, InboxType, schedVars, RingShape

LEMMA BroadcastType == ASSUME TypeOK, Broadcast PROVE TypeOK' /\ (RingShape => RingShape')
<1>1. pcb \in TableType /\ kcur \in Nat /\ ring \in RingType BY DEF TypeOK, TableType
<1>2. pcb' \in TableType BY <1>1, BroadcastPcbOk DEF Broadcast
<1>3. ring' \in RingType /\ (WellShaped(ring) => WellShaped(ring'))
  BY <1>1, BroadcastPcbOk, BroadcastRingOk DEF Broadcast
<1>4. inbox' \in InboxType
  <2>1. Msg(kcur, INVALID) \in MsgType BY <1>1, MsgOk DEF TypeOK, INVALID
  <2>2. \A q \in Seq(MsgType) : Append(q, Msg(kcur, INVALID)) \in Seq(MsgType)
    BY <2>1
  <2> QED BY <2>2 DEF Broadcast, TypeOK, InboxType
<1>5. msgId' \in Nat BY DEF Broadcast, TypeOK
<1> QED BY <1>2, <1>3, <1>4, <1>5 DEF Broadcast, TypeOK, TableType, InboxType, RingShape

LEMMA TypeStep == TypeOK /\ RingShape /\ [Next]_vars => (TypeOK /\ RingShape)'
<1> SUFFICES ASSUME TypeOK, RingShape, [Next]_vars PROVE (TypeOK /\ RingShape)'
  OBVIOUS
<1>1. CASE Tick BY <1>1, TickType
<1>2. CASE Exit \/ Yield BY <1>2, ExitType, YieldType
<1>3. CASE \E pid \in Pids :
              \/ \E agent \in AgentKinds : Spawn(pid, agent)
              \/ SpawnNoStack(pid) \/ Kill(pid) \/ Send(pid)
  BY <1>3, SpawnType, SpawnNoStackType, KillType, SendType, KernelAssumption
<1>4. CASE \/ \E pid \in Pids : Wait(pid) \/ BcLoad(pid) \/ BcExec(pid)
           \/ \E pid \in Pids, prio \in Priorities : SetPriority(pid, prio)
           \/ \E st \in {"AGENT_IDLE", "AGENT_THINKING"} : SetState(st)
  BY <1>4, PcbCallsType
<1>5. CASE \E filter \in Filters :
              \/ RecvNow(filter)
              \/ \E timeout \in Timeouts \cup {FOREVER} : RecvBlock(filter, timeout)
  BY <1>5, RecvType
<1>6. CASE PollTimeout \/ PollReceive \/ Broadcast
  BY <1>6, PollTimeoutType, PollReceiveType, BroadcastType
<1>7. CASE UNCHANGED vars
  BY <1>7 DEF TypeOK, vars, procVars, schedVars, ipcVars, RingShape
<1> QED BY <1>1, <1>2, <1>3, <1>4, <1>5, <1>6, <1>7 DEF Next

\* The statics of proc.c, sched.c and ipc.c keep their types, and the occupied
\* part of the ready queue lies between its head and its tail, whatever the
\* processes do: no call leaves an index or a count out of range.
THEOREM TypesAndShape == Spec => []WellFormed
<1>1. Spec => [](TypeOK /\ RingShape)
  BY TypeInit, TypeStep, PTL DEF Spec
<1> QED BY <1>1, PTL DEF WellFormed
-----------------------------------------------------------------------------
(* The process on the CPU.                                                  *)

\* proc.c and sched.c name the same running process, or sched.c has none.
THEOREM CpuAgreement == Spec => []CpuAgrees
<1>1. Init => CpuAgrees
  BY DEF Init, ProcInit, SchedInit, CpuAgrees
<1>2. TypeOK /\ CpuAgrees /\ [Next]_vars => CpuAgrees'
  <2> SUFFICES ASSUME TypeOK, CpuAgrees, [Next]_vars PROVE CpuAgrees'
    OBVIOUS
  <2>1. CASE Tick
    <3>1. CASE KeepRunning BY <3>1 DEF KeepRunning, CpuAgrees
    <3>2. CASE GoIdle BY <3>2 DEF GoIdle, CpuAgrees
    <3>3. CASE SwitchTo
      BY <3>3, SwitchToOk DEF CpuAgrees, TypeOK, TableType
    <3> QED BY <2>1, <3>1, <3>2, <3>3 DEF Tick, SchedStep
  <2>2. CASE Exit \/ Yield
    BY <2>2 DEF Exit, Yield, YieldCurrent, CpuAgrees
  <2>3. CASE ~Tick /\ ~Exit /\ ~Yield
    <3>1. UNCHANGED <<schedCur, kcur>>
      BY <2>3 DEF Next, Spawn, SpawnNoStack, Kill, Cleanup, Wait, SetPriority, SetState,
                  BcLoad, BcExec, Send, RecvNow, RecvBlock, PollTimeout, PollReceive,
                  Broadcast, vars, procVars, schedVars
    <3> QED BY <3>1 DEF CpuAgrees
  <2> QED BY <2>1, <2>2, <2>3
<1>3. Spec => []TypeOK BY TypesAndShape, PTL DEF WellFormed
<1> QED BY <1>1, <1>2, <1>3, PTL DEF Spec

-----------------------------------------------------------------------------
(* Who is in the table.                                                     *)

\* A step that creates and removes nobody.
Stays ==
    /\ \A i \in Slots : /\ pcb'[i].state = "UNUSED" <=> pcb[i].state = "UNUSED"
                        /\ pcb'[i].pid = pcb[i].pid
                        /\ pcb'[i].agent = pcb[i].agent
                        /\ pcb[i].state = "UNUSED" => pcb'[i].bc = pcb[i].bc
    /\ UNCHANGED <<activeCount, agentCount, numProcs>>
    /\ nextPid' \in Nat /\ nextPid' >= nextPid

\* A step that removes the process in slot i.
Leaves(i) ==
    /\ pcb[i].state # "UNUSED"
    /\ pcb'[i].state = "UNUSED" /\ pcb'[i].pid = INVALID
    /\ ~pcb'[i].agent /\ ~pcb'[i].bc
    /\ \A j \in Slots \ {i} : /\ pcb'[j].state = "UNUSED" <=> pcb[j].state = "UNUSED"
                              /\ pcb'[j].pid = pcb[j].pid
                              /\ pcb'[j].agent = pcb[j].agent
                              /\ pcb'[j].bc = pcb[j].bc
    /\ agentCount' = agentCount - (IF pcb[i].agent THEN 1 ELSE 0)
    /\ activeCount' = activeCount - 1 /\ numProcs' = activeCount - 1
    /\ nextPid' = nextPid

\* A step that puts process pid into its slot.
Arrives(pid, agent) ==
    /\ pid \in Nat /\ pid >= nextPid /\ nextPid' = pid + 1
    /\ pcb[SlotOf(pid)].state = "UNUSED"
    /\ pcb'[SlotOf(pid)].state # "UNUSED" /\ pcb'[SlotOf(pid)].pid = pid
    /\ pcb'[SlotOf(pid)].agent = agent
    /\ \A j \in Slots \ {SlotOf(pid)} : pcb'[j] = pcb[j]
    /\ agentCount' = agentCount + (IF agent THEN 1 ELSE 0)
    /\ activeCount' = activeCount + 1 /\ numProcs' = activeCount + 1

LEMMA StaysWhenUnchanged ==
  ASSUME TypeOK, UNCHANGED <<pcb, nextPid, activeCount, agentCount, numProcs>>
  PROVE  Stays
BY DEF Stays, TypeOK

\* Rewriting one slot in use, without touching its owner, is no arrival and no
\* departure.
LEMMA StaysWhenRewritten ==
  ASSUME TypeOK, NEW i \in Slots, NEW p,
         pcb' = [pcb EXCEPT ![i] = p],
         pcb[i].state # "UNUSED", p.state # "UNUSED",
         p.pid = pcb[i].pid, p.agent = pcb[i].agent,
         UNCHANGED <<nextPid, activeCount, agentCount, numProcs>>
  PROVE  Stays
BY DEF Stays, TypeOK

LEMMA TickStays == ASSUME TypeOK, Tick PROVE Stays
<1>1. CASE KeepRunning BY <1>1, StaysWhenUnchanged DEF KeepRunning, Tick
<1>2. CASE GoIdle BY <1>2, StaysWhenUnchanged DEF GoIdle, Tick
<1>3. CASE SwitchTo
  BY <1>3, SwitchToOk DEF Stays, Tick, TypeOK, TableType
<1> QED BY <1>1, <1>2, <1>3 DEF Tick, SchedStep

LEMMA CallsStay ==
  ASSUME TypeOK,
         \/ \E pid \in Pids : \/ SpawnNoStack(pid) \/ Wait(pid) \/ BcLoad(pid) \/ BcExec(pid)
                              \/ \E prio \in Priorities : SetPriority(pid, prio)
                              \/ Send(pid)
         \/ \E st \in {"AGENT_IDLE", "AGENT_THINKING"} : SetState(st)
         \/ Yield
         \/ \E filter \in Filters :
               \/ RecvNow(filter)
               \/ \E timeout \in Timeouts \cup {FOREVER} : RecvBlock(filter, timeout)
         \/ PollTimeout \/ PollReceive \/ Broadcast
  PROVE  Stays
<1>0. /\ Here \in Slots /\ Me \in PcbType /\ pcb \in [Slots -> PcbType] /\ Me = pcb[Here]
      /\ pcb \in TableType
      /\ nextPid \in Nat
  BY HereIn DEF TypeOK, Me, TableType
<1>1. \A pid \in Pids : pid \in Nat /\ SlotOf(pid) \in Slots BY PidsAreNat, SlotOfIn
<1>2. Executing => pcb[Here].state # "UNUSED"
  BY DEF Executing, Exists, Here
<1>3. ASSUME NEW pid \in Pids, SpawnNoStack(pid) PROVE Stays
  BY <1>0, <1>1, <1>3 DEF SpawnNoStack, IsNextFree, Stays
<1>4. ASSUME NEW pid \in Pids, Wait(pid) PROVE Stays
  <2> DEFINE p == [pcb[Here] EXCEPT !.state = "BLOCKED", !.waiting = pid]
  <2>1. pcb' = [pcb EXCEPT ![Here] = p] BY <1>0, <1>1, <1>4, BlockAtType DEF Wait
  <2>2. p.state = "BLOCKED" /\ p.pid = pcb[Here].pid /\ p.agent = pcb[Here].agent
    BY <1>0 DEF PcbType
  <2> HIDE DEF p
  <2> QED BY <1>0, <1>2, <1>4, <2>1, <2>2, StaysWhenRewritten DEF Wait, Calling
<1>5. ASSUME NEW pid \in Pids, BcLoad(pid) PROVE Stays
  <2> DEFINE p == [pcb[SlotOf(pid)] EXCEPT !.bc = TRUE]
  <2>1. pcb' = [pcb EXCEPT ![SlotOf(pid)] = p] /\ pcb[SlotOf(pid)].state # "UNUSED"
    BY <1>5 DEF BcLoad, Exists
  <2>2. /\ p.state = pcb[SlotOf(pid)].state /\ p.pid = pcb[SlotOf(pid)].pid
        /\ p.agent = pcb[SlotOf(pid)].agent
    BY <1>0, <1>1 DEF PcbType
  <2> HIDE DEF p
  <2> QED BY <1>1, <1>5, <2>1, <2>2, StaysWhenRewritten DEF BcLoad
<1>6. ASSUME NEW pid \in Pids, BcExec(pid) PROVE Stays
  BY <1>0, <1>1, <1>6 DEF BcExec, Exists, Stays, PcbType
<1>7. ASSUME NEW pid \in Pids, NEW prio \in Priorities, SetPriority(pid, prio) PROVE Stays
  BY <1>0, <1>1, <1>7 DEF SetPriority, Stays, PcbType
<1>8. ASSUME NEW pid \in Pids, Send(pid) PROVE Stays
  <2>1. CASE WokenBySend(pcb[SlotOf(pid)])
    <3> DEFINE p == Woken(pcb[SlotOf(pid)])
    <3>1. pcb' = [pcb EXCEPT ![SlotOf(pid)] = p] /\ pcb[SlotOf(pid)].state # "UNUSED"
      BY <1>8, <2>1 DEF Send, Exists
    <3>2. /\ p.state = "READY" /\ p.pid = pcb[SlotOf(pid)].pid
          /\ p.agent = pcb[SlotOf(pid)].agent
      BY <1>0, <1>1 DEF Woken, PcbType
    <3> HIDE DEF p
    <3> QED BY <1>1, <1>8, <3>1, <3>2, StaysWhenRewritten DEF Send
  <2>2. CASE ~WokenBySend(pcb[SlotOf(pid)])
    BY <1>8, <2>2, StaysWhenUnchanged DEF Send
  <2> QED BY <2>1, <2>2
<1>9. ASSUME NEW st \in {"AGENT_IDLE", "AGENT_THINKING"}, SetState(st) PROVE Stays
  BY <1>0, <1>2, <1>9 DEF SetState, Calling, Stays, PcbType
<1>10. CASE Yield
  <2> DEFINE pcbs == IF Me.state = "RUNNING"
                     THEN [pcb EXCEPT ![Here].state = "READY"] ELSE pcb
  <2>1. pcb' = EnqueuePcb(pcbs, ring, kcur) BY <1>10 DEF Yield
  <2>2. /\ pcbs \in TableType
        /\ \A i \in Slots : /\ pcbs[i].state = "UNUSED" <=> pcb[i].state = "UNUSED"
                            /\ pcbs[i].pid = pcb[i].pid /\ pcbs[i].agent = pcb[i].agent
                            /\ pcbs[i].bc = pcb[i].bc
    BY <1>0 DEF TableType, PcbType, States
  <2> HIDE DEF pcbs
  <2>3. \A i \in Slots : /\ pcb'[i].state = "UNUSED" <=> pcbs[i].state = "UNUSED"
                         /\ pcb'[i].pid = pcbs[i].pid /\ pcb'[i].agent = pcbs[i].agent
                         /\ pcb'[i].bc = pcbs[i].bc
    BY <2>1, <2>2 DEF EnqueuePcb, TableType, PcbType
  <2>4. \A i \in Slots : /\ pcb'[i].state = "UNUSED" <=> pcb[i].state = "UNUSED"
                         /\ pcb'[i].pid = pcb[i].pid
                         /\ pcb'[i].agent = pcb[i].agent
                         /\ pcb'[i].bc = pcb[i].bc
    BY <2>2, <2>3
  <2>5. UNCHANGED <<nextPid, activeCount, agentCount, numProcs>> BY <1>10 DEF Yield
  <2> QED BY <1>0, <2>4, <2>5 DEF Stays
<1>11. ASSUME NEW filter \in Filters, RecvNow(filter) PROVE Stays
  BY <1>11, StaysWhenUnchanged DEF RecvNow, procVars
<1>12. ASSUME NEW filter \in Filters, NEW timeout, RecvBlock(filter, timeout) PROVE Stays
  <2> DEFINE p == [pcb[Here] EXCEPT !.state = "BLOCKED", !.waiting = filter]
  <2>0. filter \in Nat BY KernelAssumption
  <2>1. pcb' = [pcb EXCEPT ![Here] = p] BY <1>0, <1>12, <2>0, BlockAtType DEF RecvBlock
  <2>2. p.state = "BLOCKED" /\ p.pid = pcb[Here].pid /\ p.agent = pcb[Here].agent
    BY <1>0 DEF PcbType
  <2> HIDE DEF p
  <2> QED BY <1>0, <1>2, <1>12, <2>1, <2>2, StaysWhenRewritten DEF RecvBlock, Calling
<1>13. CASE PollTimeout
  <2>1. CASE Me.state = "BLOCKED"
    <3> DEFINE p == Woken(pcb[Here])
    <3>1. pcb' = [pcb EXCEPT ![Here] = p] BY <1>13, <2>1 DEF PollTimeout
    <3>2. p.state = "READY" /\ p.pid = pcb[Here].pid /\ p.agent = pcb[Here].agent
      BY <1>0 DEF Woken, PcbType
    <3> HIDE DEF p
    <3> QED BY <1>0, <1>13, <2>1, <3>1, <3>2, StaysWhenRewritten DEF PollTimeout
  <2>2. CASE Me.state # "BLOCKED"
    BY <1>13, <2>2, StaysWhenUnchanged DEF PollTimeout
  <2> QED BY <2>1, <2>2
<1>14. CASE PollReceive
  BY <1>0, <1>14 DEF PollReceive, Polling, Exists, Here, Stays, PcbType
<1>15. CASE Broadcast
  BY <1>0, <1>15, BroadcastPcbOk DEF Broadcast, Stays
<1> QED BY <1>3, <1>4, <1>5, <1>6, <1>7, <1>8, <1>9, <1>10, <1>11, <1>12, <1>13, <1>14, <1>15

LEMMA CleanupLeaves ==
  ASSUME TypeOK, NEW pcbs \in TableType, NEW i \in Slots, Cleanup(pcbs, i),
         pcb[i].state # "UNUSED",
         \A j \in Slots : /\ pcbs[j].state = "UNUSED" <=> pcb[j].state = "UNUSED"
                          /\ pcbs[j].pid = pcb[j].pid
                          /\ pcbs[j].agent = pcb[j].agent
                          /\ pcbs[j].bc = pcb[j].bc
  PROVE  Leaves(i)
<1> DEFINE p == CleanPcb(pcbs[i])
<1>1. p.state = "UNUSED" /\ p.pid = INVALID /\ p.agent = FALSE /\ p.bc = FALSE
  BY DEF CleanPcb, TableType, PcbType
<1>2. pcb' = [pcbs EXCEPT ![i] = p] BY DEF Cleanup
<1> HIDE DEF p
<1>3. /\ pcb'[i] = p
      /\ \A j \in Slots \ {i} : pcb'[j] = pcbs[j]
  BY <1>2 DEF TableType
<1>4. AgentWeight(pcbs[i]) = IF pcb[i].agent THEN 1 ELSE 0 BY DEF AgentWeight
<1>5. /\ agentCount' = agentCount - (IF pcb[i].agent THEN 1 ELSE 0)
      /\ activeCount' = activeCount - 1 /\ numProcs' = activeCount - 1
      /\ nextPid' = nextPid
  BY <1>4 DEF Cleanup
<1> QED BY <1>1, <1>3, <1>5 DEF Leaves

LEMMA SpawnArrives ==
  ASSUME TypeOK, NEW pid \in Pids, NEW agent \in BOOLEAN, Spawn(pid, agent)
  PROVE  Arrives(pid, agent)
<1> DEFINE p == SpawnedPcb(pid, kcur, agent)
<1>1. p.state = "READY" /\ p.pid = pid /\ p.agent = agent
  BY DEF SpawnedPcb, UnusedPcb
<1>2. pcb' = [pcb EXCEPT ![SlotOf(pid)] = p] BY DEF Spawn
<1> HIDE DEF p
<1>3. pid \in Nat /\ SlotOf(pid) \in Slots BY PidsAreNat, SlotOfIn
<1>4. /\ pcb'[SlotOf(pid)] = p
      /\ \A j \in Slots \ {SlotOf(pid)} : pcb'[j] = pcb[j]
  BY <1>2, <1>3 DEF TypeOK
<1>5. /\ pid >= nextPid /\ nextPid' = pid + 1 /\ pcb[SlotOf(pid)].state = "UNUSED"
      /\ agentCount' = agentCount + (IF agent THEN 1 ELSE 0)
      /\ activeCount' = activeCount + 1 /\ numProcs' = activeCount + 1
  BY DEF Spawn, IsNextFree
<1> QED BY <1>1, <1>3, <1>4, <1>5 DEF Arrives

\* Every step keeps the population, adds one process or removes one.
LEMMA PopulationStep ==
  ASSUME TypeOK, [Next]_vars
  PROVE  \/ Stays
         \/ \E i \in Slots : Leaves(i)
         \/ \E pid \in Pids, agent \in BOOLEAN : Arrives(pid, agent)
<1>1. CASE Tick BY <1>1, TickStays
<1>2. CASE Exit
  <2>1. Here \in Slots /\ pcb[Here].state # "UNUSED"
    BY <1>2, HereIn DEF Exit, Calling, Executing, Exists, Here
  <2>2. Cleanup(ParentAfterExit, Here) BY <1>2 DEF Exit
  <2> QED BY <2>1, <2>2, ParentAfterExitOk, CleanupLeaves
<1>3. ASSUME NEW pid \in Pids, Kill(pid) PROVE \E i \in Slots : Leaves(i)
  <2>1. SlotOf(pid) \in Slots /\ pcb \in TableType /\ pcb[SlotOf(pid)].state # "UNUSED"
    BY <1>3, PidsAreNat, SlotOfIn DEF Kill, Exists, TypeOK, TableType
  <2>2. Cleanup(pcb, SlotOf(pid)) BY <1>3 DEF Kill
  <2> QED BY <2>1, <2>2, CleanupLeaves
<1>4. ASSUME NEW pid \in Pids, NEW agent \in AgentKinds, Spawn(pid, agent)
      PROVE  agent \in BOOLEAN /\ Arrives(pid, agent)
  BY <1>4, SpawnArrives, KernelAssumption
<1>5. CASE UNCHANGED vars
  BY <1>5, StaysWhenUnchanged DEF vars, procVars
<1>6. CASE \/ \E pid \in Pids : \/ SpawnNoStack(pid) \/ Wait(pid) \/ BcLoad(pid) \/ BcExec(pid)
                                \/ \E prio \in Priorities : SetPriority(pid, prio)
                                \/ Send(pid)
           \/ \E st \in {"AGENT_IDLE", "AGENT_THINKING"} : SetState(st)
           \/ Yield
           \/ \E filter \in Filters :
                 \/ RecvNow(filter)
                 \/ \E timeout \in Timeouts \cup {FOREVER} : RecvBlock(filter, timeout)
           \/ PollTimeout \/ PollReceive \/ Broadcast
  BY <1>6, CallsStay
<1> QED BY <1>1, <1>2, <1>3, <1>4, <1>5, <1>6 DEF Next

\* A live process sits in the slot its PID maps to, with a PID that was handed
\* out, so no two live processes share one; a free slot keeps no trace of its
\* last owner (proc_allocate_pid, flux_spawn, proc_cleanup).
THEOREM PidsAreValid == Spec => []PidsValid
<1>1. Init => PidsValid
  <2> SUFFICES ASSUME Init, NEW i \in Slots
               PROVE  IF pcb[i].state = "UNUSED"
                      THEN ~pcb[i].agent /\ pcb[i].pid = INVALID /\ ~pcb[i].bc
                      ELSE /\ pcb[i].pid \in 1 .. nextPid - 1
                           /\ SlotOf(pcb[i].pid) = i
    BY DEF PidsValid
  <2>1. CASE i = 0
    <3>1. pcb[0] = KernelPcb /\ nextPid = 2 BY <2>1 DEF Init, ProcInit
    <3>2. KernelPcb.state = "RUNNING" /\ KernelPcb.pid = KERNEL
      BY DEF KernelPcb, UnusedPcb
    <3>3. KERNEL \in 1 .. nextPid - 1 BY <3>1 DEF KERNEL
    <3> QED BY <2>1, <3>1, <3>2, <3>3, SlotOfKernel
  <2>2. CASE i # 0
    BY <2>2 DEF Init, ProcInit, UnusedPcb
  <2> QED BY <2>1, <2>2
<1>2. TypeOK /\ PidsValid /\ [Next]_vars => PidsValid'
  <2> SUFFICES ASSUME TypeOK, PidsValid, [Next]_vars PROVE PidsValid'
    OBVIOUS
  <2>1. CASE Stays BY <2>1 DEF Stays, PidsValid, TypeOK, SlotOf
  <2>2. ASSUME NEW i \in Slots, Leaves(i) PROVE PidsValid'
    BY <2>2 DEF Leaves, PidsValid, SlotOf
  <2>3. ASSUME NEW pid \in Pids, NEW agent \in BOOLEAN, Arrives(pid, agent) PROVE PidsValid'
    <3>1. pid \in 1 .. nextPid' - 1 /\ nextPid' > nextPid /\ nextPid' \in Nat /\ nextPid \in Nat
      BY <2>3 DEF Arrives, Pids, TypeOK
    <3> SUFFICES ASSUME NEW i \in Slots
                 PROVE  IF pcb'[i].state = "UNUSED"
                        THEN ~pcb'[i].agent /\ pcb'[i].pid = INVALID /\ ~pcb'[i].bc
                        ELSE /\ pcb'[i].pid \in 1 .. nextPid' - 1
                             /\ SlotOf(pcb'[i].pid) = i
      BY DEF PidsValid, SlotOf
    <3>2. CASE i = SlotOf(pid) BY <2>3, <3>1, <3>2 DEF Arrives
    <3>3. CASE i # SlotOf(pid) BY <2>3, <3>1, <3>3 DEF Arrives, PidsValid
    <3> QED BY <3>2, <3>3
  <2> QED BY <2>1, <2>2, <2>3, PopulationStep
<1>3. Spec => []TypeOK BY TypesAndShape, PTL DEF WellFormed
<1> QED BY <1>1, <1>2, <1>3, PTL DEF Spec

\* A process that appears in a slot has a PID that no process had before:
\* PIDs are taken from a watermark that only grows (proc_allocate_pid).
THEOREM PidsAreFresh == Spec => PidsFresh
<1>1. TypeOK /\ [Next]_vars => [FreshPid]_vars
  BY PopulationStep DEF Stays, Leaves, Arrives, TypeOK, FreshPid
<1>2. Spec => []TypeOK BY TypesAndShape, PTL DEF WellFormed
<1> QED BY <1>1, <1>2, PTL DEF Spec, PidsFresh

\* flux_proc_count, flux_agent_count and the mirror in the kernel state are the
\* numbers of processes and agents in the table, whatever spawns, exits and
\* kills happened.
THEOREM CountsAgree == Spec => []Counts
<1>0. IsFiniteSet(Slots) /\ \A t : Used(t) \in SUBSET Slots /\ Agents(t) \in SUBSET Slots
  BY FS_Interval, ProcAssumption DEF Slots, Used, Agents
<1>f. \A t : /\ IsFiniteSet(Used(t)) /\ IsFiniteSet(Agents(t))
             /\ Cardinality(Used(t)) \in Nat /\ Cardinality(Agents(t)) \in Nat
  BY <1>0, FS_Subset, FS_CardinalityType
<1>1. Init => Counts
  <2> SUFFICES ASSUME Init PROVE Counts
    OBVIOUS
  <2>1. Used(pcb) = {0}
    BY ProcAssumption DEF Init, ProcInit, Used, Slots, KernelPcb, UnusedPcb
  <2>2. Agents(pcb) = {}
    BY DEF Init, ProcInit, Agents, Slots, KernelPcb, UnusedPcb
  <2>3. Cardinality({0}) = 1 /\ Cardinality({}) = 0 BY FS_Singleton, FS_EmptySet
  <2> QED BY <2>1, <2>2, <2>3 DEF Init, ProcInit, Counts
<1>2. TypeOK /\ PidsValid /\ Counts /\ [Next]_vars => Counts'
  <2> SUFFICES ASSUME TypeOK, PidsValid, Counts, [Next]_vars PROVE Counts'
    OBVIOUS
  <2>1. CASE Stays
    <3>1. Used(pcb') = Used(pcb) /\ Agents(pcb') = Agents(pcb)
      BY <2>1 DEF Stays, Used, Agents
    <3> QED BY <2>1, <3>1 DEF Stays, Counts
  <2>2. ASSUME NEW i \in Slots, Leaves(i) PROVE Counts'
    <3>1. Used(pcb') = Used(pcb) \ {i} /\ i \in Used(pcb)
      BY <2>2 DEF Leaves, Used
    <3>2. Agents(pcb') = Agents(pcb) \ {i} /\ (i \in Agents(pcb) <=> pcb[i].agent)
      BY <2>2 DEF Leaves, Agents
    <3>3. Cardinality(Used(pcb')) = Cardinality(Used(pcb)) - 1
      BY <1>f, <3>1, FS_RemoveElement
    <3>4. Cardinality(Agents(pcb')) = Cardinality(Agents(pcb)) - (IF pcb[i].agent THEN 1 ELSE 0)
      <4>1. Cardinality(Agents(pcb) \ {i}) = IF i \in Agents(pcb) THEN Cardinality(Agents(pcb)) - 1
                                                                  ELSE Cardinality(Agents(pcb))
        BY <1>f, FS_RemoveElement
      <4> QED BY <1>f, <3>2, <4>1
    <3> QED BY <2>2, <3>3, <3>4 DEF Leaves, Counts
  <2>3. ASSUME NEW pid \in Pids, NEW agent \in BOOLEAN, Arrives(pid, agent) PROVE Counts'
    <3> DEFINE i == SlotOf(pid)
    <3>1. i \in Slots BY PidsAreNat, SlotOfIn
    <3>2. Used(pcb') = Used(pcb) \cup {i} /\ i \notin Used(pcb)
      BY <2>3, <3>1 DEF Arrives, Used
    <3>3. i \notin Agents(pcb) BY <2>3, <3>1 DEF Arrives, PidsValid, Agents
    <3>4. Agents(pcb') = IF agent THEN Agents(pcb) \cup {i} ELSE Agents(pcb)
      BY <2>3, <3>1, <3>3 DEF Arrives, Agents
    <3>5. Cardinality(Used(pcb')) = Cardinality(Used(pcb)) + 1
      BY <1>f, <3>2, FS_AddElement
    <3>6. Cardinality(Agents(pcb')) = Cardinality(Agents(pcb)) + (IF agent THEN 1 ELSE 0)
      <4>1. Cardinality(Agents(pcb) \cup {i}) = IF i \in Agents(pcb) THEN Cardinality(Agents(pcb))
                                                                     ELSE Cardinality(Agents(pcb)) + 1
        BY <1>f, FS_AddElement
      <4>2. CASE agent BY <1>f, <3>3, <3>4, <4>1, <4>2
      <4>3. CASE ~agent BY <1>f, <3>4, <4>3
      <4> QED BY <4>2, <4>3
    <3> QED BY <2>3, <3>5, <3>6 DEF Arrives, Counts
  <2> QED BY <2>1, <2>2, <2>3, PopulationStep
<1>3. Spec => []TypeOK /\ []PidsValid BY TypesAndShape, PidsAreValid, PTL DEF WellFormed
<1> QED BY <1>1, <1>2, <1>3, PTL DEF Spec
-----------------------------------------------------------------------------
(* Messaging.                                                               *)

\* One inbox, below a bound n on the sequence numbers given out.
Ordered(q, n) ==
    /\ Len(q) <= QueueDepth
    /\ \A j, k \in DOMAIN q : j < k => q[j].id < q[k].id
    /\ \A k \in DOMAIN q : q[k].id < n

LEMMA MsgIds ==
  ASSUME NEW q \in Seq(MsgType)
  PROVE  \A k \in DOMAIN q : q[k].id \in Nat
<1>1. \A k \in DOMAIN q : q[k] \in MsgType OBVIOUS
<1>2. \A m \in MsgType : m.id \in Nat BY DEF MsgType
<1> QED BY <1>1, <1>2

LEMMA OrderedMore ==
  ASSUME NEW q \in Seq(MsgType), NEW n \in Nat, Ordered(q, n)
  PROVE  Ordered(q, n + 1)
<1> QED BY MsgIds DEF Ordered

LEMMA OrderedAppend ==
  ASSUME NEW q \in Seq(MsgType), NEW n \in Nat, NEW m \in MsgType,
         m.id = n, Ordered(q, n), ~IsFull(q)
  PROVE  Ordered(Append(q, m), n + 1)
<1> DEFINE q2 == Append(q, m)
<1>1. /\ Len(q) \in Nat /\ DOMAIN q = 1 .. Len(q)
      /\ Len(q2) = Len(q) + 1 /\ DOMAIN q2 = 1 .. Len(q) + 1
      /\ q2[Len(q) + 1] = m
      /\ \A k \in 1 .. Len(q) : q2[k] = q[k]
  OBVIOUS
<1>2. \A k \in 1 .. Len(q) : q[k].id \in Nat /\ q[k].id < n
  BY <1>1, MsgIds DEF Ordered
<1>3. Len(q2) <= QueueDepth BY <1>1, IpcAssumption DEF IsFull
<1> HIDE DEF q2
<1>4. ASSUME NEW j \in DOMAIN q2, NEW k \in DOMAIN q2, j < k PROVE q2[j].id < q2[k].id
  <2>1. j \in 1 .. Len(q) BY <1>1, <1>4
  <2>2. CASE k \in 1 .. Len(q) BY <1>1, <1>4, <2>1, <2>2 DEF Ordered
  <2>3. CASE k = Len(q) + 1 BY <1>1, <1>2, <2>1, <2>3
  <2> QED BY <1>1, <2>2, <2>3
<1>5. ASSUME NEW k \in DOMAIN q2 PROVE q2[k].id < n + 1
  <2>1. CASE k \in 1 .. Len(q) BY <1>1, <1>2, <2>1
  <2>2. CASE k = Len(q) + 1 BY <1>1, <2>2
  <2> QED BY <1>1, <2>1, <2>2
<1> QED BY <1>3, <1>4, <1>5 DEF Ordered, q2

LEMMA OrderedRemove ==
  ASSUME NEW q \in Seq(MsgType), NEW n \in Nat, NEW i \in DOMAIN q, Ordered(q, n)
  PROVE  Ordered(RemoveAt(q, i), n)
<1> DEFINE q2 == RemoveAt(q, i)
<1>1. /\ Len(q) \in Nat /\ DOMAIN q = 1 .. Len(q) /\ i \in 1 .. Len(q)
      /\ q2 \in Seq(MsgType) /\ Len(q2) = Len(q) - 1
      /\ \A j \in 1 .. Len(q) - 1 : q2[j] = IF j < i THEN q[j] ELSE q[j + 1]
  BY RemoveAtOk
<1> HIDE DEF q2
<1>2. DOMAIN q2 = 1 .. Len(q) - 1 BY <1>1
<1> DEFINE old(j) == IF j < i THEN j ELSE j + 1
<1>3. \A j \in DOMAIN q2 : old(j) \in DOMAIN q /\ q2[j] = q[old(j)]
  BY <1>1, <1>2
<1>4. \A j, k \in DOMAIN q2 : j < k => old(j) < old(k)
  BY <1>1, <1>2
<1>5. Len(q2) <= QueueDepth BY <1>1, IpcAssumption DEF Ordered
<1> HIDE DEF old
<1> QED BY <1>3, <1>4, <1>5 DEF Ordered, q2

LEMMA TakeMatchOrdered ==
  ASSUME TypeOK, InboxOrdered, NEW pid, NEW filter, TakeMatch(pid, filter), msgId' = msgId
  PROVE  InboxOrdered'
<1>1. PICK k \in DOMAIN inbox[pid] : inbox' = [inbox EXCEPT ![pid] = RemoveAt(@, k)]
  BY DEF TakeMatch
<1>2. \A p \in Inboxes : inbox[p] \in Seq(MsgType) /\ Ordered(inbox[p], msgId)
  BY DEF TypeOK, InboxOrdered, Ordered
<1>3. ASSUME pid \in Inboxes PROVE Ordered(RemoveAt(inbox[pid], k), msgId)
  BY <1>2, <1>3, OrderedRemove DEF TypeOK
<1>4. \A p \in Inboxes : Ordered(inbox'[p], msgId)
  BY <1>1, <1>2, <1>3 DEF TypeOK
<1> QED BY <1>4 DEF InboxOrdered, Ordered

\* The messages of an inbox wait in the order they were sent, each once, and
\* never more of them than the queue has slots (flux_a2a_send,
\* flux_a2a_broadcast, flux_a2a_recv).
THEOREM InboxesOrdered == Spec => []InboxOrdered
<1>1. Init => InboxOrdered
  BY IpcAssumption DEF Init, IpcInit, InboxOrdered
<1>2. TypeOK /\ InboxOrdered /\ [Next]_vars => InboxOrdered'
  <2> SUFFICES ASSUME TypeOK, InboxOrdered, [Next]_vars PROVE InboxOrdered'
    OBVIOUS
  <2>0. /\ \A p \in Inboxes : inbox[p] \in Seq(MsgType) /\ Ordered(inbox[p], msgId)
        /\ msgId \in Nat /\ kcur \in Nat
    BY DEF TypeOK, InboxOrdered, Ordered
  <2>1. ASSUME NEW target \in Pids, Send(target) PROVE InboxOrdered'
    <3>1. Msg(kcur, target) \in MsgType /\ Msg(kcur, target).id = msgId
      BY <2>0, PidsAreNat, MsgOk DEF Msg
    <3>2. target \in Inboxes /\ Ordered(Append(inbox[target], Msg(kcur, target)), msgId + 1)
      BY <2>0, <2>1, <3>1, OrderedAppend DEF Send, HasInbox
    <3>3. \A p \in Inboxes : Ordered(inbox'[p], msgId + 1)
      BY <2>0, <2>1, <3>2, OrderedMore DEF Send, TypeOK
    <3> QED BY <2>1, <3>3 DEF Send, InboxOrdered, Ordered
  <2>2. CASE Broadcast
    <3>1. Msg(kcur, INVALID) \in MsgType /\ Msg(kcur, INVALID).id = msgId
      BY <2>0, PidsAreNat, MsgOk DEF Msg
    <3>2. ASSUME NEW p \in Inboxes PROVE Ordered(inbox'[p], msgId + 1)
      <4>1. CASE p \in BroadcastTargets(kcur)
        <5>1. ~IsFull(inbox[p]) BY <4>1 DEF BroadcastTargets
        <5>2. inbox'[p] = Append(inbox[p], Msg(kcur, INVALID)) BY <2>2, <4>1 DEF Broadcast
        <5> QED BY <2>0, <3>1, <5>1, <5>2, OrderedAppend
      <4>2. CASE p \notin BroadcastTargets(kcur)
        <5>1. inbox'[p] = inbox[p] BY <2>2, <4>2 DEF Broadcast
        <5> QED BY <2>0, <5>1, OrderedMore
      <4> QED BY <4>1, <4>2
    <3> QED BY <2>2, <3>2 DEF Broadcast, InboxOrdered, Ordered
  <2>3. ASSUME NEW filter, RecvNow(filter) PROVE InboxOrdered'
    BY <2>3, TakeMatchOrdered DEF RecvNow
  <2>4. CASE PollReceive
    BY <2>4, TakeMatchOrdered DEF PollReceive
  <2>5. CASE UNCHANGED <<inbox, msgId>>
    BY <2>5 DEF InboxOrdered
  <2>6. \/ \E target \in Pids : Send(target)
        \/ Broadcast
        \/ \E filter \in Filters : RecvNow(filter)
        \/ PollReceive
        \/ UNCHANGED <<inbox, msgId>>
    BY DEF Next, Tick, Spawn, SpawnNoStack, Exit, Kill, Cleanup, Wait, Yield, SetPriority,
           SetState, BcLoad, BcExec, RecvBlock, PollTimeout, vars, ipcVars
  <2> QED BY <2>1, <2>2, <2>3, <2>4, <2>5, <2>6
<1>3. Spec => []TypeOK BY TypesAndShape, PTL DEF WellFormed
<1> QED BY <1>1, <1>2, <1>3, PTL DEF Spec

-----------------------------------------------------------------------------
(* Messages are delivered and taken in order.                               *)

LEMMA MatchTaken ==
  ASSUME TypeOK, NEW p \in Inboxes, NEW filter, TakeMatch(Receiver, filter),
         msgId' = msgId, inbox'[p] # inbox[p]
  PROVE  Taken(p)
<1>1. PICK k \in DOMAIN inbox[Receiver] :
        /\ IsFirstMatch(inbox[Receiver], filter, k)
        /\ inbox' = [inbox EXCEPT ![Receiver] = RemoveAt(@, k)]
  BY DEF TakeMatch
<1>2. p = Receiver /\ inbox'[p] = RemoveAt(inbox[p], k) BY <1>1 DEF TypeOK
<1>3. inbox[p] \in Seq(MsgType) BY DEF TypeOK
<1>4. k \in 1 .. Len(inbox[p]) /\ Len(inbox[p]) \in Nat BY <1>1, <1>2, <1>3
<1>5. ASSUME NEW j \in 1 .. k - 1 PROVE inbox[p][j].from # inbox[p][k].from
  <2>1. j \in DOMAIN inbox[p] /\ ~(k <= j) BY <1>3, <1>4, <1>5
  <2>2. ~Matches(inbox[p][j], filter) /\ Matches(inbox[p][k], filter)
    BY <1>1, <1>2, <2>1 DEF IsFirstMatch
  <2> QED BY <2>2 DEF Matches
<1> QED BY <1>1, <1>2, <1>5 DEF Taken

\* Every inbox grows by new messages at its end and shrinks by its owner
\* taking a message that no earlier one of the same sender precedes
\* (flux_a2a_send, flux_a2a_broadcast, flux_a2a_recv).
THEOREM DisciplineKept == Spec => MailboxDiscipline
<1>1. ASSUME TypeOK, [Next]_vars, NEW p \in Inboxes, inbox'[p] # inbox[p]
      PROVE  Delivered(p) \/ Taken(p)
  <2>1. CASE \E target \in Pids : Send(target)
    <3>1. PICK target \in Pids : Send(target) BY <2>1
    <3>2. inbox' = [inbox EXCEPT ![target] = Append(@, Msg(kcur, target))]
          /\ msgId' = msgId + 1
      BY <3>1 DEF Send
    <3>3. p = target /\ inbox'[p] = Append(inbox[p], Msg(kcur, p))
      BY <1>1, <3>2 DEF TypeOK
    <3> QED BY <3>2, <3>3 DEF Delivered
  <2>2. CASE Broadcast
    <3>1. inbox'[p] = Append(inbox[p], Msg(kcur, INVALID)) /\ msgId' = msgId + 1
      BY <1>1, <2>2 DEF Broadcast
    <3> QED BY <3>1 DEF Delivered
  <2>3. CASE \E filter \in Filters : RecvNow(filter)
    <3>1. PICK filter : RecvNow(filter) BY <2>3
    <3>2. Receiver = kcur BY <3>1 DEF RecvNow, Calling, Executing, Receiver
    <3>3. TakeMatch(Receiver, filter) /\ msgId' = msgId BY <3>1, <3>2 DEF RecvNow
    <3> QED BY <1>1, <3>3, MatchTaken
  <2>4. CASE PollReceive
    <3>1. Receiver = waiter[Here].pid BY <2>4 DEF PollReceive, Polling, Receiver
    <3>2. TakeMatch(Receiver, waiter[Here].filter) /\ msgId' = msgId
      BY <2>4, <3>1 DEF PollReceive
    <3> QED BY <1>1, <3>2, MatchTaken
  <2>5. CASE UNCHANGED <<inbox, msgId>> BY <1>1, <2>5
  <2>6. \/ \E target \in Pids : Send(target)
        \/ Broadcast
        \/ \E filter \in Filters : RecvNow(filter)
        \/ PollReceive
        \/ UNCHANGED <<inbox, msgId>>
    BY <1>1 DEF Next, Tick, Spawn, SpawnNoStack, Exit, Kill, Cleanup, Wait, Yield, SetPriority,
           SetState, BcLoad, BcExec, RecvBlock, PollTimeout, vars, ipcVars
  <2> QED BY <2>1, <2>2, <2>3, <2>4, <2>5, <2>6
<1>2. TypeOK /\ [Next]_vars => [InTurn]_vars BY <1>1 DEF InTurn
<1>3. Spec => []TypeOK BY TypesAndShape, PTL DEF WellFormed
<1> QED BY <1>2, <1>3, PTL DEF Spec, MailboxDiscipline

-----------------------------------------------------------------------------
(* A switch takes the first entry of the highest priority.                  *)

LEMMA RingSeqIs ==
  ASSUME NEW r \in RingType
  PROVE  /\ RingSeq(r) \in Seq(EntryType)
         /\ Len(RingSeq(r)) = r.count /\ DOMAIN RingSeq(r) = 1 .. r.count
         /\ \A k \in 1 .. r.count : RingSeq(r)[k] = EntryAt(r, k - 1)
<1>1. r.count \in Nat BY DEF RingType
<1>2. ASSUME NEW k \in 1 .. r.count PROVE EntryAt(r, k - 1) \in EntryType
  BY <1>1, <1>2, EntryAtType
<1> QED BY <1>1, <1>2 DEF RingSeq

LEMMA ModBelow ==
  \A n \in Nat \ {0} : \A i \in 1 .. n - 1 : (-i) % n = n - i
  OBVIOUS

\* flux_sched_dequeue closes the gap: of a window that does not wrap the one
\* entry is removed and the others stay in their order.
LEMMA RemoveSlotIs ==
  ASSUME NEW r \in RingType, r.head + r.count <= QueueSize, NEW k \in Positions(r)
  PROVE  RingSeq(RemoveSlot(r, SlotAt(r, k))) = RemoveAt(RingSeq(r), k + 1)
<1> DEFINE b == SlotAt(r, k)
           new == RemoveSlot(r, b)
           s == RingSeq(r)
<1>1. /\ QueueSize \in Nat \ {0} /\ r.head \in 0 .. QueueSize - 1
      /\ r.count \in 0 .. QueueSize /\ k \in 0 .. r.count - 1
      /\ r.slots \in [RingIdx -> EntryType]
  BY QueueSizeAssumption DEF RingType, RingIdx, Positions
<1>2. \A j \in 0 .. r.count - 1 : SlotAt(r, j) = r.head + j /\ r.head + j \in RingIdx
  <2>1. ASSUME NEW j \in 0 .. r.count - 1
        PROVE  SlotAt(r, j) = r.head + j /\ r.head + j \in RingIdx
    <3>1. r.head + j \in 0 .. QueueSize - 1 BY <1>1, <2>1
    <3>2. (r.head + j) % QueueSize = r.head + j BY <1>1, <3>1, ModSmall
    <3> QED BY <3>1, <3>2 DEF SlotAt, RingIdx
  <2> QED BY <2>1
<1>3. b = r.head + k /\ b \in RingIdx BY <1>1, <1>2
<1> HIDE DEF b
<1>4. new \in RingType /\ new.count = r.count - 1
  <2>1. new \in RingType BY <1>1, <1>3, RemoveSlotType
  <2>2. new.count = r.count - 1
    <3>1. CASE b = r.head BY <3>1 DEF RemoveSlot, RingType
    <3>2. CASE b # r.head BY <3>2 DEF RemoveSlot, RingType
    <3> QED BY <3>1, <3>2
  <2> QED BY <2>1, <2>2
<1>5. ASSUME NEW j \in 0 .. r.count - 2
      PROVE  EntryAt(new, j) = IF j < k THEN r.slots[r.head + j] ELSE r.slots[r.head + j + 1]
  <2>1. CASE b = r.head
    <3>1. k = 0 /\ ~(j < k) BY <1>1, <1>3, <2>1
    <3>2. r.head + 1 \in 0 .. QueueSize - 1 /\ (r.head + 1) + j \in 0 .. QueueSize - 1
      BY <1>1, <1>5
    <3>3. new.head = r.head + 1 /\ new.slots = r.slots
      BY <1>1, <2>1, <3>2, ModSmall DEF RemoveSlot, RingType
    <3>4. SlotAt(new, j) = r.head + j + 1
      BY <1>1, <3>2, <3>3, ModSmall DEF SlotAt
    <3> QED BY <3>1, <3>3, <3>4 DEF EntryAt
  <2>2. CASE b # r.head
    <3> DEFINE n == ShiftLength(r, b)
               i == r.head + j
               d == (i - b) % QueueSize
    <3>1. n = r.count - (k + 1) BY <1>1, <1>3 DEF ShiftLength
    <3>2. new.head = r.head /\ new.slots = Shifted(r.slots, b, n)
      BY <2>2 DEF RemoveSlot, RingType
    <3>3. i \in RingIdx /\ SlotAt(new, j) = i
      <4>1. i \in 0 .. QueueSize - 1 BY <1>1, <1>5
      <4>2. i % QueueSize = i BY <1>1, <4>1, ModSmall
      <4> HIDE DEF n
      <4>3. SlotAt(new, j) = i % QueueSize BY <3>2 DEF SlotAt
      <4> QED BY <4>1, <4>2, <4>3 DEF RingIdx
    <3>4. EntryAt(new, j) = IF d + QueueSize < n THEN r.slots[(b + (d + 2)) % QueueSize]
                            ELSE IF d >= n THEN r.slots[i]
                            ELSE IF d = QueueSize - 1 THEN r.slots[(b + 1) % QueueSize]
                            ELSE r.slots[(b + (d + 1)) % QueueSize]
      BY <3>2, <3>3 DEF EntryAt, Shifted
    <3>5. i - b = j - k BY <1>1, <1>3, <1>5
    <3>6. CASE j < k
      <4>1. d = QueueSize - (k - j)
        <5>1. k - j \in 1 .. QueueSize - 1 /\ i - b = -(k - j) BY <1>1, <1>5, <3>5, <3>6
        <5> QED BY <1>1, <5>1, ModBelow
      <4> HIDE DEF d, n
      <4>2. d >= n /\ ~(d + QueueSize < n) BY <1>1, <1>5, <3>1, <3>6, <4>1
      <4> QED BY <3>4, <3>6, <4>2
    <3>7. CASE ~(j < k)
      <4>1. d = j - k
        <5>1. j - k \in 0 .. QueueSize - 1 BY <1>1, <1>5, <3>7
        <5> QED BY <1>1, <3>5, <5>1, ModSmall
      <4> HIDE DEF d, n
      <4>2. ~(d >= n) /\ ~(d + QueueSize < n) /\ d # QueueSize - 1
        BY <1>1, <1>5, <3>1, <3>7, <4>1
      <4>3. b + (d + 1) = r.head + j + 1 /\ r.head + j + 1 \in 0 .. QueueSize - 1
        BY <1>1, <1>3, <1>5, <4>1
      <4>4. (b + (d + 1)) % QueueSize = r.head + j + 1 BY <1>1, <4>3, ModSmall
      <4> QED BY <3>4, <3>7, <4>2, <4>4
    <3> QED BY <3>6, <3>7
  <2> QED BY <2>1, <2>2
<1>6. /\ s \in Seq(EntryType) /\ Len(s) = r.count /\ DOMAIN s = 1 .. r.count
      /\ \A j \in 1 .. r.count : s[j] = r.slots[r.head + (j - 1)]
  <2>1. ASSUME NEW j \in 1 .. r.count PROVE EntryAt(r, j - 1) = r.slots[r.head + (j - 1)]
    BY <1>1, <1>2, <2>1 DEF EntryAt
  <2> QED BY <2>1, RingSeqIs
<1>7. /\ RingSeq(new) \in Seq(EntryType)
      /\ Len(RingSeq(new)) = r.count - 1 /\ DOMAIN RingSeq(new) = 1 .. r.count - 1
      /\ \A j \in 1 .. r.count - 1 : RingSeq(new)[j] = EntryAt(new, j - 1)
  BY <1>4, RingSeqIs
<1> HIDE DEF s, new
<1>8. /\ RemoveAt(s, k + 1) \in Seq(EntryType)
      /\ Len(RemoveAt(s, k + 1)) = r.count - 1
      /\ \A j \in 1 .. r.count - 1 :
            RemoveAt(s, k + 1)[j] = IF j < k + 1 THEN s[j] ELSE s[j + 1]
  <2>1. k + 1 \in DOMAIN s BY <1>1, <1>6
  <2> QED BY <1>6, <2>1, RemoveAtOk
<1>9. ASSUME NEW j \in 1 .. r.count - 1 PROVE RingSeq(new)[j] = RemoveAt(s, k + 1)[j]
  <2>1. /\ j - 1 \in 0 .. r.count - 2 /\ (j - 1 < k <=> j < k + 1)
        /\ r.head + (j - 1) + 1 = r.head + ((j + 1) - 1)
        /\ j \in 1 .. r.count /\ j + 1 \in 1 .. r.count
    BY <1>1, <1>9
  <2>2. EntryAt(new, j - 1) = IF j < k + 1 THEN s[j] ELSE s[j + 1]
    BY <1>5, <1>6, <2>1
  <2> QED BY <1>7, <1>8, <2>2
<1> QED BY <1>7, <1>8, <1>9 DEF s, new, b

LEMMA SwitchTakesBest ==
  ASSUME TypeOK, RingShape, SwitchTo, SwitchRing.head + SwitchRing.count <= QueueSize
  PROVE  SwitchInOrder
<1> DEFINE r == BoostRing(SwitchRing)
           s == RingSeq(r)
<1>1. SwitchRing \in RingType BY SwitchRingOk DEF TypeOK, TableType
<1>2. r \in RingType /\ r.count = SwitchRing.count /\ r.head = SwitchRing.head
  BY <1>1, BoostRingOk DEF BoostRing, RingType
<1>3. PICK k \in Positions(r) : /\ IsBest(r, k)
                               /\ schedCur' = EntryAt(r, k).pid
                               /\ ring' = RemoveSlot(r, SlotAt(r, k))
  BY DEF SwitchTo, SwitchToEntry
<1> HIDE DEF r
<1>4. /\ DOMAIN s = 1 .. r.count /\ r.count \in Nat /\ k \in 0 .. r.count - 1
      /\ \A j \in 1 .. r.count : s[j] = EntryAt(r, j - 1)
  BY <1>2, <1>3, RingSeqIs DEF RingType, Positions
<1>5. k + 1 \in DOMAIN s /\ s[k + 1] = EntryAt(r, k) BY <1>4
<1>6. RingSeq(ring') = RemoveAt(s, k + 1) BY <1>2, <1>3, RemoveSlotIs
<1> HIDE DEF s
<1>7. ASSUME NEW j \in DOMAIN s
      PROVE \/ s[j].prio < s[k + 1].prio
            \/ s[j].prio = s[k + 1].prio /\ k + 1 <= j
  <2>1. j - 1 \in Positions(r) /\ (k <= j - 1 => k + 1 <= j)
    BY <1>4, <1>7 DEF Positions
  <2>2. s[j] = EntryAt(r, j - 1) BY <1>4, <1>7
  <2> QED BY <1>3, <1>5, <2>1, <2>2 DEF IsBest
<1>8. TakesBest(s, k + 1) BY <1>3, <1>5, <1>6, <1>7 DEF TakesBest
<1> QED BY <1>5, <1>8 DEF SwitchInOrder, s, r

\* Whatever the positions and priorities, flux_sched_dequeue takes the first of
\* the highest priority and keeps the rest in order, in a window that does not
\* wrap around the array.
THEOREM HighestComesFirst == Spec => HighestFirst
<1>1. TypeOK /\ RingShape /\ [Next]_vars => [SwitchInOrder]_vars
  BY SwitchTakesBest DEF SwitchInOrder
<1>2. Spec => [](TypeOK /\ RingShape) BY TypesAndShape, PTL DEF WellFormed
<1> QED BY <1>1, <1>2, PTL DEF Spec, HighestFirst

-----------------------------------------------------------------------------
(* The closed forms of the loops.                                           *)

LEMMA ModNear ==
  \A n \in Nat \ {0} : \A b, d \in 0 .. n - 1 :
     /\ (b + d) % n \in 0 .. n - 1
     /\ (((b + d) % n) - b) % n = d
     /\ (b + (d + n)) % n = (b + d) % n
  OBVIOUS

LEMMA ModOffset ==
  \A n \in Nat \ {0} : \A b, i \in 0 .. n - 1 :
     (i - b) % n \in 0 .. n - 1 /\ (b + ((i - b) % n)) % n = i
  OBVIOUS

\* One more assignment of the loop makes of m assignments m + 1.
LEMMA ShiftedStep ==
  ASSUME NEW slots \in [RingIdx -> EntryType], NEW b \in RingIdx,
         NEW m \in 0 .. 2 * QueueSize - 3
  PROVE  Shifted(slots, b, m + 1)
           = [Shifted(slots, b, m) EXCEPT ![(b + m) % QueueSize] =
                 Shifted(slots, b, m)[(b + (m + 1)) % QueueSize]]
<1> DEFINE at(d) == (b + d) % QueueSize
           f == Shifted(slots, b, m)
           g == Shifted(slots, b, m + 1)
<1>1. QueueSize \in Nat \ {0} /\ b \in 0 .. QueueSize - 1
  BY QueueSizeAssumption DEF RingIdx
<1>2. ASSUME NEW n \in Int, NEW d \in 0 .. QueueSize - 1
      PROVE  Shifted(slots, b, n)[at(d)] =
                IF d + QueueSize < n THEN slots[at(d + 2)]
                ELSE IF d >= n THEN slots[at(d)]
                ELSE IF d = QueueSize - 1 THEN slots[at(1)]
                ELSE slots[at(d + 1)]
  <2>1. at(d) \in RingIdx /\ (at(d) - b) % QueueSize = d
    BY <1>1, ModNear DEF RingIdx
  <2> QED BY <2>1 DEF Shifted
<1>3. \A d \in 0 .. QueueSize - 1 : at(d + QueueSize) = at(d)
  BY <1>1, ModNear
<1>4. \A i \in RingIdx : \E d \in 0 .. QueueSize - 1 : i = at(d)
  BY <1>1, ModOffset DEF RingIdx
<1>5. \A d, e \in 0 .. QueueSize - 1 : at(d) = at(e) => d = e
  BY <1>1, ModDistinct
<1>6. \A d \in 0 .. QueueSize - 1 : at(d) \in RingIdx BY <1>1, ModNear DEF RingIdx
<1>7. f = [i \in RingIdx |-> f[i]] /\ g = [i \in RingIdx |-> g[i]]
  BY DEF Shifted
<1>8. \A d \in 0 .. QueueSize - 1 :
         /\ f[at(d)] = IF d + QueueSize < m THEN slots[at(d + 2)]
                       ELSE IF d >= m THEN slots[at(d)]
                       ELSE IF d = QueueSize - 1 THEN slots[at(1)]
                       ELSE slots[at(d + 1)]
         /\ g[at(d)] = IF d + QueueSize < m + 1 THEN slots[at(d + 2)]
                       ELSE IF d >= m + 1 THEN slots[at(d)]
                       ELSE IF d = QueueSize - 1 THEN slots[at(1)]
                       ELSE slots[at(d + 1)]
  BY <1>2
<1>9. m \in Int /\ m >= 0 /\ m <= 2 * QueueSize - 3 BY <1>1
<1> HIDE DEF at, f, g
<1>10. CASE m < QueueSize
  <2>1. m \in 0 .. QueueSize - 1 BY <1>1, <1>9, <1>10
  <2>2. g[at(m)] = f[at(m + 1)]
    <3>1. CASE m + 1 < QueueSize
      <4>1. m + 1 \in 0 .. QueueSize - 1 BY <1>1, <2>1, <3>1
      <4>2. f[at(m + 1)] = slots[at(m + 1)] BY <1>1, <1>8, <4>1
      <4>3. g[at(m)] = slots[at(m + 1)] BY <1>1, <1>8, <2>1, <3>1
      <4> QED BY <4>2, <4>3
    <3>2. CASE m = QueueSize - 1
      <4>1. 0 \in 0 .. QueueSize - 1 /\ 0 + QueueSize = m + 1 /\ QueueSize > 1
        BY <1>1, <1>9, <3>2
      <4>2. at(m + 1) = at(0) BY <1>3, <4>1
      <4>3. ~(0 + QueueSize < m) /\ ~(0 >= m) /\ 0 # QueueSize - 1 /\ 0 + 1 = 1
        BY <1>1, <3>2, <4>1
      <4>4. f[at(0)] = slots[at(1)] BY <1>8, <4>1, <4>3
      <4>5. ~(m + QueueSize < m + 1) /\ ~(m >= m + 1) BY <1>1, <1>9
      <4>6. g[at(m)] = slots[at(1)] BY <1>8, <2>1, <3>2, <4>5
      <4> QED BY <4>2, <4>4, <4>6
    <3> QED BY <1>1, <2>1, <3>1, <3>2
  <2>3. \A d \in 0 .. QueueSize - 1 : d # m => g[at(d)] = f[at(d)]
    <3>1. ASSUME NEW d \in 0 .. QueueSize - 1, d # m PROVE g[at(d)] = f[at(d)]
      <4>1. /\ ~(d + QueueSize < m) /\ ~(d + QueueSize < m + 1)
            /\ d >= m + 1 <=> d >= m
        BY <1>1, <2>1, <3>1
      <4> QED BY <1>8, <4>1
    <3> QED BY <3>1
  <2>4. \A i \in RingIdx : g[i] = [f EXCEPT ![at(m)] = f[at(m + 1)]][i]
    BY <1>4, <1>6, <1>7, <2>1, <2>2, <2>3
  <2>5. g = [f EXCEPT ![at(m)] = f[at(m + 1)]] BY <1>7, <2>4
  <2> QED BY <2>5 DEF at, f, g
<1>11. CASE m >= QueueSize
  <2> DEFINE e == m - QueueSize
  <2>1. e \in 0 .. QueueSize - 3 /\ e \in 0 .. QueueSize - 1 /\ e + 1 \in 0 .. QueueSize - 1
        /\ m = e + QueueSize /\ m + 1 = (e + 1) + QueueSize
    BY <1>1, <1>9, <1>11
  <2> HIDE DEF e
  <2>2. at(m) = at(e) /\ at(m + 1) = at(e + 1) BY <1>3, <2>1
  <2>3. g[at(e)] = f[at(e + 1)]
    <3>1. /\ ~((e + 1) + QueueSize < m) /\ ~(e + 1 >= m) /\ e + 1 # QueueSize - 1
          /\ (e + 1) + 1 = e + 2 /\ e + QueueSize < m + 1
      BY <1>1, <2>1
    <3>2. f[at(e + 1)] = slots[at((e + 1) + 1)] BY <1>8, <2>1, <3>1
    <3>3. g[at(e)] = slots[at(e + 2)] BY <1>8, <2>1, <3>1
    <3> QED BY <3>1, <3>2, <3>3
  <2>4. \A d \in 0 .. QueueSize - 1 : d # e => g[at(d)] = f[at(d)]
    <3>1. ASSUME NEW d \in 0 .. QueueSize - 1, d # e PROVE g[at(d)] = f[at(d)]
      <4>1. /\ ~(d >= m) /\ ~(d >= m + 1)
            /\ d + QueueSize < m + 1 <=> d + QueueSize < m
        BY <1>1, <2>1, <3>1
      <4> QED BY <1>8, <4>1
    <3> QED BY <3>1
  <2>5. \A i \in RingIdx : g[i] = [f EXCEPT ![at(e)] = f[at(e + 1)]][i]
    BY <1>4, <1>6, <1>7, <2>1, <2>3, <2>4
  <2>6. g = [f EXCEPT ![at(m)] = f[at(m + 1)]] BY <1>7, <2>2, <2>5
  <2> QED BY <2>6 DEF at, f, g
<1> QED BY <1>9, <1>1, <1>10, <1>11

\* The loop, by induction on its length: a first length at which it differs
\* from the closed form cannot be.
LEMMA ShiftLoopIs ==
  ASSUME NEW slots \in [RingIdx -> EntryType], NEW b \in RingIdx,
         NEW n \in 0 .. 2 * QueueSize - 2
  PROVE  ShiftLoop(slots, b, n) = Shifted(slots, b, n)
<1> DEFINE Assign(f, k) == [f EXCEPT ![(b + k - 1) % QueueSize] = f[(b + k) % QueueSize]]
           Loop(f) == [k \in 0 .. n |-> IF k = 0 THEN slots ELSE Assign(f[k - 1], k)]
           closed == [k \in 0 .. n |-> Shifted(slots, b, k)]
           after == CHOOSE f : f = Loop(f)
           Bad == {k \in 0 .. n : after[k] # Shifted(slots, b, k)}
<1>1. QueueSize \in Nat \ {0} /\ b \in 0 .. QueueSize - 1 /\ n \in Nat
      /\ n <= 2 * QueueSize - 2
  BY QueueSizeAssumption DEF RingIdx
<1>2. ShiftLoop(slots, b, n) = after[n] BY DEF ShiftLoop
<1>3. Shifted(slots, b, 0) = slots
  <2>1. ASSUME NEW i \in RingIdx PROVE Shifted(slots, b, 0)[i] = slots[i]
    <3>1. (i - b) % QueueSize \in 0 .. QueueSize - 1
      BY <1>1, <2>1, ModOffset DEF RingIdx
    <3> QED BY <1>1, <3>1 DEF Shifted
  <2> QED BY <2>1 DEF Shifted
<1>4. \A k \in 1 .. n : Shifted(slots, b, k) = Assign(Shifted(slots, b, k - 1), k)
  <2>1. ASSUME NEW k \in 1 .. n PROVE Shifted(slots, b, k) = Assign(Shifted(slots, b, k - 1), k)
    <3> DEFINE m == k - 1
               f == Shifted(slots, b, m)
    <3>1. m \in 0 .. 2 * QueueSize - 3 /\ m + 1 = k /\ b + m = b + k - 1
      BY <1>1, <2>1
    <3> HIDE DEF m
    <3>2. Shifted(slots, b, m + 1)
            = [f EXCEPT ![(b + m) % QueueSize] = f[(b + (m + 1)) % QueueSize]]
      BY <3>1, ShiftedStep
    <3>3. Shifted(slots, b, k) = Assign(f, k) BY <3>1, <3>2, Zenon
    <3> QED BY <3>3 DEF m
  <2> QED BY <2>1
<1> HIDE DEF Assign
<1>5. closed = Loop(closed)
  <2>1. ASSUME NEW k \in 0 .. n PROVE closed[k] = Loop(closed)[k]
    <3>1. CASE k = 0 BY <1>1, <1>3, <3>1
    <3>2. CASE k # 0
      <4>1. k \in 1 .. n /\ k - 1 \in 0 .. n BY <1>1, <3>2
      <4> QED BY <1>4, <3>2, <4>1
    <3> QED BY <3>1, <3>2
  <2> QED BY <2>1
<1> HIDE DEF closed
<1>6. after = Loop(after) BY <1>5
<1> HIDE DEF after
<1>7. \A k \in 0 .. n : after[k] = IF k = 0 THEN slots ELSE Assign(after[k - 1], k)
  BY <1>6
<1>8. Bad = {}
  <2> SUFFICES ASSUME Bad # {} PROVE FALSE
    OBVIOUS
  <2>1. Bad \in SUBSET Nat BY <1>1
  <2>2. PICK k \in Bad : \A j \in Bad : k <= j
    <3> HIDE DEF Bad
    <3> QED BY <2>1, LeastOf
  <2>3. k \in 1 .. n BY <1>1, <1>3, <1>7
  <2>4. k - 1 \in 0 .. n /\ ~(k <= k - 1) BY <1>1, <2>3
  <2>5. after[k - 1] = Shifted(slots, b, k - 1) BY <2>2, <2>4
  <2>6. after[k] = Shifted(slots, b, k) BY <1>1, <1>4, <1>7, <2>3, <2>5
  <2> QED BY <2>2, <2>6
<1>9. n \in 0 .. n BY <1>1
<1> QED BY <1>2, <1>8, <1>9

\* The shift of a removal is never longer than two laps less two.
LEMMA ShiftLengthOk ==
  ASSUME NEW r \in RingType, NEW k \in Positions(r)
  PROVE  ShiftLength(r, SlotAt(r, k)) \in 0 .. 2 * QueueSize - 2
<1>1. /\ QueueSize \in Nat \ {0} /\ r.head \in 0 .. QueueSize - 1
      /\ r.count \in 0 .. QueueSize /\ k \in 0 .. r.count - 1
  BY QueueSizeAssumption DEF RingType, RingIdx, Positions
<1>2. SlotAt(r, k) = IF r.head + k < QueueSize THEN r.head + k ELSE r.head + k - QueueSize
  BY <1>1 DEF SlotAt
<1> QED BY <1>1, <1>2 DEF ShiftLength

\* Entry b is the first of the highest priority among the first ones up to k.
FirstBest(b, k) ==
    /\ b \in 0 .. k
    /\ \A j \in 0 .. k : \/ EntryAt(ring, j).prio < EntryAt(ring, b).prio
                         \/ EntryAt(ring, j).prio = EntryAt(ring, b).prio /\ b <= j

\* What the scan of sched_find_highest_priority keeps when it comes to entry k.
Better(k, b) == IF EntryAt(ring, k).prio > EntryAt(ring, b).prio THEN k ELSE b

LEMMA FirstBestNext ==
  ASSUME ring \in RingType, NEW k \in Nat \ {0}, NEW b, FirstBest(b, k - 1)
  PROVE  FirstBest(Better(k, b), k)
<1> DEFINE p(j) == EntryAt(ring, j).prio
<1>1. \A j \in Nat : p(j) \in Nat
  <2>1. ASSUME NEW j \in Nat PROVE p(j) \in Nat
    <3>1. EntryAt(ring, j) \in EntryType BY EntryAtType
    <3> QED BY <3>1 DEF EntryType
  <2> QED BY <2>1
<1>2. b \in 0 .. k - 1 /\ \A j \in 0 .. k - 1 : p(j) < p(b) \/ (p(j) = p(b) /\ b <= j)
  BY DEF FirstBest
<1>3. Better(k, b) = IF p(k) > p(b) THEN k ELSE b BY DEF Better
<1>4. FirstBest(Better(k, b), k) <=>
        /\ Better(k, b) \in 0 .. k
        /\ \A j \in 0 .. k : \/ p(j) < p(Better(k, b))
                             \/ p(j) = p(Better(k, b)) /\ Better(k, b) <= j
  BY DEF FirstBest
<1> HIDE DEF p
<1>5. ASSUME NEW j \in 0 .. k
      PROVE  \/ p(j) < p(Better(k, b))
             \/ p(j) = p(Better(k, b)) /\ Better(k, b) <= j
  <2>1. j \in Nat /\ b \in Nat /\ (j = k \/ j \in 0 .. k - 1) BY <1>2
  <2>2. p(j) \in Nat /\ p(b) \in Nat /\ p(k) \in Nat BY <1>1, <2>1
  <2>3. CASE j = k BY <1>2, <1>3, <2>2, <2>3
  <2>4. CASE j \in 0 .. k - 1
    <3>1. p(j) < p(b) \/ (p(j) = p(b) /\ b <= j) BY <1>2, <2>4
    <3>2. CASE p(k) > p(b) BY <1>3, <2>2, <3>1, <3>2
    <3>3. CASE ~(p(k) > p(b)) BY <1>3, <3>1, <3>3
    <3> QED BY <3>2, <3>3
  <2> QED BY <2>1, <2>3, <2>4
<1> QED BY <1>2, <1>3, <1>4, <1>5

LEMMA FirstBestOnly ==
  ASSUME ring \in RingType, NEW k \in Nat, NEW a, NEW b, FirstBest(a, k), FirstBest(b, k)
  PROVE  a = b
<1>1. a \in 0 .. k /\ b \in 0 .. k BY DEF FirstBest
<1>2. EntryAt(ring, a) \in EntryType /\ EntryAt(ring, b) \in EntryType
  BY <1>1, EntryAtType
<1>3. EntryAt(ring, a).prio \in Nat /\ EntryAt(ring, b).prio \in Nat
  BY <1>2 DEF EntryType
<1> QED BY <1>1, <1>3 DEF FirstBest

\* A function that does what the scan does finds it.
LEMMA ScanFindsBest ==
  ASSUME ring \in RingType, NEW best,
         \A k \in Nat : best[k] = IF k = 0 THEN 0 ELSE Better(k, best[k - 1])
  PROVE  \A k \in Nat : FirstBest(best[k], k)
<1> DEFINE Bad == {k \in Nat : ~FirstBest(best[k], k)}
<1>1. Bad = {}
  <2> SUFFICES ASSUME Bad # {} PROVE FALSE
    OBVIOUS
  <2>1. PICK k \in Bad : \A j \in Bad : k <= j
    <3>1. Bad \in SUBSET Nat OBVIOUS
    <3> HIDE DEF Bad
    <3> QED BY <3>1, LeastOf
  <2>2. FirstBest(0, 0) BY DEF FirstBest
  <2>3. k \in Nat \ {0} BY <2>2
  <2>4. k - 1 \in Nat /\ ~(k <= k - 1) BY <2>3
  <2>5. FirstBest(best[k - 1], k - 1) BY <2>1, <2>4
  <2>6. FirstBest(best[k], k) BY <2>3, <2>5, FirstBestNext
  <2> QED BY <2>1, <2>6
<1> QED BY <1>1

LEMMA FirstBestExists ==
  ASSUME ring \in RingType
  PROVE  \A k \in Nat : \E b : FirstBest(b, k)
<1> DEFINE Bad == {k \in Nat : ~\E b : FirstBest(b, k)}
<1>1. Bad = {}
  <2> SUFFICES ASSUME Bad # {} PROVE FALSE
    OBVIOUS
  <2>1. PICK k \in Bad : \A j \in Bad : k <= j
    <3>1. Bad \in SUBSET Nat OBVIOUS
    <3> HIDE DEF Bad
    <3> QED BY <3>1, LeastOf
  <2>2. FirstBest(0, 0) BY DEF FirstBest
  <2>3. k \in Nat \ {0} BY <2>2
  <2>4. k - 1 \in Nat /\ ~(k <= k - 1) BY <2>3
  <2>5. PICK b : FirstBest(b, k - 1) BY <2>1, <2>4
  <2>6. FirstBest(Better(k, b), k) BY <2>3, <2>5, FirstBestNext
  <2> QED BY <2>1, <2>6
<1> QED BY <1>1

LEMMA BestIsScanHolds == ring \in RingType => BestIsScan
<1> SUFFICES ASSUME ring \in RingType PROVE BestIsScan
  OBVIOUS
<1> DEFINE Scan(f) == [k \in Nat |-> IF k = 0 THEN 0
                                    ELSE IF EntryAt(ring, k).prio > EntryAt(ring, f[k - 1]).prio
                                         THEN k ELSE f[k - 1]]
           best == CHOOSE f : f = Scan(f)
           first == [k \in Nat |-> CHOOSE b : FirstBest(b, k)]
<1>1. \A k \in Nat : FirstBest(first[k], k) BY FirstBestExists
<1> HIDE DEF first
<1>2. ASSUME NEW k \in Nat PROVE first[k] = Scan(first)[k]
  <2>1. CASE k = 0
    <3>1. FirstBest(0, 0) BY DEF FirstBest
    <3>2. first[k] = 0 BY <1>1, <2>1, <3>1, FirstBestOnly
    <3> QED BY <2>1, <3>2
  <2>2. CASE k # 0
    <3>1. k \in Nat \ {0} /\ k - 1 \in Nat BY <2>2
    <3>2. FirstBest(first[k - 1], k - 1) BY <1>1, <3>1
    <3>3. FirstBest(Better(k, first[k - 1]), k) BY <3>1, <3>2, FirstBestNext
    <3>4. first[k] = Better(k, first[k - 1]) BY <1>1, <3>3, FirstBestOnly
    <3> QED BY <2>2, <3>4 DEF Better
  <2> QED BY <2>1, <2>2
<1>3. first = Scan(first) BY <1>2 DEF first
<1>4. best = Scan(best) BY <1>3
<1> HIDE DEF best
<1>5. \A k \in Nat : best[k] = IF k = 0 THEN 0 ELSE Better(k, best[k - 1])
  BY <1>4 DEF Better
<1>6. \A k \in Nat : FirstBest(best[k], k) BY <1>5, ScanFindsBest
<1>7. ring.count \in Nat BY DEF RingType
<1>8. ASSUME NEW k \in Positions(ring) PROVE IsBest(ring, k) <=> k = best[ring.count - 1]
  <2>1. ring.count - 1 \in Nat /\ k \in 0 .. ring.count - 1 BY <1>7 DEF Positions
  <2>2. IsBest(ring, k) <=> FirstBest(k, ring.count - 1)
    BY <2>1 DEF IsBest, FirstBest, Positions
  <2> QED BY <1>6, <2>1, <2>2, FirstBestOnly
<1> QED BY <1>8 DEF BestIsScan, best

\* For every size of the queue the closed forms of the model are what the
\* loops of flux_sched_dequeue and sched_find_highest_priority compute.
THEOREM LoopsAlwaysMatch == Spec => []LoopsMatch
<1>1. ASSUME TypeOK PROVE ShiftIsLoop
  <2>1. ring \in RingType /\ ring.slots \in [RingIdx -> EntryType]
    BY <1>1 DEF TypeOK, RingType
  <2>2. ASSUME NEW k \in Positions(ring)
        PROVE  LET b == SlotAt(ring, k)
                   n == ShiftLength(ring, b)
               IN  Shifted(ring.slots, b, n) = ShiftLoop(ring.slots, b, n)
    <3>1. SlotAt(ring, k) \in RingIdx BY <2>1, <2>2, SlotAtIdx DEF Positions, RingType
    <3> QED BY <2>1, <3>1, ShiftLengthOk, ShiftLoopIs
  <2> QED BY <2>2 DEF ShiftIsLoop
<1>2. TypeOK => BestIsScan BY BestIsScanHolds DEF TypeOK
<1>3. Spec => []TypeOK BY TypesAndShape, PTL DEF WellFormed
<1> QED BY <1>1, <1>2, <1>3, PTL DEF LoopsMatch

-----------------------------------------------------------------------------
(* The scheduler in its regime.  What is inductive: the ready queue is fair *)
(* (KernelLemmas), the kernel process neither waits nor idles, everyone has *)
(* the same priority, a waiting call belongs to the process in its slot, and *)
(* everyone who can run is queued or on the CPU.                            *)

\* The kernel process is there, and nothing has to wake it.
KernelThere == ~pcb[0].agent /\ pcb[0].state \notin {"UNUSED", "BLOCKED", "AGENT_IDLE"}

\* A process has the one priority, a parent that only the kernel process can be
\* unless others spawn too, and waits for nobody if nobody does.
Alike(p) ==
    /\ p.prio = DefaultPrio
    /\ "spawn" \in Calls \/ p.parent = KERNEL
    /\ NobodyAwaitsOne => p.waiting = INVALID

\* No process can be waited for by anyone who would be woken at its exit.
ProcsAlike == \A i \in Slots \ {0} : pcb[i].state # "UNUSED" => Alike(pcb[i])

\* A waiting call belongs to the process in its slot.
WaitersThere ==
    \A i \in Slots :
        waiter[i] # NoWaiter =>
            i # 0 /\ waiter[i].pid = i + 1 /\ pcb[i].state \notin {"UNUSED", "AGENT_IDLE"}

\* Who can run is queued or on the CPU.
RunnableKnown ==
    \A i \in Slots \ {0} :
        /\ pcb[i].state = "READY" => i + 1 \in QueuedPids(ring)
        /\ pcb[i].state = "RUNNING" => i + 1 \in QueuedPids(ring) \cup {schedCur}

\* The queue is a line of processes, each of which was spawned.
QueueFair == Fair(ring) /\ \A pid \in QueuedPids(ring) : pid < nextPid

SchedInv ==
    /\ kcur \in 1 .. MaxPid /\ nextPid \in 2 .. MaxPid + 1
    /\ QueueFair /\ KernelThere /\ ProcsAlike /\ WaitersThere /\ RunnableKnown

\* What is proved without a regime.
Known == TypeOK /\ RingShape /\ PidsValid /\ CpuAgrees

LEMMA SlotOfPid ==
  ASSUME PidsNotReused
  PROVE  \A pid \in 1 .. MaxPid : SlotOf(pid) = pid - 1 /\ pid - 1 \in Slots
<1> SUFFICES ASSUME NEW pid \in 1 .. MaxPid PROVE SlotOf(pid) = pid - 1 /\ pid - 1 \in Slots
  OBVIOUS
<1>1. pid - 1 \in 0 .. MaxProcs - 1 BY PidRange DEF PidsNotReused
<1> QED BY <1>1, PidRange, ModSmall DEF SlotOf, Slots

\* A process is in the slot of its PID, and no other PID leads there.
LEMMA UsedSlot ==
  ASSUME PidsNotReused, Known, SchedInv, NEW i \in Slots, pcb[i].state # "UNUSED"
  PROVE  pcb[i].pid = i + 1 /\ i + 1 \in 1 .. MaxPid /\ i + 1 < nextPid /\ SlotOf(i + 1) = i
<1>1. pcb[i].pid \in 1 .. nextPid - 1 /\ SlotOf(pcb[i].pid) = i BY DEF Known, PidsValid
<1>2. nextPid \in 2 .. MaxPid + 1 BY DEF SchedInv
<1>3. pcb[i].pid \in 1 .. MaxPid BY <1>1, <1>2, PidRange
<1>4. i = pcb[i].pid - 1 BY <1>1, <1>3, SlotOfPid
<1> QED BY <1>1, <1>2, <1>3, <1>4, PidRange

LEMMA HereIs ==
  ASSUME PidsNotReused, SchedInv
  PROVE  Here = kcur - 1 /\ Here \in Slots /\ kcur = Here + 1 /\ (Here = 0 <=> kcur = KERNEL)
<1>1. kcur \in 1 .. MaxPid BY DEF SchedInv
<1> QED BY <1>1, SlotOfPid, PidRange DEF Here, KERNEL

-----------------------------------------------------------------------------
(* The calls.                                                               *)

\* A step in which only the process in slot h and its waiting call change, and
\* which does not take the CPU from another process.
Local(h) ==
    /\ \A i \in Slots \ {h} : pcb'[i] = pcb[i] /\ waiter'[i] = waiter[i]
    /\ kcur' = kcur
    /\ schedCur' = schedCur \/ (schedCur = h + 1 /\ schedCur' = INVALID)

\* The queue is as before, or the process in slot h is in it too.
QueuedToo(h) ==
    \/ ring' = ring
    \/ /\ Fair(ring') /\ Grows(ring, ring')
       /\ QueuedPids(ring') = QueuedPids(ring) \cup {h + 1}
       /\ h + 1 < nextPid'
       /\ pcb'[h].state \in {"READY", "RUNNING"} \/ kcur = h + 1

\* The new state of slot h is one that SchedInv allows.
Sound(h) ==
    /\ h = 0 => ~pcb'[0].agent /\ pcb'[0].state \notin {"UNUSED", "BLOCKED", "AGENT_IDLE"}
    /\ h # 0 /\ pcb'[h].state # "UNUSED" => Alike(pcb'[h])
    /\ waiter'[h] # NoWaiter =>
          h # 0 /\ waiter'[h].pid = h + 1 /\ pcb'[h].state \notin {"UNUSED", "AGENT_IDLE"}
    /\ h # 0 /\ pcb'[h].state = "READY" => h + 1 \in QueuedPids(ring')
    /\ h # 0 /\ pcb'[h].state = "RUNNING" => h + 1 \in QueuedPids(ring') \cup {schedCur'}
    /\ pcb'[h].state = "RUNNING" => pcb[h].state # "AGENT_IDLE"

\* An idle agent that becomes runnable is or was queued.
Awakened ==
    \A i \in Slots :
        pcb[i].state = "AGENT_IDLE" /\ pcb'[i].state \in {"READY", "RUNNING"}
        => i + 1 \in QueuedPids(ring) \cup QueuedPids(ring')

\* Who can run.
Runnable == {i + 1 : i \in {j \in Slots \ {0} : pcb[j].state \in {"READY", "RUNNING"}}}

\* Nobody leaves the queue or moves, and who is new in it can run or has the CPU.
Joined ==
    /\ Grows(ring, ring')
    /\ QueuedPids(ring') \subseteq QueuedPids(ring) \cup Runnable' \cup {kcur}

StepOk == SchedInv' /\ (Joined \/ SwitchTo) /\ Awakened

LEMMA LocalKeeps ==
  ASSUME PidsNotReused, SchedInv, NEW h \in Slots, nextPid' \in nextPid .. MaxPid + 1,
         Local(h), QueuedToo(h), Sound(h)
  PROVE  StepOk
<1>1. kcur' \in 1 .. MaxPid /\ nextPid' \in 2 .. MaxPid + 1
  BY PidRange DEF SchedInv, Local
<1>2. /\ Fair(ring') /\ Grows(ring, ring') /\ QueuedPids(ring) \subseteq QueuedPids(ring')
      /\ \A pid \in QueuedPids(ring') : pid \in QueuedPids(ring) \/ pid < nextPid'
  BY DEF QueuedToo, SchedInv, QueueFair, Grows
<1>3. \A pid \in QueuedPids(ring') : pid < nextPid'
  <2>1. ASSUME NEW pid \in QueuedPids(ring) PROVE pid < nextPid'
    <3>1. pid < nextPid /\ pid \in Int BY DEF SchedInv, QueueFair, Fair, QueuedPids
    <3>2. nextPid \in Int /\ nextPid' \in Int /\ nextPid <= nextPid' BY PidRange DEF SchedInv
    <3> QED BY <3>1, <3>2
  <2> QED BY <1>2, <2>1
<1>4. KernelThere' BY ProcAssumption DEF SchedInv, KernelThere, Local, Sound, Slots
<1>5. ProcsAlike' BY DEF SchedInv, ProcsAlike, Local, Sound
<1>6. WaitersThere' BY DEF SchedInv, WaitersThere, Local, Sound
<1>7. RunnableKnown'
  <2>1. ASSUME NEW i \in Slots \ {0}
        PROVE  /\ pcb'[i].state = "READY" => i + 1 \in QueuedPids(ring')
               /\ pcb'[i].state = "RUNNING" => i + 1 \in QueuedPids(ring') \cup {schedCur'}
    <3>1. CASE i = h BY <3>1 DEF Sound
    <3>2. CASE i # h
      <4>1. i \in Int /\ h \in Int BY DEF Slots
      <4>2. i + 1 # h + 1 BY <3>2, <4>1
      <4> QED BY <1>2, <3>2, <4>2 DEF SchedInv, RunnableKnown, Local
    <3> QED BY <3>1, <3>2
  <2> QED BY <2>1 DEF RunnableKnown
<1>8. SchedInv' BY <1>1, <1>2, <1>3, <1>4, <1>5, <1>6, <1>7 DEF SchedInv, QueueFair
<1>9. Awakened
  <2>1. ASSUME NEW i \in Slots, pcb[i].state = "AGENT_IDLE", pcb'[i].state \in {"READY", "RUNNING"}
        PROVE  i + 1 \in QueuedPids(ring')
    <3>1. i = h BY <2>1 DEF Local
    <3>2. i # 0 BY <2>1 DEF SchedInv, KernelThere
    <3> QED BY <2>1, <3>1, <3>2 DEF Sound
  <2> QED BY <2>1 DEF Awakened
<1>10. Joined
  <2>1. CASE ring' = ring BY <1>2, <2>1 DEF Joined
  <2>2. CASE ring' # ring
    <3>1. /\ QueuedPids(ring') = QueuedPids(ring) \cup {h + 1}
          /\ pcb'[h].state \in {"READY", "RUNNING"} \/ kcur = h + 1
      BY <2>2 DEF QueuedToo
    <3>2. h + 1 \in 2 .. MaxPid BY <1>2, <3>1 DEF Fair, QueuedPids
    <3>3. h # 0 BY <3>2
    <3>4. h + 1 \in Runnable' \cup {kcur} BY <3>1, <3>3 DEF Runnable
    <3> QED BY <1>2, <3>1, <3>4 DEF Joined
  <2> QED BY <2>1, <2>2
<1> QED BY <1>8, <1>9, <1>10 DEF StepOk

\* Where the queue, the CPU and the waiting calls stay, the state may change to
\* one that is not runnable, or only something else changes.
LEMMA SameIsSound ==
  ASSUME PidsNotReused, SchedInv, NEW h \in Slots, UNCHANGED <<pcb, waiter>>,
         ring' = ring, schedCur' = schedCur
  PROVE  Sound(h)
BY DEF Sound, SchedInv, KernelThere, ProcsAlike, WaitersThere, RunnableKnown

LEMMA SpawnKeeps ==
  ASSUME Regime, Known, SchedInv, TypeOK', NEW pid \in Pids, NEW agent \in BOOLEAN,
         Spawn(pid, agent)
  PROVE  StepOk
<1> DEFINE h == SlotOf(pid)
<1>1. pid \in 1 .. MaxPid /\ h = pid - 1 /\ h \in Slots /\ pid = h + 1
  BY SlotOfPid, PidRange DEF Pids, Regime
<1>2. pcb[h].state = "UNUSED" /\ pid >= nextPid BY DEF Spawn, IsNextFree
<1>3. h # 0 BY <1>2 DEF SchedInv, KernelThere
<1>4. pid \in 2 .. MaxPid BY <1>1, <1>3
<1>5. nextPid' = pid + 1 /\ nextPid' \in nextPid .. MaxPid + 1
  BY <1>1, <1>2, PidRange DEF Spawn, SchedInv
<1>6. pcb' = [pcb EXCEPT ![h] = SpawnedPcb(pid, kcur, agent)] BY DEF Spawn
<1>7. pcb \in TableType /\ pcb' \in TableType BY DEF Known, TypeOK, TableType
<1> DEFINE p == SpawnedPcb(pid, kcur, agent)
<1>8. p.state = "READY" /\ p.prio = DefaultPrio /\ p.parent = kcur /\ p.waiting = INVALID
  BY DEF SpawnedPcb, UnusedPcb
<1> HIDE DEF h, p
<1>9. pcb'[h] = p /\ \A i \in Slots \ {h} : pcb'[i] = pcb[i]
  BY <1>1, <1>6, <1>7 DEF TableType, p
<1>10. ring' = EnqueueRing(pcb', ring, pid) BY DEF Spawn
<1>11. Exists(pcb', pid) /\ pcb'[SlotOf(pid)].prio = DefaultPrio
  BY <1>4, <1>8, <1>9 DEF Exists, INVALID, h
<1>12. /\ Fair(ring') /\ Grows(ring, ring')
       /\ QueuedPids(ring') = QueuedPids(ring) \cup {pid}
  BY <1>4, <1>7, <1>10, <1>11, FairEnqueue
     DEF Regime, PidsNotReused, SchedInv, QueueFair
<1>13. UNCHANGED <<kcur, schedCur, waiter>> BY DEF Spawn, ipcVars
<1>14. Local(h) BY <1>9, <1>13 DEF Local
<1>15. QueuedToo(h) BY <1>1, <1>5, <1>8, <1>9, <1>12, PidRange DEF QueuedToo
<1>16. "spawn" \in Calls \/ kcur = KERNEL BY DEF Spawn, Calling
<1>17. waiter[h] = NoWaiter BY <1>1, <1>2 DEF SchedInv, WaitersThere
<1>18. Alike(p) BY <1>8, <1>16 DEF Alike
<1>19. Sound(h) BY <1>1, <1>3, <1>8, <1>9, <1>12, <1>13, <1>17, <1>18 DEF Sound
<1> QED BY <1>1, <1>5, <1>14, <1>15, <1>19, LocalKeeps DEF Regime

\* A process is gone: the queue may keep its PID.
LEMMA CleanupKeeps ==
  ASSUME Regime, Known, SchedInv, NEW h \in Slots, h # 0, Cleanup(pcb, h), ring' = ring,
         schedCur' = schedCur \/ (schedCur = h + 1 /\ schedCur' = INVALID)
  PROVE  StepOk
<1>1. pcb \in TableType /\ waiter \in [Slots -> WaiterType]
  BY DEF Known, TypeOK, TableType
<1>2. /\ pcb' = [pcb EXCEPT ![h] = CleanPcb(pcb[h])]
      /\ waiter' = [waiter EXCEPT ![h] = NoWaiter]
      /\ UNCHANGED <<nextPid, kcur>>
  BY DEF Cleanup, Forget
<1>3. pcb'[h].state = "UNUSED" BY <1>1, <1>2 DEF TableType, CleanPcb, PcbType
<1>4. waiter'[h] = NoWaiter BY <1>1, <1>2
<1>5. Local(h) BY <1>1, <1>2 DEF Local, TableType
<1>6. Sound(h) BY <1>3, <1>4 DEF Sound
<1>7. nextPid' \in nextPid .. MaxPid + 1 BY <1>2, PidRange DEF SchedInv
<1> QED BY <1>5, <1>6, <1>7, LocalKeeps DEF QueuedToo, Regime

\* In the regime flux_exit wakes nobody.
LEMMA NobodyWokenByExit ==
  ASSUME Regime, Known, SchedInv, Exit
  PROVE  ParentAfterExit = pcb
<1>1. Here \in Slots /\ Here # 0 /\ pcb[Here].state # "UNUSED" /\ "exit" \in Calls
  BY HereIs DEF Regime, Exit, Calling, Executing, Exists, Here
<1>2. Alike(Me) BY <1>1 DEF SchedInv, ProcsAlike, Me
<1>3. CASE Me.parent = KERNEL
  BY <1>3, SlotOfKernel DEF ParentAfterExit, SchedInv, KernelThere
<1>4. CASE Me.parent # KERNEL
  <2>1. NobodyAwaitsOne BY <1>1, <1>2, <1>4 DEF Alike, Regime, ExitsWakeNobody
  <2> DEFINE i == SlotOf(Me.parent)
  <2>2. Me.parent \in Nat BY <1>1 DEF Known, TypeOK, PcbType, Me
  <2>3. i \in Slots BY <2>2, SlotOfIn
  <2>4. kcur # INVALID BY PidRange DEF SchedInv, INVALID
  <2> HIDE DEF i
  <2>5. ASSUME pcb[i].state \in {"BLOCKED", "AGENT_IDLE"} PROVE pcb[i].waiting # kcur
    <3>1. i # 0 /\ pcb[i].state # "UNUSED" BY <2>5 DEF SchedInv, KernelThere
    <3> QED BY <2>1, <2>3, <2>4, <3>1 DEF SchedInv, ProcsAlike, Alike
  <2> QED BY <2>5 DEF ParentAfterExit, i
<1> QED BY <1>3, <1>4

LEMMA ExitKeeps ==
  ASSUME Regime, Known, SchedInv, Exit
  PROVE  StepOk
<1>1. /\ kcur # KERNEL /\ Cleanup(ParentAfterExit, Here) /\ ring' = ring
      /\ schedCur = kcur /\ schedCur' = INVALID
  BY DEF Exit, Calling, Executing, YieldCurrent
<1>2. Here \in Slots /\ Here # 0 /\ kcur = Here + 1 BY <1>1, HereIs DEF Regime
<1> QED BY <1>1, <1>2, NobodyWokenByExit, CleanupKeeps

LEMMA KillKeeps ==
  ASSUME Regime, Known, SchedInv, NEW pid \in Pids, Kill(pid)
  PROVE  StepOk
<1>1. pid \in 1 .. MaxPid /\ pid # 1 BY DEF Kill, Pids, KERNEL
<1>2. SlotOf(pid) \in Slots /\ SlotOf(pid) # 0
  BY <1>1, SlotOfPid, PidRange DEF Regime
<1>3. Cleanup(pcb, SlotOf(pid)) /\ ring' = ring /\ schedCur' = schedCur
  BY DEF Kill, schedVars
<1> QED BY <1>2, <1>3, CleanupKeeps

\* Steps that leave processes, queue, CPU and waiting calls alone.
LEMMA QuietKeeps ==
  ASSUME Regime, SchedInv, nextPid' \in nextPid .. MaxPid + 1,
         UNCHANGED <<pcb, waiter, ring, schedCur, kcur>>
  PROVE  StepOk
<1>1. 0 \in Slots BY PidRange DEF Slots
<1>2. Local(0) BY DEF Local
<1>3. QueuedToo(0) BY DEF QueuedToo
<1>4. Sound(0) BY <1>1, SameIsSound DEF Regime
<1> QED BY <1>1, <1>2, <1>3, <1>4, LocalKeeps DEF Regime

LEMMA NextPidKept == SchedInv => nextPid \in nextPid .. MaxPid + 1
  BY PidRange DEF SchedInv

LEMMA SpawnNoStackKeeps ==
  ASSUME Regime, SchedInv, NEW pid \in Pids, SpawnNoStack(pid)
  PROVE  StepOk
<1>1. nextPid' = pid + 1 /\ pid >= nextPid BY DEF SpawnNoStack, IsNextFree
<1>2. nextPid' \in nextPid .. MaxPid + 1 BY <1>1, PidRange DEF Pids, SchedInv
<1> QED BY <1>2, QuietKeeps DEF SpawnNoStack, schedVars, ipcVars

LEMMA RecvNowKeeps ==
  ASSUME Regime, SchedInv, NEW filter, RecvNow(filter)
  PROVE  StepOk
BY QuietKeeps, NextPidKept DEF RecvNow, procVars, schedVars

\* One process changes its state, not to a runnable one, or something that
\* the scheduler does not look at.
LEMMA OnePcbKeeps ==
  ASSUME Regime, Known, SchedInv, NEW h \in Slots, NEW p,
         pcb' = [pcb EXCEPT ![h] = p],
         p.prio = pcb[h].prio, p.parent = pcb[h].parent, p.agent = pcb[h].agent,
         NobodyAwaitsOne => p.waiting \in {pcb[h].waiting, INVALID},
         pcb[h].state # "UNUSED",
         p.state = pcb[h].state \/ p.state \notin {"READY", "RUNNING", "UNUSED"},
         h = 0 => p.state \notin {"BLOCKED", "AGENT_IDLE"},
         waiter'[h] # NoWaiter => h # 0 /\ waiter'[h].pid = h + 1 /\ p.state # "AGENT_IDLE",
         \A i \in Slots \ {h} : waiter'[i] = waiter[i],
         UNCHANGED <<ring, schedCur, kcur, nextPid>>
  PROVE  StepOk
<1>1. pcb'[h] = p /\ \A i \in Slots \ {h} : pcb'[i] = pcb[i]
  BY DEF Known, TypeOK
<1>2. Local(h) BY <1>1 DEF Local
<1>3. QueuedToo(h) BY DEF QueuedToo
<1>4. h # 0 => Alike(p) BY DEF SchedInv, ProcsAlike, Alike
<1>5. Sound(h) BY <1>1, <1>4 DEF Sound, SchedInv, KernelThere, RunnableKnown
<1> QED BY <1>2, <1>3, <1>5, LocalKeeps, NextPidKept DEF Regime

\* What a calling process is.
LEMMA CallerIs ==
  ASSUME Regime, Known, SchedInv, NEW call, Calling(call)
  PROVE  /\ Here \in Slots /\ pcb[Here].state \notin {"UNUSED", "BLOCKED", "AGENT_IDLE"}
         /\ Me = pcb[Here] /\ waiter[Here] = NoWaiter
         /\ kcur = Here + 1 /\ schedCur = kcur /\ (Here = 0 <=> kcur = KERNEL)
         /\ call \in {"yield", "recv", "wait"} => Here # 0
         /\ call # "set_priority"
<1>1. Here \in Slots /\ kcur = Here + 1 /\ (Here = 0 <=> kcur = KERNEL)
  BY HereIs DEF Regime
<1>2. pcb[Here].state \notin {"UNUSED", "BLOCKED", "AGENT_IDLE"} /\ waiter[Here] = NoWaiter
      /\ schedCur = kcur
  BY DEF Calling, Executing, Exists, Here, Me
<1>3. call \in {"yield", "recv", "wait"} => kcur # KERNEL
  BY DEF Calling, Regime, KernelStays
<1>4. call # "set_priority" BY DEF Calling, Regime, EqualPriorities
<1> QED BY <1>1, <1>2, <1>3, <1>4 DEF Me

LEMMA WaitKeeps ==
  ASSUME Regime, Known, SchedInv, NEW pid \in Pids, Wait(pid)
  PROVE  StepOk
<1>1. /\ Here \in Slots /\ Here # 0 /\ pcb[Here].state # "UNUSED" /\ waiter[Here] = NoWaiter
  BY CallerIs DEF Wait
<1> DEFINE p == [pcb[Here] EXCEPT !.state = "BLOCKED", !.waiting = pid]
<1>2. pcb[Here] \in PcbType /\ pid \in Nat BY <1>1, PidsAreNat DEF Known, TypeOK
<1>3. p.state = "BLOCKED" /\ p.prio = pcb[Here].prio /\ p.parent = pcb[Here].parent
      /\ p.agent = pcb[Here].agent
  BY <1>2 DEF PcbType
<1>4. pcb' = [pcb EXCEPT ![Here] = p]
  BY <1>1, <1>2, BlockAtType DEF Wait, Known
<1> HIDE DEF p
<1>5. ~NobodyAwaitsOne BY DEF Wait, Calling, NobodyAwaitsOne, Regime, KernelStays
<1> QED BY <1>1, <1>3, <1>4, <1>5, OnePcbKeeps DEF Wait, schedVars, ipcVars

LEMMA SetStateKeeps ==
  ASSUME Regime, Known, SchedInv, NEW st \in {"AGENT_IDLE", "AGENT_THINKING"}, SetState(st)
  PROVE  StepOk
<1>1. /\ Here \in Slots /\ pcb[Here].state # "UNUSED" /\ waiter[Here] = NoWaiter
  BY CallerIs DEF SetState
<1>2. Here # 0 BY DEF SetState, Me, SchedInv, KernelThere
<1> DEFINE p == [pcb[Here] EXCEPT !.state = st]
<1>3. pcb[Here] \in PcbType BY <1>1 DEF Known, TypeOK
<1>4. p.state = st /\ p.prio = pcb[Here].prio /\ p.parent = pcb[Here].parent
      /\ p.agent = pcb[Here].agent /\ p.waiting = pcb[Here].waiting
  BY <1>3 DEF PcbType
<1>5. pcb' = [pcb EXCEPT ![Here] = p] BY DEF SetState
<1> HIDE DEF p
<1> QED BY <1>1, <1>2, <1>4, <1>5, OnePcbKeeps DEF SetState, schedVars, ipcVars

LEMMA BytecodeKeeps ==
  ASSUME Regime, Known, SchedInv, NEW pid \in Pids, BcLoad(pid) \/ BcExec(pid)
  PROVE  StepOk
<1> DEFINE h == SlotOf(pid)
           p == IF BcLoad(pid) THEN [pcb[h] EXCEPT !.bc = TRUE]
                               ELSE [pcb[h] EXCEPT !.state = "COMPILED"]
<1>1. h \in Slots /\ pcb[h].state # "UNUSED"
  BY PidsAreNat, SlotOfIn DEF BcLoad, BcExec, Exists
<1>2. pcb[h] \in PcbType BY <1>1 DEF Known, TypeOK
<1>3. /\ p.state \in {pcb[h].state, "COMPILED"}
      /\ p.prio = pcb[h].prio /\ p.parent = pcb[h].parent /\ p.agent = pcb[h].agent
      /\ p.waiting = pcb[h].waiting
  BY <1>2 DEF PcbType
<1>4. pcb' = [pcb EXCEPT ![h] = p] BY DEF BcLoad, BcExec
<1>5. UNCHANGED <<ring, schedCur, kcur, nextPid, waiter>>
  BY DEF BcLoad, BcExec, schedVars, ipcVars
<1> HIDE DEF p, h
<1>6. h = 0 => p.state \notin {"BLOCKED", "AGENT_IDLE"} BY <1>3 DEF SchedInv, KernelThere
<1>7. waiter[h] # NoWaiter => h # 0 /\ waiter[h].pid = h + 1 /\ p.state # "AGENT_IDLE"
  BY <1>1, <1>3 DEF SchedInv, WaitersThere
<1> QED BY <1>1, <1>3, <1>4, <1>5, <1>6, <1>7, OnePcbKeeps

LEMMA RecvBlockKeeps ==
  ASSUME Regime, Known, SchedInv, NEW filter \in Filters, NEW timeout, RecvBlock(filter, timeout)
  PROVE  StepOk
<1>1. /\ Here \in Slots /\ Here # 0 /\ pcb[Here].state # "UNUSED" /\ kcur = Here + 1
  BY CallerIs DEF RecvBlock
<1> DEFINE p == [pcb[Here] EXCEPT !.state = "BLOCKED", !.waiting = filter]
<1>2. pcb[Here] \in PcbType /\ filter \in Nat BY <1>1, KernelAssumption DEF Known, TypeOK
<1>3. p.state = "BLOCKED" /\ p.prio = pcb[Here].prio /\ p.parent = pcb[Here].parent
      /\ p.agent = pcb[Here].agent /\ p.waiting = filter
  BY <1>2 DEF PcbType
<1>4. pcb' = [pcb EXCEPT ![Here] = p]
  BY <1>1, <1>2, BlockAtType DEF RecvBlock, Known
<1>5. waiter'[Here].pid = Here + 1 /\ \A i \in Slots \ {Here} : waiter'[i] = waiter[i]
  BY <1>1 DEF RecvBlock, Known, TypeOK
<1> HIDE DEF p
<1>6. NobodyAwaitsOne => filter = INVALID
  BY DEF RecvBlock, Calling, NobodyAwaitsOne, Regime, KernelStays
<1> QED BY <1>1, <1>3, <1>4, <1>5, <1>6, OnePcbKeeps DEF RecvBlock, schedVars

\* A process is put into the queue, unless it is there already.
LEMMA QueuedKeeps ==
  ASSUME Regime, Known, SchedInv, NEW h \in Slots \ {0}, NEW p \in PcbType,
         pcb' = [pcb EXCEPT ![h] = p], ring' = EnqueueRing(pcb', ring, h + 1),
         p.prio = pcb[h].prio, p.parent = pcb[h].parent,
         NobodyAwaitsOne => p.waiting \in {pcb[h].waiting, INVALID},
         pcb[h].state # "UNUSED", p.state \notin {"UNUSED", "AGENT_IDLE"},
         p.state = "RUNNING" => pcb[h].state # "AGENT_IDLE",
         p.state = "READY" \/ kcur = h + 1,
         waiter'[h] \in {waiter[h], NoWaiter},
         \A i \in Slots \ {h} : waiter'[i] = waiter[i],
         schedCur' = schedCur \/ (schedCur = h + 1 /\ schedCur' = INVALID),
         UNCHANGED <<kcur, nextPid>>
  PROVE  StepOk
<1>1. pcb'[h] = p /\ (\A i \in Slots \ {h} : pcb'[i] = pcb[i]) /\ pcb' \in TableType
  BY DEF Known, TypeOK, TableType
<1>2. h + 1 \in 1 .. MaxPid /\ h + 1 < nextPid /\ SlotOf(h + 1) = h
  BY UsedSlot DEF Regime
<1>3. h + 1 \in 2 .. MaxPid BY <1>2, PidRange DEF Slots
<1>4. Alike(p) /\ p.prio = DefaultPrio BY DEF SchedInv, ProcsAlike, Alike
<1>5. Exists(pcb', h + 1) /\ pcb'[SlotOf(h + 1)].prio = DefaultPrio
  BY <1>1, <1>2, <1>3, <1>4 DEF Exists, INVALID
<1>6. /\ Fair(ring') /\ Grows(ring, ring')
      /\ QueuedPids(ring') = QueuedPids(ring) \cup {h + 1}
  <2>1. MaxPid <= QueueSize + 1 /\ Fair(ring)
    BY DEF Regime, PidsNotReused, SchedInv, QueueFair
  <2>2. /\ Fair(EnqueueRing(pcb', ring, h + 1)) /\ Grows(ring, EnqueueRing(pcb', ring, h + 1))
        /\ QueuedPids(EnqueueRing(pcb', ring, h + 1)) = QueuedPids(ring) \cup {h + 1}
    BY <1>1, <1>3, <1>5, <2>1, FairEnqueue
  <2> QED BY <2>2
<1>7. Local(h) BY <1>1 DEF Local
<1>8. QueuedToo(h) BY <1>1, <1>2, <1>6 DEF QueuedToo
<1>9. Sound(h) BY <1>1, <1>4, <1>6 DEF Sound, SchedInv, WaitersThere
<1> QED BY <1>7, <1>8, <1>9, LocalKeeps, NextPidKept DEF Regime

LEMMA YieldKeeps ==
  ASSUME Regime, Known, SchedInv, Yield
  PROVE  StepOk
<1>1. /\ Here \in Slots \ {0} /\ pcb[Here].state \notin {"UNUSED", "BLOCKED", "AGENT_IDLE"}
      /\ Me = pcb[Here] /\ kcur = Here + 1 /\ schedCur = kcur /\ Me \in PcbType
      /\ SlotOf(kcur) = Here
  BY CallerIs, HereIn DEF Yield, Known, Here
<1> DEFINE p == IF Me.state = "RUNNING" THEN [Me EXCEPT !.state = "READY"] ELSE Me
           pcbs == [pcb EXCEPT ![Here] = p]
<1>2. /\ p \in PcbType /\ p.prio = Me.prio /\ p.parent = Me.parent
      /\ p.waiting = Me.waiting /\ p.state \notin {"UNUSED", "BLOCKED", "AGENT_IDLE"}
  BY <1>1 DEF PcbType, States
<1>3. pcbs = IF Me.state = "RUNNING" THEN [pcb EXCEPT ![Here].state = "READY"] ELSE pcb
  BY <1>1 DEF Known, TypeOK
<1>4. pcb' = EnqueuePcb(pcbs, ring, kcur) /\ ring' = EnqueueRing(pcbs, ring, kcur)
  BY <1>3 DEF Yield
<1> HIDE DEF p
<1>5. pcbs[Here] = p BY <1>1 DEF Known, TypeOK
<1>6. pcb' = pcbs BY <1>1, <1>2, <1>4, <1>5 DEF EnqueuePcb
<1>7. /\ schedCur' = INVALID /\ UNCHANGED <<kcur, nextPid, waiter>>
  BY DEF Yield, YieldCurrent, ipcVars
<1> HIDE DEF pcbs
<1>8. ring' = EnqueueRing(pcb', ring, Here + 1) BY <1>1, <1>4, <1>6
<1> QED BY <1>1, <1>2, <1>6, <1>7, <1>8, QueuedKeeps DEF pcbs

LEMMA WokenIs ==
  ASSUME NEW p \in PcbType
  PROVE  /\ Woken(p) \in PcbType /\ Woken(p).state = "READY"
         /\ Woken(p).prio = p.prio /\ Woken(p).parent = p.parent
         /\ Woken(p).waiting = INVALID
BY RewritePcb DEF Woken, PcbType

LEMMA SendKeeps ==
  ASSUME Regime, Known, SchedInv, NEW target \in Pids, Send(target)
  PROVE  StepOk
<1> DEFINE t == SlotOf(target)
<1>1. t \in Slots /\ target = t + 1 /\ pcb[t] \in PcbType /\ pcb[t].state # "UNUSED"
  BY SlotOfPid, PidRange DEF Pids, Regime, Send, Exists, Known, TypeOK
<1>2. UNCHANGED <<kcur, nextPid, schedCur, waiter>> BY DEF Send
<1>3. CASE WokenBySend(pcb[t])
  <2>1. pcb' = [pcb EXCEPT ![t] = Woken(pcb[t])] /\ ring' = EnqueueRing(pcb', ring, target)
    BY <1>3 DEF Send
  <2>2. t # 0 BY <1>3 DEF WokenBySend, SchedInv, KernelThere
  <2>3. Woken(pcb[t]) \in PcbType /\ Woken(pcb[t]).state = "READY"
        /\ Woken(pcb[t]).prio = pcb[t].prio /\ Woken(pcb[t]).parent = pcb[t].parent
        /\ Woken(pcb[t]).waiting = INVALID
    BY <1>1, WokenIs
  <2> DEFINE p == Woken(pcb[t])
  <2> HIDE DEF t, p
  <2> QED BY <1>1, <1>2, <2>1, <2>2, <2>3, QueuedKeeps DEF p
<1>4. CASE ~WokenBySend(pcb[t])
  <2>1. UNCHANGED <<pcb, ring>> BY <1>4 DEF Send
  <2> QED BY <1>2, <2>1, QuietKeeps, NextPidKept
<1> QED BY <1>3, <1>4

\* A waiting process on the CPU.
LEMMA PollerIs ==
  ASSUME Regime, Known, SchedInv, Polling
  PROVE  /\ Here \in Slots \ {0} /\ pcb[Here].state \notin {"UNUSED", "AGENT_IDLE"}
         /\ kcur = Here + 1 /\ schedCur = Here + 1 /\ waiter[Here].pid = Here + 1
         /\ pcb[Here] \in PcbType /\ Me = pcb[Here] /\ SlotOf(kcur) = Here
<1>1. Here \in Slots /\ kcur = Here + 1 /\ schedCur = kcur /\ waiter[Here] # NoWaiter
  BY HereIs DEF Regime, Polling
<1> QED BY <1>1 DEF SchedInv, WaitersThere, Known, TypeOK, Me, Here

LEMMA PollTimeoutKeeps ==
  ASSUME Regime, Known, SchedInv, PollTimeout
  PROVE  StepOk
<1>1. /\ Here \in Slots \ {0} /\ pcb[Here].state \notin {"UNUSED", "AGENT_IDLE"}
      /\ waiter[Here].pid = Here + 1 /\ pcb[Here] \in PcbType /\ Me = pcb[Here]
  BY PollerIs DEF PollTimeout
<1>2. waiter'[Here] = NoWaiter /\ \A i \in Slots \ {Here} : waiter'[i] = waiter[i]
  BY <1>1 DEF PollTimeout, Forget, Known, TypeOK
<1>3. UNCHANGED <<kcur, nextPid, schedCur>> BY DEF PollTimeout
<1>4. CASE Me.state = "BLOCKED"
  <2>1. pcb' = [pcb EXCEPT ![Here] = Woken(pcb[Here])]
        /\ ring' = EnqueueRing(pcb', ring, Here + 1)
    BY <1>1, <1>4 DEF PollTimeout
  <2> DEFINE p == Woken(pcb[Here])
  <2>2. p \in PcbType /\ p.state = "READY" /\ p.prio = pcb[Here].prio
        /\ p.parent = pcb[Here].parent /\ p.waiting = INVALID
    BY <1>1, WokenIs
  <2> HIDE DEF p
  <2> QED BY <1>1, <1>2, <1>3, <2>1, <2>2, QueuedKeeps DEF p
<1>5. CASE Me.state # "BLOCKED"
  <2>1. UNCHANGED <<pcb, ring>> BY <1>5 DEF PollTimeout
  <2>2. pcb' = [pcb EXCEPT ![Here] = pcb[Here]] BY <2>1 DEF Known, TypeOK
  <2> QED BY <1>1, <1>2, <1>3, <2>1, <2>2, OnePcbKeeps
<1> QED BY <1>4, <1>5

LEMMA PollReceiveKeeps ==
  ASSUME Regime, Known, SchedInv, PollReceive
  PROVE  StepOk
<1>1. /\ Here \in Slots \ {0} /\ pcb[Here].state \notin {"UNUSED", "AGENT_IDLE"}
      /\ schedCur = Here + 1 /\ pcb[Here] \in PcbType
  BY PollerIs DEF PollReceive
<1>2. waiter'[Here] = NoWaiter /\ \A i \in Slots \ {Here} : waiter'[i] = waiter[i]
  BY <1>1 DEF PollReceive, Forget, Known, TypeOK
<1>3. UNCHANGED <<kcur, nextPid, schedCur, ring>> BY DEF PollReceive, schedVars
<1> DEFINE p == [pcb[Here] EXCEPT !.state = "RUNNING", !.waiting = INVALID]
<1>4. p.state = "RUNNING" /\ p.prio = pcb[Here].prio /\ p.parent = pcb[Here].parent
      /\ p.waiting = INVALID
  BY <1>1 DEF PcbType
<1>5. pcb' = [pcb EXCEPT ![Here] = p]
  BY <1>1, BlockAtType DEF PollReceive, Known, INVALID
<1> HIDE DEF p
<1>6. pcb'[Here] = p /\ \A i \in Slots \ {Here} : pcb'[i] = pcb[i]
  BY <1>1, <1>5 DEF Known, TypeOK
<1>7. Local(Here) BY <1>2, <1>3, <1>6 DEF Local
<1>8. QueuedToo(Here) BY <1>3 DEF QueuedToo
<1>9. Alike(p) BY <1>1, <1>4 DEF Alike, SchedInv, ProcsAlike
<1>10. Sound(Here) BY <1>1, <1>2, <1>3, <1>4, <1>6, <1>9 DEF Sound
<1> QED BY <1>1, <1>3, <1>7, <1>8, <1>10, LocalKeeps, NextPidKept DEF Regime

\* Whom a broadcast wakes.
LEMMA WokenAre ==
  ASSUME Regime, Known, SchedInv, NEW sender, NEW p \in BroadcastWoken(sender)
  PROVE  /\ p - 1 \in Slots \ {0} /\ SlotOf(p) = p - 1
         /\ pcb[p - 1].state = "AGENT_IDLE"
         /\ p \in 2 .. MaxPid /\ p < nextPid
<1>1. p \in 1 .. MaxProcs /\ p # 1 /\ pcb[SlotOf(p)].state = "AGENT_IDLE"
  BY DEF BroadcastWoken, BroadcastTargets, Inboxes, KERNEL
<1>2. p - 1 \in 0 .. MaxProcs - 1 BY <1>1, PidRange
<1>3. SlotOf(p) = p - 1 BY <1>2, ModSmall, PidRange DEF SlotOf
<1>4. p - 1 \in Slots /\ p - 1 # 0 /\ (p - 1) + 1 = p BY <1>1, <1>2 DEF Slots
<1>5. pcb[p - 1].state = "AGENT_IDLE" BY <1>1, <1>3
<1>6. p \in 1 .. MaxPid /\ p < nextPid BY <1>4, <1>5, UsedSlot DEF Regime
<1> QED BY <1>1, <1>3, <1>4, <1>5, <1>6, PidRange

LEMMA BroadcastKeeps ==
  ASSUME Regime, Known, SchedInv, TypeOK', RingShape', Broadcast
  PROVE  StepOk
<1> DEFINE W == BroadcastWoken(kcur)
<1>1. /\ pcb' = BroadcastPcb(kcur) /\ ring' = BroadcastRing(kcur)
      /\ UNCHANGED <<nextPid, kcur, schedCur, waiter>>
  BY DEF Broadcast
<1>2. pcb \in TableType /\ pcb' \in TableType /\ ring' \in RingType /\ WellShaped(ring')
  BY DEF Known, TypeOK, TableType, RingShape
<1>3. \A p \in W : /\ p - 1 \in Slots \ {0} /\ SlotOf(p) = p - 1
                   /\ pcb[p - 1].state = "AGENT_IDLE"
                   /\ p \in 2 .. MaxPid /\ p < nextPid
  BY WokenAre
<1> HIDE DEF W
<1>4. \A i \in Slots : /\ \/ pcb'[i] = pcb[i]
                          \/ i + 1 \in W /\ pcb'[i] = [pcb[i] EXCEPT !.state = "READY"]
  <2> SUFFICES ASSUME NEW i \in Slots
               PROVE  \/ pcb'[i] = pcb[i]
                      \/ i + 1 \in W /\ pcb'[i] = [pcb[i] EXCEPT !.state = "READY"]
    OBVIOUS
  <2>1. CASE \E p \in W : SlotOf(p) = i
    <3>1. PICK p \in W : SlotOf(p) = i BY <2>1
    <3>2. i + 1 = p BY <1>3, <3>1
    <3> QED BY <1>1, <2>1, <3>1, <3>2 DEF BroadcastPcb, W
  <2>2. CASE ~\E p \in W : SlotOf(p) = i
    BY <1>1, <2>2 DEF BroadcastPcb, W
  <2> QED BY <2>1, <2>2
<1>5. \A i \in Slots : /\ pcb'[i].prio = pcb[i].prio /\ pcb'[i].parent = pcb[i].parent
                       /\ pcb'[i].agent = pcb[i].agent /\ pcb'[i].waiting = pcb[i].waiting
                       /\ \/ pcb'[i].state = pcb[i].state
                          \/ i + 1 \in W /\ pcb'[i].state = "READY"
  BY <1>2, <1>4 DEF TableType, PcbType
<1>6. W \subseteq 2 .. MaxPid BY <1>3
<1>7. \A p \in W : pcb'[SlotOf(p)].prio = DefaultPrio
  BY <1>3, <1>5 DEF SchedInv, ProcsAlike, Alike
<1>8. MaxPid <= QueueSize + 1 /\ Fair(ring)
  BY DEF Regime, PidsNotReused, SchedInv, QueueFair
<1>9. /\ Fair(ring') /\ Grows(ring, ring')
      /\ QueuedPids(ring') = QueuedPids(ring) \cup W
  BY <1>1, <1>2, <1>6, <1>7, <1>8, FairBroadcast DEF W
<1>10. \A i \in Slots : i + 1 \in W => i # 0 /\ pcb[i].state = "AGENT_IDLE"
  <2> SUFFICES ASSUME NEW i \in Slots, i + 1 \in W PROVE i # 0 /\ pcb[i].state = "AGENT_IDLE"
    OBVIOUS
  <2>1. (i + 1) - 1 = i BY DEF Slots
  <2> QED BY <1>3, <2>1
<1>11. QueueFair'
  BY <1>1, <1>3, <1>9 DEF SchedInv, QueueFair
<1>12. KernelThere'
  <2>1. 0 \in Slots BY PidRange DEF Slots
  <2> QED BY <1>5, <1>10, <2>1 DEF SchedInv, KernelThere
<1>13. ProcsAlike' BY <1>5, <1>10 DEF SchedInv, ProcsAlike, Alike
<1>14. WaitersThere' BY <1>1, <1>5 DEF SchedInv, WaitersThere
<1>15. RunnableKnown' BY <1>1, <1>5, <1>9 DEF SchedInv, RunnableKnown
<1>16. SchedInv' BY <1>1, <1>11, <1>12, <1>13, <1>14, <1>15 DEF SchedInv
<1>17. Awakened BY <1>5, <1>9 DEF Awakened
<1>18. W \subseteq Runnable'
  <2> SUFFICES ASSUME NEW p \in W PROVE p \in Runnable'
    OBVIOUS
  <2>1. p - 1 \in Slots \ {0} /\ pcb[p - 1].state = "AGENT_IDLE" /\ (p - 1) + 1 = p
    BY <1>3, PidRange
  <2>2. CASE pcb'[p - 1].state = "READY" BY <2>1, <2>2 DEF Runnable
  <2>3. CASE pcb'[p - 1].state # "READY"
    <3>1. p - 1 \in Slots /\ SlotOf(p) = p - 1 BY <1>3
    <3>2. pcb'[p - 1] = [pcb[p - 1] EXCEPT !.state = "READY"]
      BY <1>1, <3>1 DEF BroadcastPcb, W
    <3> QED BY <1>2, <2>3, <3>1, <3>2 DEF TableType, PcbType
  <2> QED BY <2>2, <2>3
<1>19. Joined BY <1>9, <1>18 DEF Joined
<1> QED BY <1>16, <1>17, <1>19 DEF StepOk

-----------------------------------------------------------------------------
(* The timer.                                                               *)

LEMMA WaitersElapse ==
  ASSUME Known, waiter' = Elapsed(waiter), NEW i \in Slots
  PROVE  /\ waiter'[i].pid = waiter[i].pid /\ waiter'[i].filter = waiter[i].filter
         /\ waiter'[i] # NoWaiter => waiter[i] # NoWaiter
<1>1. waiter[i] \in WaiterType BY DEF Known, TypeOK
<1>2. waiter'[i] = [waiter[i] EXCEPT !.left = IF @ > 0 THEN @ - 1 ELSE @]
  BY DEF Elapsed
<1>3. waiter'[i].pid = waiter[i].pid /\ waiter'[i].filter = waiter[i].filter
  BY <1>1, <1>2 DEF WaiterType
<1>4. ASSUME waiter[i] = NoWaiter PROVE waiter'[i] = NoWaiter
  BY <1>2, <1>4 DEF NoWaiter
<1> QED BY <1>3, <1>4

LEMMA KeepRunningKeeps ==
  ASSUME Regime, Known, SchedInv, Tick, KeepRunning
  PROVE  StepOk
<1>1. /\ ring' = Aged(ring) /\ waiter' = Elapsed(waiter)
      /\ UNCHANGED <<pcb, kcur, schedCur, nextPid>>
  BY DEF Tick, KeepRunning
<1>2. Fair(ring') /\ QueuedPids(ring') = QueuedPids(ring) /\ Grows(ring, ring')
  BY <1>1, FairAged DEF SchedInv, QueueFair
<1>3. WaitersThere' BY <1>1, WaitersElapse DEF SchedInv, WaitersThere
<1>4. SchedInv'
  BY <1>1, <1>2, <1>3 DEF SchedInv, QueueFair, KernelThere, ProcsAlike, RunnableKnown
<1>5. Awakened BY <1>1 DEF Awakened
<1> QED BY <1>2, <1>4, <1>5 DEF StepOk, Joined

\* The ring a switch dequeues from: with the process that leaves the CPU it
\* holds everyone who can run.
LEMMA SwitchRingIs ==
  ASSUME Regime, Known, SchedInv, NEW r, r = SwitchRing
  PROVE  /\ Fair(r) /\ Grows(ring, r) /\ \A pid \in QueuedPids(r) : pid < nextPid
         /\ \A i \in Slots \ {0} :
               pcb[i].state \in {"READY", "RUNNING"} => i + 1 \in QueuedPids(r)
         /\ \A i \in Slots :
               i + 1 \in QueuedPids(r) => i + 1 \in QueuedPids(ring) \/ pcb[i].state = "RUNNING"
<1>1. /\ Fair(Aged(ring)) /\ QueuedPids(Aged(ring)) = QueuedPids(ring)
      /\ Grows(ring, Aged(ring))
  BY FairAged DEF SchedInv, QueueFair
<1>2. \A pid \in QueuedPids(ring) : pid < nextPid BY DEF SchedInv, QueueFair
<1>3. CASE MustRequeue
  <2>1. /\ schedCur = kcur /\ schedCur # 1 /\ Exists(pcb, schedCur)
        /\ pcb[SlotOf(schedCur)].state = "RUNNING"
    BY <1>3 DEF MustRequeue, KERNEL, Known, CpuAgrees
  <2>2. /\ Here \in Slots \ {0} /\ schedCur = Here + 1 /\ SlotOf(schedCur) = Here
        /\ schedCur \in 2 .. MaxPid
    BY <2>1, HereIs, PidRange DEF Regime, KERNEL, Here, SchedInv
  <2>3. pcb[SlotOf(schedCur)].prio = DefaultPrio /\ pcb \in TableType
    BY <2>1, <2>2 DEF SchedInv, ProcsAlike, Alike, Known, TypeOK, TableType
  <2>4. r = EnqueueRing(pcb, Aged(ring), schedCur) BY <1>3 DEF SwitchRing
  <2>5. MaxPid <= QueueSize + 1 BY DEF Regime, PidsNotReused
  <2>6. /\ Fair(EnqueueRing(pcb, Aged(ring), schedCur))
        /\ QueuedPids(EnqueueRing(pcb, Aged(ring), schedCur)) = QueuedPids(ring) \cup {schedCur}
        /\ Grows(Aged(ring), EnqueueRing(pcb, Aged(ring), schedCur))
    BY <1>1, <2>1, <2>2, <2>3, <2>5, FairEnqueue
  <2>7. Fair(r) /\ QueuedPids(r) = QueuedPids(ring) \cup {schedCur} /\ Grows(ring, r)
    BY <1>1, <2>4, <2>6 DEF Grows
  <2>8. schedCur < nextPid BY <2>1, <2>2, UsedSlot DEF Regime
  <2>9. ASSUME NEW i \in Slots, i + 1 = schedCur PROVE pcb[i].state = "RUNNING"
    <3>1. i = Here BY <2>2, <2>9 DEF Slots
    <3> QED BY <2>1, <2>2, <3>1
  <2> QED BY <1>2, <2>7, <2>8, <2>9 DEF SchedInv, RunnableKnown
<1>4. CASE ~MustRequeue
  <2>1. r = Aged(ring) BY <1>4 DEF SwitchRing
  <2>2. ASSUME NEW i \in Slots \ {0}, pcb[i].state = "RUNNING" PROVE i + 1 # schedCur
    <3> SUFFICES ASSUME i + 1 = schedCur PROVE FALSE
      OBVIOUS
    <3>1. i + 1 \in 1 .. MaxPid /\ SlotOf(i + 1) = i BY <2>2, UsedSlot DEF Regime
    <3>2. schedCur # INVALID /\ schedCur # KERNEL BY <3>1 DEF INVALID, KERNEL, Slots
    <3> QED BY <1>4, <2>2, <3>1, <3>2 DEF MustRequeue, Exists
  <2> QED BY <1>1, <1>2, <2>1, <2>2 DEF SchedInv, RunnableKnown
<1> QED BY <1>3, <1>4

LEMMA GoIdleKeeps ==
  ASSUME Regime, Known, SchedInv, Tick, GoIdle
  PROVE  StepOk
<1>1. /\ ring' = SwitchRing /\ SwitchRing.count = 0 /\ waiter' = Elapsed(waiter)
      /\ schedCur' = KERNEL /\ kcur' = KERNEL /\ UNCHANGED <<pcb, nextPid>>
  BY DEF Tick, GoIdle
<1>2. /\ Fair(ring') /\ Grows(ring, ring') /\ \A pid \in QueuedPids(ring') : pid < nextPid
      /\ \A i \in Slots \ {0} :
            pcb[i].state \in {"READY", "RUNNING"} => i + 1 \in QueuedPids(ring')
  BY <1>1, SwitchRingIs
<1>3. WaitersThere' BY <1>1, WaitersElapse DEF SchedInv, WaitersThere
<1>4. KERNEL \in 1 .. MaxPid BY PidRange DEF KERNEL
<1>5. SchedInv'
  BY <1>1, <1>2, <1>3, <1>4 DEF SchedInv, QueueFair, KernelThere, ProcsAlike, RunnableKnown
<1>6. Awakened BY <1>1 DEF Awakened
<1>7. QueuedPids(ring') = {} BY <1>1 DEF QueuedPids, Positions
<1> QED BY <1>2, <1>5, <1>6, <1>7 DEF StepOk, Joined

\* What a switch takes: the head of that ring, and everyone else moves up.
LEMMA SwitchIs ==
  ASSUME Regime, Known, SchedInv, SwitchTo, NEW r, r = SwitchRing
  PROVE  /\ Fair(ring') /\ kcur' = schedCur' /\ schedCur' \in QueuedPids(r)
         /\ 0 \in Positions(r) /\ schedCur' = EntryAt(r, 0).pid
         /\ QueuedPids(ring') = QueuedPids(r) \ {schedCur'}
         /\ \A j \in Positions(ring') :
               j + 1 \in Positions(r) /\ EntryAt(ring', j) = EntryAt(r, j + 1)
         /\ pcb' = IF Exists(pcb, schedCur')
                   THEN [pcb EXCEPT ![SlotOf(schedCur')].state = "RUNNING"] ELSE pcb
<1>1. Fair(r) BY SwitchRingIs
<1>2. pcb \in TableType BY DEF Known, TypeOK, TableType
<1>3. BoostRing(r) = r /\ BoostPcbs(pcb, r) = pcb 
  BY <1>1, <1>2, NobodyBoosted DEF Regime, EqualPriorities
<1>4. PICK k \in Positions(r) : /\ IsBest(r, k) /\ SwitchToEntry(EntryAt(r, k), pcb)
                                /\ ring' = RemoveSlot(r, SlotAt(r, k))
  BY <1>3 DEF SwitchTo
<1>5. /\ k = 0 /\ Fair(ring') /\ QueuedPids(ring') = QueuedPids(r) \ {EntryAt(r, k).pid}
      /\ \A j \in Positions(ring') :
               j + 1 \in Positions(r) /\ EntryAt(ring', j) = EntryAt(r, j + 1)
  BY <1>1, <1>4, FairTaken
<1>6. schedCur' = EntryAt(r, k).pid /\ kcur' = schedCur' BY <1>4 DEF SwitchToEntry
<1>7. schedCur' \in QueuedPids(r) BY <1>6 DEF QueuedPids
<1>8. pcb' = IF Exists(pcb, schedCur')
             THEN [pcb EXCEPT ![SlotOf(schedCur')].state = "RUNNING"] ELSE pcb
  BY <1>4, <1>6 DEF SwitchToEntry
<1> QED BY <1>4, <1>5, <1>6, <1>7, <1>8

LEMMA SwitchKeeps ==
  ASSUME Regime, Known, SchedInv, Tick, SwitchTo
  PROVE  StepOk
<1> DEFINE r == SwitchRing
           pid == schedCur'
           t == pid - 1
<1>1. /\ Fair(r) /\ Grows(ring, r) /\ \A p \in QueuedPids(r) : p < nextPid
      /\ \A i \in Slots \ {0} :
            pcb[i].state \in {"READY", "RUNNING"} => i + 1 \in QueuedPids(r)
      /\ \A i \in Slots :
            i + 1 \in QueuedPids(r) => i + 1 \in QueuedPids(ring) \/ pcb[i].state = "RUNNING"
  BY SwitchRingIs
<1>2. /\ Fair(ring') /\ kcur' = pid /\ pid \in QueuedPids(r)
      /\ QueuedPids(ring') = QueuedPids(r) \ {pid}
      /\ pcb' = IF Exists(pcb, pid) THEN [pcb EXCEPT ![SlotOf(pid)].state = "RUNNING"] ELSE pcb
  BY SwitchIs
<1>3. waiter' = Elapsed(waiter) /\ nextPid' = nextPid BY DEF Tick
<1>4. pcb \in TableType BY DEF Known, TypeOK, TableType
<1> HIDE DEF r
<1>5. pid \in 2 .. MaxPid BY <1>1, <1>2 DEF Fair, QueuedPids
<1> HIDE DEF pid
<1>6. t \in Slots /\ t # 0 /\ SlotOf(pid) = t /\ pid = t + 1 /\ pid \in 1 .. MaxPid /\ pid # 0
  BY <1>5, SlotOfPid, PidRange DEF Regime
<1> HIDE DEF t
<1>7. /\ \A i \in Slots \ {t} : pcb'[i] = pcb[i]
      /\ pcb'[t].state = "RUNNING" \/ (pcb'[t] = pcb[t] /\ pcb[t].state = "UNUSED")
      /\ pcb'[t].prio = pcb[t].prio /\ pcb'[t].parent = pcb[t].parent
      /\ pcb'[t].waiting = pcb[t].waiting
      /\ pcb[t].state = "UNUSED" => pcb'[t].state = "UNUSED"
  <2>1. CASE Exists(pcb, pid)
    <3>1. pcb' = [pcb EXCEPT ![t].state = "RUNNING"] BY <1>2, <1>6, <2>1
    <3> QED BY <1>4, <1>6, <2>1, <3>1 DEF TableType, PcbType, Exists
  <2>2. CASE ~Exists(pcb, pid)
    BY <1>2, <1>6, <2>2 DEF Exists, INVALID
  <2> QED BY <2>1, <2>2
<1>8. \A i \in Slots \ {t} : i + 1 # pid BY <1>6 DEF Slots
<1>9. QueueFair' BY <1>1, <1>2, <1>3 DEF QueueFair
<1>10. KernelThere'
  <2>1. 0 \in Slots BY PidRange DEF Slots
  <2> QED BY <1>6, <1>7, <2>1 DEF SchedInv, KernelThere
<1>11. ProcsAlike' BY <1>7 DEF SchedInv, ProcsAlike, Alike
<1>12. WaitersThere'
  <2> SUFFICES ASSUME NEW i \in Slots, waiter'[i] # NoWaiter
               PROVE  i # 0 /\ waiter'[i].pid = i + 1 /\ pcb'[i].state \notin {"UNUSED", "AGENT_IDLE"}
    BY DEF WaitersThere
  <2>1. i # 0 /\ waiter'[i].pid = i + 1 /\ pcb[i].state \notin {"UNUSED", "AGENT_IDLE"}
    BY <1>3, WaitersElapse DEF SchedInv, WaitersThere
  <2> QED BY <1>7, <2>1
<1>13. RunnableKnown'
  <2> SUFFICES ASSUME NEW i \in Slots \ {0}, pcb'[i].state \in {"READY", "RUNNING"}
               PROVE  /\ i + 1 \in QueuedPids(ring') \cup {pid}
                      /\ pcb'[i].state = "READY" => i + 1 \in QueuedPids(ring')
    BY DEF RunnableKnown, pid
  <2>1. CASE i = t BY <1>6, <1>7, <2>1
  <2>2. CASE i # t BY <1>1, <1>2, <1>7, <1>8, <2>2
  <2> QED BY <2>1, <2>2
<1>14. kcur' \in 1 .. MaxPid BY <1>2, <1>6
<1>15. SchedInv' BY <1>3, <1>9, <1>10, <1>11, <1>12, <1>13, <1>14 DEF SchedInv
<1>16. Awakened
  <2> SUFFICES ASSUME NEW i \in Slots, pcb[i].state = "AGENT_IDLE",
                      pcb'[i].state \in {"READY", "RUNNING"}
               PROVE  i + 1 \in QueuedPids(ring)
    BY DEF Awakened
  <2>1. i = t BY <1>7
  <2> QED BY <1>1, <1>2, <1>6, <2>1
<1> QED BY <1>15, <1>16 DEF StepOk

LEMMA SchedInvInit ==
  ASSUME Init PROVE SchedInv
<1>1. /\ \A i \in Slots : pcb[i] = IF i = 0 THEN KernelPcb ELSE UnusedPcb
      /\ 0 \in Slots
  BY PidRange DEF Init, ProcInit, Slots
<1>2. /\ KernelPcb.state = "RUNNING" /\ KernelPcb.agent = FALSE /\ UnusedPcb.state = "UNUSED"
  BY DEF KernelPcb, UnusedPcb
<1>3. ring = EmptyRing /\ kcur = 1 /\ nextPid = 2 /\ \A i \in Slots : waiter[i] = NoWaiter
  BY DEF Init, ProcInit, SchedInit, IpcInit, KERNEL
<1>4. Positions(ring) = {} BY <1>3 DEF Positions, EmptyRing
<1>5. QueueFair BY <1>3, <1>4, EmptyRingType DEF QueueFair, Fair, QueuedPids
<1>6. KernelThere BY <1>1, <1>2 DEF KernelThere
<1>7. ProcsAlike /\ WaitersThere /\ RunnableKnown
  BY <1>1, <1>2, <1>3 DEF ProcsAlike, WaitersThere, RunnableKnown
<1>8. kcur \in 1 .. MaxPid /\ nextPid \in 2 .. MaxPid + 1 BY <1>3, PidRange
<1> QED BY <1>5, <1>6, <1>7, <1>8 DEF SchedInv

LEMMA StepKeeps ==
  ASSUME Regime, Known, Known', SchedInv, [Next]_vars
  PROVE  StepOk
<1>1. CASE Tick
  BY <1>1, KeepRunningKeeps, GoIdleKeeps, SwitchKeeps DEF Tick, SchedStep
<1>2. CASE Exit \/ Yield BY <1>2, ExitKeeps, YieldKeeps
<1>3. CASE \E pid \in Pids :
              \/ \E agent \in AgentKinds : Spawn(pid, agent)
              \/ SpawnNoStack(pid) \/ Kill(pid) \/ Wait(pid)
  BY <1>3, SpawnKeeps, SpawnNoStackKeeps, KillKeeps, WaitKeeps, KernelAssumption DEF Known
<1>4. CASE \E pid \in Pids :
              \/ \E prio \in Priorities : SetPriority(pid, prio)
              \/ BcLoad(pid) \/ BcExec(pid) \/ Send(pid)
  BY <1>4, BytecodeKeeps, SendKeeps, CallerIs DEF SetPriority
<1>5. CASE \E st \in {"AGENT_IDLE", "AGENT_THINKING"} : SetState(st)
  BY <1>5, SetStateKeeps
<1>6. CASE \E filter \in Filters :
              \/ RecvNow(filter)
              \/ \E timeout \in Timeouts \cup {FOREVER} : RecvBlock(filter, timeout)
  BY <1>6, RecvNowKeeps, RecvBlockKeeps
<1>7. CASE PollTimeout \/ PollReceive BY <1>7, PollTimeoutKeeps, PollReceiveKeeps
<1>8. CASE Broadcast BY <1>8, BroadcastKeeps DEF Known
<1>9. CASE UNCHANGED vars
  BY <1>9, QuietKeeps, NextPidKept DEF vars, procVars, schedVars, ipcVars
<1> QED BY <1>1, <1>2, <1>3, <1>4, <1>5, <1>6, <1>7, <1>8, <1>9 DEF Next

\* The invariants that hold in every regime.
LEMMA KnownHolds == Spec => []Known
<1>1. Spec => [](TypeOK /\ RingShape) BY TypesAndShape, PTL DEF WellFormed
<1>2. Spec => []PidsValid BY PidsAreValid
<1>3. Spec => []CpuAgrees BY CpuAgreement
<1> QED BY <1>1, <1>2, <1>3, PTL DEF Known

LEMMA SchedInvHolds == ASSUME Regime PROVE Spec => []SchedInv
<1>1. Init => SchedInv BY SchedInvInit
<1>2. Known /\ Known' /\ SchedInv /\ [Next]_vars => SchedInv'
  BY StepKeeps DEF StepOk
<1>3. Spec => []Known BY KnownHolds
<1> QED BY <1>1, <1>2, <1>3, PTL DEF Spec

\* In the regime no runnable process is lost: whatever processes spawn, exit,
\* kill, yield, send, broadcast, receive and time out, one that is READY or
\* RUNNING is queued or on the CPU (flux_sched_run, flux_sched_enqueue).
THEOREM NobodyIsLost == ASSUME Regime PROVE Spec => []RunnableScheduled
<1>1. Known /\ SchedInv => RunnableScheduled
  <2> SUFFICES ASSUME Known, SchedInv, NEW i \in Slots, pcb[i].state \in {"READY", "RUNNING"}
               PROVE  pcb[i].pid \in QueuedPids(ring) \cup {schedCur, KERNEL}
    BY DEF RunnableScheduled
  <2>1. pcb[i].pid = i + 1 BY UsedSlot DEF Regime
  <2>2. CASE i = 0 BY <2>1, <2>2 DEF KERNEL
  <2>3. CASE i # 0 BY <2>1, <2>3 DEF SchedInv, RunnableKnown
  <2> QED BY <2>2, <2>3
<1>2. Spec => []Known BY KnownHolds
<1>3. Spec => []SchedInv BY SchedInvHolds
<1> QED BY <1>1, <1>2, <1>3, PTL

\* In the regime an agent that a message or a broadcast wakes reaches the
\* scheduler (flux_a2a_send, flux_a2a_broadcast).
THEOREM TheAwakeAreScheduled == ASSUME Regime PROVE Spec => AwakeIsScheduled
<1>1. Known /\ Known' /\ SchedInv /\ [Next]_vars => [Awake]_vars
  <2> SUFFICES ASSUME Known, Known', SchedInv, [Next]_vars, NEW i \in Slots,
                      pcb[i].state = "AGENT_IDLE", pcb'[i].state \in {"READY", "RUNNING"}
               PROVE  pcb[i].pid \in QueuedPids(ring) \cup QueuedPids(ring')
    BY DEF Awake
  <2>1. Awakened BY StepKeeps DEF StepOk
  <2>2. pcb[i].pid = i + 1 BY UsedSlot DEF Regime
  <2> QED BY <2>1, <2>2 DEF Awakened
<1>2. Spec => []Known BY KnownHolds
<1>3. Spec => []SchedInv BY SchedInvHolds
<1> QED BY <1>1, <1>2, <1>3, PTL DEF Spec, AwakeIsScheduled

-----------------------------------------------------------------------------
(* Round robin: the queue is a waiting line.                                *)

\* What a fair queue is as a line.
LEMMA LineOfIs ==
  ASSUME NEW r, Fair(r)
  PROVE  /\ LineOf(r) \in Seq(2 .. MaxPid) /\ Len(LineOf(r)) = r.count
         /\ r.count \in Nat /\ DOMAIN LineOf(r) = 1 .. r.count
         /\ \A k \in Positions(r) : k + 1 \in 1 .. r.count
                                    /\ LineOf(r)[k + 1] = EntryAt(r, k).pid
         /\ \A k \in 1 .. r.count : k - 1 \in Positions(r)
                                    /\ LineOf(r)[k] = EntryAt(r, k - 1).pid
         /\ Line!Members(LineOf(r)) = QueuedPids(r)
<1>1. r.count \in Nat BY FairCount
<1>2. \A k \in 1 .. r.count : k - 1 \in Positions(r) /\ EntryAt(r, k - 1).pid \in 2 .. MaxPid
  BY <1>1 DEF Fair, Positions
<1>3. DOMAIN LineOf(r) = 1 .. r.count /\ \A k \in 1 .. r.count : LineOf(r)[k] = EntryAt(r, k - 1).pid
  BY DEF LineOf
<1>4. LineOf(r) \in [1 .. r.count -> 2 .. MaxPid] BY <1>2 DEF LineOf
<1>5. LineOf(r) \in Seq(2 .. MaxPid) /\ Len(LineOf(r)) = r.count
  <2> DEFINE x == LineOf(r)
             n == r.count
             S == 2 .. MaxPid
  <2>1. n \in Nat /\ x \in [1 .. n -> S] BY <1>1, <1>4
  <2> HIDE DEF x, n, S
  <2>2. x \in Seq(S) BY <2>1
  <2>3. Len(x) \in Nat /\ DOMAIN x = 1 .. Len(x) BY <2>2, LenProperties
  <2>4. Len(x) = n BY <2>1, <2>3
  <2> QED BY <2>2, <2>4 DEF x, n, S
<1>6. ASSUME NEW k \in Positions(r)
      PROVE  k + 1 \in 1 .. r.count /\ LineOf(r)[k + 1] = EntryAt(r, k).pid
  <2>1. k + 1 \in 1 .. r.count /\ (k + 1) - 1 = k BY <1>1 DEF Positions
  <2> QED BY <1>3, <2>1
<1>7. Line!Members(LineOf(r)) = QueuedPids(r)
  <2>1. Line!Members(LineOf(r)) \subseteq QueuedPids(r)
    BY <1>2, <1>3 DEF Line!Members, QueuedPids
  <2>2. QueuedPids(r) \subseteq Line!Members(LineOf(r))
    BY <1>3, <1>6 DEF Line!Members, QueuedPids
  <2> QED BY <2>1, <2>2
<1> QED BY <1>1, <1>2, <1>3, <1>5, <1>6, <1>7

LEMMA LineInLines == ASSUME NEW r, Fair(r) PROVE LineOf(r) \in Line!Lines
<1>1. /\ LineOf(r) \in Seq(2 .. MaxPid) /\ DOMAIN LineOf(r) = 1 .. r.count
      /\ \A k \in 1 .. r.count : k - 1 \in Positions(r) /\ LineOf(r)[k] = EntryAt(r, k - 1).pid
  BY LineOfIs
<1>2. 2 .. MaxPid = Pids \ {KERNEL} BY PidRange DEF Pids, KERNEL
<1>3. ASSUME NEW j \in 1 .. r.count, NEW k \in 1 .. r.count, LineOf(r)[j] = LineOf(r)[k]
      PROVE  j = k
  <2>1. j - 1 = k - 1 BY <1>1, <1>3 DEF Fair
  <2> QED BY <2>1
<1> QED BY <1>1, <1>2, <1>3 DEF Line!Lines

LEMMA GrowsBehind ==
  ASSUME NEW r, NEW s, Fair(r), Fair(s), Grows(r, s)
  PROVE  Line!Behind(LineOf(r), LineOf(s))
<1> SUFFICES ASSUME NEW k \in DOMAIN LineOf(r)
             PROVE  k \in DOMAIN LineOf(s) /\ LineOf(s)[k] = LineOf(r)[k]
  BY DEF Line!Behind
<1>1. k \in 1 .. r.count /\ k - 1 \in Positions(r) /\ LineOf(r)[k] = EntryAt(r, k - 1).pid
  BY LineOfIs
<1>2. k - 1 \in Positions(s) /\ EntryAt(s, k - 1).pid = EntryAt(r, k - 1).pid
  BY <1>1 DEF Grows
<1>3. (k - 1) + 1 = k BY <1>1
<1>4. k \in DOMAIN LineOf(s) /\ LineOf(s)[k] = EntryAt(s, k - 1).pid
  BY <1>2, <1>3, LineOfIs
<1> QED BY <1>1, <1>2, <1>4

\* Nobody is new: it is the same line.
LEMMA SameLine ==
  ASSUME NEW r, NEW s, Fair(r), Fair(s), Grows(r, s), QueuedPids(s) = QueuedPids(r)
  PROVE  LineOf(s) = LineOf(r)
<1>1. s.count = r.count BY QueueIs
<1>2. DOMAIN LineOf(s) = DOMAIN LineOf(r) BY <1>1, LineOfIs
<1>3. \A k \in DOMAIN LineOf(r) : LineOf(s)[k] = LineOf(r)[k] BY GrowsBehind DEF Line!Behind
<1> QED BY <1>2, <1>3 DEF LineOf

\* One is new: it is the last.
LEMMA JoinsAtEnd ==
  ASSUME NEW r, NEW s, Fair(r), Fair(s), Grows(r, s), NEW pid, pid \notin QueuedPids(r),
         QueuedPids(s) = QueuedPids(r) \cup {pid}
  PROVE  LineOf(s) = Append(LineOf(r), pid)
<1>1. s.count = r.count + 1 BY QueueIs, FS_AddElement
<1>2. /\ r.count \in Nat /\ Len(LineOf(r)) = r.count /\ LineOf(r) \in Seq(2 .. MaxPid)
      /\ DOMAIN LineOf(r) = 1 .. r.count /\ DOMAIN LineOf(s) = 1 .. r.count + 1
      /\ LineOf(s) \in Seq(2 .. MaxPid)
  BY <1>1, LineOfIs
<1>3. PICK k \in Positions(s) : EntryAt(s, k).pid = pid BY DEF QueuedPids
<1>4. k \notin Positions(r) BY <1>3 DEF Grows, QueuedPids
<1>5. k = r.count BY <1>1, <1>2, <1>3, <1>4 DEF Positions
<1>6. LineOf(s)[r.count + 1] = pid BY <1>3, <1>5, LineOfIs
<1>7. \A j \in 1 .. r.count : LineOf(s)[j] = LineOf(r)[j]
  BY <1>2, GrowsBehind DEF Line!Behind
<1> DEFINE x == LineOf(r)
           y == LineOf(s)
           n == r.count
<1>8. /\ n \in Nat /\ x \in Seq(2 .. MaxPid) /\ Len(x) = n /\ DOMAIN x = 1 .. n
      /\ y \in Seq(2 .. MaxPid) /\ DOMAIN y = 1 .. n + 1
      /\ y[n + 1] = pid /\ \A j \in 1 .. n : y[j] = x[j]
  BY <1>2, <1>6, <1>7
<1> HIDE DEF x, y, n
<1>9. y = Append(x, pid) BY <1>8
<1> QED BY <1>9 DEF x, y

\* In its slot is who can run, and it is known to the scheduler.
LEMMA AbleIs ==
  Regime /\ Known /\ SchedInv =>
     /\ Able = Runnable /\ Able \subseteq 2 .. MaxPid
     /\ Able \subseteq QueuedPids(ring) \cup {kcur}
<1> SUFFICES ASSUME Regime, Known, SchedInv
             PROVE  /\ Able = Runnable /\ Able \subseteq 2 .. MaxPid
                    /\ Able \subseteq QueuedPids(ring) \cup {kcur}
  OBVIOUS
<1>1. \A i \in Slots : pcb[i].state \in {"READY", "RUNNING"} =>
         pcb[i].pid = i + 1 /\ i + 1 \in 1 .. MaxPid
  BY UsedSlot DEF Regime
<1>2. Able = Runnable BY <1>1 DEF Able, Runnable
<1>3. ASSUME NEW i \in Slots \ {0}, pcb[i].state \in {"READY", "RUNNING"}
      PROVE  i + 1 \in 2 .. MaxPid /\ i + 1 \in QueuedPids(ring) \cup {kcur}
  <2>1. i + 1 \in 2 .. MaxPid BY <1>1, <1>3 DEF Slots
  <2>2. i + 1 \in QueuedPids(ring) \cup {schedCur} BY <1>3 DEF SchedInv, RunnableKnown
  <2> QED BY <2>1, <2>2 DEF Known, CpuAgrees, INVALID
<1> QED BY <1>2, <1>3 DEF Runnable

\* The ring a switch dequeues from is the line at the end of a turn.
LEMMA WaitingIs ==
  ASSUME Regime, Known, SchedInv
  PROVE  LineOf(SwitchRing) = Line!Waiting
<1> DEFINE a == Aged(ring)
           x == LineOf(ring)
<1>1. Fair(ring) /\ Fair(a) /\ QueuedPids(a) = QueuedPids(ring) /\ Grows(ring, a)
  BY FairAged DEF SchedInv, QueueFair
<1>2. LineOf(a) = x /\ Line!Members(x) = QueuedPids(ring) BY <1>1, SameLine, LineOfIs
<1> HIDE DEF a, x
<1>3. Line!Waiting = IF kcur \in Able /\ kcur \notin QueuedPids(ring)
                     THEN Append(x, kcur) ELSE x
  BY <1>2 DEF Line!Waiting, x
<1>4. Here \in Slots /\ kcur = Here + 1 /\ (Here = 0 <=> kcur = KERNEL) /\ SlotOf(kcur) = Here
  BY HereIs DEF Regime, Here
<1>5. MustRequeue => /\ schedCur = kcur /\ Here # 0 /\ pcb[Here].state = "RUNNING"
                     /\ Exists(pcb, kcur)
  BY <1>4 DEF MustRequeue, Known, CpuAgrees
<1>6. CASE kcur \in Able /\ kcur \notin QueuedPids(ring)
  <2>1. PICK i \in Slots \ {0} : kcur = i + 1 /\ pcb[i].state \in {"READY", "RUNNING"}
    BY <1>6, AbleIs DEF Runnable
  <2>2. i = Here BY <1>4, <2>1 DEF Slots
  <2>3. pcb[i].state = "RUNNING" /\ schedCur = kcur
    BY <1>6, <2>1 DEF SchedInv, RunnableKnown
  <2>4. kcur \in 2 .. MaxPid BY <1>6, AbleIs
  <2>5. Exists(pcb, kcur) BY <1>4, <2>2, <2>3, <2>4 DEF Exists, INVALID
  <2>6. MustRequeue BY <1>4, <2>2, <2>3, <2>4, <2>5 DEF MustRequeue, INVALID, KERNEL
  <2>7. SwitchRing = EnqueueRing(pcb, a, kcur) BY <2>3, <2>6 DEF SwitchRing, a
  <2>8. pcb \in TableType /\ pcb[SlotOf(kcur)].prio = DefaultPrio
    BY <1>4, <2>1, <2>2, <2>3 DEF Known, TypeOK, TableType, SchedInv, ProcsAlike, Alike
  <2>9. MaxPid <= QueueSize + 1 BY DEF Regime, PidsNotReused
  <2> DEFINE s == EnqueueRing(pcb, a, kcur)
  <2>10. Fair(s) /\ QueuedPids(s) = QueuedPids(a) \cup {kcur} /\ Grows(a, s)
    BY <1>1, <2>4, <2>5, <2>8, <2>9, FairEnqueue
  <2>11. kcur \notin QueuedPids(a) BY <1>1, <1>6
  <2> HIDE DEF s
  <2>12. LineOf(s) = Append(LineOf(a), kcur) BY <1>1, <2>10, <2>11, JoinsAtEnd
  <2> QED BY <1>2, <1>3, <1>6, <2>7, <2>12 DEF s
<1>7. CASE ~(kcur \in Able /\ kcur \notin QueuedPids(ring))
  <2>1. SwitchRing = a
    <3>1. CASE ~MustRequeue BY <3>1 DEF SwitchRing, a
    <3>2. CASE MustRequeue
      <4>1. kcur \in Able BY <1>4, <1>5, <3>2, AbleIs DEF Runnable
      <4>2. kcur \in QueuedPids(a) BY <1>1, <1>7, <4>1
      <4>3. SwitchRing = EnqueueRing(pcb, a, kcur) BY <1>5, <3>2 DEF SwitchRing, a
      <4> QED BY <4>2, <4>3 DEF EnqueueRing, CanEnqueue
    <3> QED BY <3>1, <3>2
  <2> QED BY <1>2, <1>3, <1>7, <2>1
<1> QED BY <1>6, <1>7

\* A sequence without its head.
LEMMA TailIs ==
  ASSUME NEW S, NEW x \in Seq(S), NEW n \in Nat, Len(x) = n + 1, NEW y \in Seq(S), Len(y) = n,
         \A k \in 1 .. n : y[k] = x[k + 1]
  PROVE  y = Tail(x) /\ x # <<>> /\ Head(x) = x[1]
OBVIOUS

LEMMA SwitchServes ==
  ASSUME Regime, Known, Known', SchedInv, SchedInv', SwitchTo
  PROVE  Line!Serve
<1> DEFINE r == SwitchRing
           pid == schedCur'
<1>1. Fair(r) BY SwitchRingIs
<1>2. /\ Fair(ring') /\ kcur' = pid /\ pid \in QueuedPids(r)
      /\ 0 \in Positions(r) /\ pid = EntryAt(r, 0).pid
      /\ QueuedPids(ring') = QueuedPids(r) \ {pid}
      /\ \A j \in Positions(ring') : j + 1 \in Positions(r) /\ EntryAt(ring', j) = EntryAt(r, j + 1)
      /\ pcb' = IF Exists(pcb, pid) THEN [pcb EXCEPT ![SlotOf(pid)].state = "RUNNING"] ELSE pcb
  BY SwitchIs
<1>3. Line!Waiting = LineOf(r) BY WaitingIs
<1> HIDE DEF r
<1> DEFINE x == LineOf(r)
           y == LineOf(ring')
           n == ring'.count
<1>4. r.count = n + 1
  <2>1. /\ IsFiniteSet(QueuedPids(r)) /\ Cardinality(QueuedPids(r)) = r.count
        /\ Cardinality(QueuedPids(ring')) = n
    BY <1>1, <1>2, QueueIs
  <2>2. r.count \in Nat /\ n \in Nat BY <1>1, <1>2, FairCount
  <2>3. Cardinality(QueuedPids(r) \ {pid}) = Cardinality(QueuedPids(r)) - 1
    BY <1>2, <2>1, FS_RemoveElement
  <2> QED BY <1>2, <2>1, <2>2, <2>3
<1>5. /\ x \in Seq(2 .. MaxPid) /\ Len(x) = n + 1 /\ x[1] = pid
      /\ y \in Seq(2 .. MaxPid) /\ Len(y) = n /\ n \in Nat
  <2>1. 0 + 1 = 1 OBVIOUS
  <2> QED BY <1>1, <1>2, <1>4, <2>1, LineOfIs
<1>6. \A k \in 1 .. n : y[k] = x[k + 1]
  <2> SUFFICES ASSUME NEW k \in 1 .. n PROVE y[k] = x[k + 1]
    OBVIOUS
  <2>1. k - 1 \in Positions(ring') /\ y[k] = EntryAt(ring', k - 1).pid BY <1>2, LineOfIs
  <2>2. (k - 1) + 1 = k BY <1>5
  <2>3. k \in Positions(r) /\ EntryAt(ring', k - 1) = EntryAt(r, k) BY <1>2, <2>1, <2>2
  <2>4. x[k + 1] = EntryAt(r, k).pid BY <1>1, <2>3, LineOfIs
  <2> QED BY <2>1, <2>3, <2>4
<1> HIDE DEF x, y, n
<1>7. y = Tail(x) /\ x # <<>> /\ Head(x) = pid BY <1>5, <1>6, TailIs
<1>8. Able = Runnable /\ Able' = Runnable'
  <2>1. (Regime /\ Known /\ SchedInv => Able = Runnable)' BY AbleIs, PTL
  <2> QED BY <2>1, AbleIs
<1>9. Runnable' \in {Runnable, Runnable \cup {pid}}
  <2> DEFINE t == SlotOf(pid)
  <2>1. pid \in 2 .. MaxPid BY <1>1, <1>2 DEF Fair, QueuedPids
  <2> HIDE DEF pid
  <2>2. t \in Slots \ {0} /\ t = pid - 1 /\ t + 1 = pid BY <2>1, SlotOfPid, PidRange DEF Regime
  <2>3. CASE ~Exists(pcb, pid) BY <1>2, <2>3 DEF Runnable
  <2>4. CASE Exists(pcb, pid)
    <3>1. pcb \in TableType /\ pcb' = [pcb EXCEPT ![t].state = "RUNNING"]
      BY <1>2, <2>4 DEF Known, TypeOK, TableType
    <3> HIDE DEF t
    <3>2. pcb'[t].state = "RUNNING" /\ \A i \in Slots \ {t} : pcb'[i] = pcb[i]
      BY <2>2, <3>1 DEF TableType, PcbType
    <3>3. Runnable' = Runnable \cup {pid} BY <2>2, <3>2 DEF Runnable
    <3> QED BY <3>3
  <2> QED BY <2>3, <2>4
<1> QED BY <1>2, <1>3, <1>7, <1>8, <1>9 DEF Line!Serve, x, y

LEMMA IdlingRests ==
  ASSUME Regime, Known, Known', SchedInv, SchedInv', GoIdle
  PROVE  Line!Rest
<1>1. /\ ring' = SwitchRing /\ SwitchRing.count = 0 /\ kcur' = KERNEL /\ pcb' = pcb
  BY DEF GoIdle
<1>2. LineOf(SwitchRing) = <<>> BY <1>1 DEF LineOf
<1>3. Line!Waiting = <<>> BY <1>2, WaitingIs
<1> DEFINE x == LineOf(ring)
<1>4. x \in Seq(2 .. MaxPid) /\ kcur \in 1 .. MaxPid BY LineOfIs DEF SchedInv, QueueFair
<1>5. Line!Waiting = IF kcur \in Able /\ kcur \notin Line!Members(x)
                     THEN Append(x, kcur) ELSE x
  BY DEF Line!Waiting
<1> HIDE DEF x
<1>6. Append(x, kcur) # <<>>
  <2>1. 2 .. MaxPid \subseteq Nat /\ kcur \in Nat BY <1>4, PidRange
  <2>2. x \in Seq(Nat) BY <1>4, <2>1, SeqMonotonic
  <2> QED BY <2>1, <2>2, AppendProperties
<1>7. x = <<>> BY <1>3, <1>5, <1>6
<1>8. LineOf(ring') = x BY <1>1, <1>2, <1>7
<1>9. Able' = Able BY <1>1 DEF Able
<1> QED BY <1>1, <1>3, <1>8, <1>9 DEF Line!Rest, x

LEMMA OthersJoin ==
  ASSUME Regime, Known, Known', SchedInv, SchedInv', Joined, kcur' = kcur
  PROVE  Line!Join
<1>1. Fair(ring) /\ Fair(ring') BY DEF SchedInv, QueueFair
<1>2. LineOf(ring') \in Line!Lines BY <1>1, LineInLines
<1>3. Line!Behind(LineOf(ring), LineOf(ring')) BY <1>1, GrowsBehind DEF Joined
<1>4. /\ Line!Members(LineOf(ring)) = QueuedPids(ring)
      /\ Line!Members(LineOf(ring')) = QueuedPids(ring')
  BY <1>1, LineOfIs
<1>5. Able' = Runnable' /\ Able' \subseteq (QueuedPids(ring') \cup {kcur'}) \ {KERNEL}
  <2>1. (Regime /\ Known /\ SchedInv =>
            /\ Able = Runnable /\ Able \subseteq 2 .. MaxPid
            /\ Able \subseteq QueuedPids(ring) \cup {kcur})'
    BY AbleIs, PTL
  <2> QED BY <2>1 DEF KERNEL
<1> QED BY <1>2, <1>3, <1>4, <1>5 DEF Line!Join, Joined

\* Only the scheduler passes the turn on.
LEMMA TurnKept ==
  ASSUME [Next]_vars
  PROVE  kcur' = kcur \/ GoIdle \/ SwitchTo
<1>1. CASE Tick BY <1>1 DEF Tick, SchedStep, KeepRunning
<1>2. CASE \/ Exit \/ \E pid \in Pids : Kill(pid)
  BY <1>2 DEF Exit, Kill, Cleanup
<1>3. CASE \/ Yield
           \/ \E pid \in Pids :
                 \/ \E agent \in AgentKinds : Spawn(pid, agent)
                 \/ SpawnNoStack(pid) \/ Wait(pid)
                 \/ \E prio \in Priorities : SetPriority(pid, prio)
                 \/ BcLoad(pid) \/ BcExec(pid) \/ Send(pid)
  BY <1>3 DEF Yield, Spawn, SpawnNoStack, Wait, SetPriority, BcLoad, BcExec, Send, procVars
<1>4. CASE \/ \E st \in {"AGENT_IDLE", "AGENT_THINKING"} : SetState(st)
           \/ \E filter \in Filters :
                 \/ RecvNow(filter)
                 \/ \E timeout \in Timeouts \cup {FOREVER} : RecvBlock(filter, timeout)
           \/ PollTimeout \/ PollReceive \/ Broadcast
  BY <1>4 DEF SetState, RecvNow, RecvBlock, PollTimeout, PollReceive, Broadcast, procVars
<1>5. CASE UNCHANGED vars BY <1>5 DEF vars, procVars
<1> QED BY <1>1, <1>2, <1>3, <1>4, <1>5 DEF Next

LEMMA LineInit == ASSUME Init PROVE Line!Init
<1>1. ring.count = 0 /\ kcur = KERNEL /\ \A i \in Slots \ {0} : pcb[i].state = "UNUSED"
  BY DEF Init, ProcInit, SchedInit, EmptyRing, UnusedPcb
<1>2. LineOf(ring) = <<>> BY <1>1 DEF LineOf
<1>3. Able = {} BY <1>1 DEF Able
<1> QED BY <1>1, <1>2, <1>3 DEF Line!Init

LEMMA LineStep ==
  ASSUME Regime, Known, Known', SchedInv, [Next]_vars
  PROVE  Line!Next
<1>1. SchedInv' /\ (Joined \/ SwitchTo) BY StepKeeps DEF StepOk
<1>2. CASE SwitchTo BY <1>1, <1>2, SwitchServes DEF Line!Next
<1>3. CASE GoIdle BY <1>1, <1>3, IdlingRests DEF Line!Next
<1>4. CASE ~SwitchTo /\ ~GoIdle
  <2>1. kcur' = kcur BY <1>4, TurnKept
  <2> QED BY <1>1, <1>4, <2>1, OthersJoin DEF Line!Next
<1> QED BY <1>2, <1>3, <1>4

\* In the regime the ready queue is a waiting line: whatever processes spawn,
\* exit, kill, yield, send, broadcast, receive and time out, they are served
\* first come, first served (flux_sched_run, flux_sched_enqueue,
\* flux_sched_dequeue).
THEOREM QueueIsRoundRobin == ASSUME Regime PROVE Spec => RoundRobin
<1>1. Init => Line!Init BY LineInit
<1>2. Known /\ Known' /\ SchedInv /\ [Next]_vars
         => [Line!Next]_<<LineOf(ring), kcur, Able>>
  BY LineStep
<1>3. Spec => []Known BY KnownHolds
<1>4. Spec => []SchedInv BY SchedInvHolds
<1> QED BY <1>1, <1>2, <1>3, <1>4, PTL DEF Spec, RoundRobin, Line!Spec

\* The line at the end of a turn: still nobody is in it twice, who can run is
\* in it, and who stood in it has the same place.
LEMMA WaitingIsLine ==
  ASSUME NEW x \in Line!Lines, x = LineOf(ring),
         Line!NobodyForgotten, Able \subseteq Pids \ {KERNEL}
  PROVE  /\ Line!Waiting \in Line!Lines /\ Line!Behind(x, Line!Waiting)
         /\ Able \subseteq Line!Members(Line!Waiting)
         /\ Line!Waiting = <<>> => x = <<>>
<1> DEFINE w == Line!Waiting
           T == Pids \ {KERNEL}
<1>1. w = IF kcur \in Able /\ kcur \notin Line!Members(x) THEN Append(x, kcur) ELSE x
  BY DEF Line!Waiting
<1>2. x \in Seq(T) /\ \A j, k \in DOMAIN x : x[j] = x[k] => j = k BY DEF Line!Lines
<1>3. Able \subseteq Line!Members(x) \cup {kcur} BY DEF Line!NobodyForgotten
<1> HIDE DEF w, T
<1>4. CASE kcur \in Able /\ kcur \notin Line!Members(x)
  <2>1. w = Append(x, kcur) /\ kcur \in T BY <1>1, <1>4 DEF T
  <2>2. /\ w \in Seq(T) /\ w # <<>> /\ Len(w) = Len(x) + 1 /\ w[Len(x) + 1] = kcur
        /\ \A j \in 1 .. Len(x) : w[j] = x[j]
    BY <1>2, <2>1, AppendProperties
  <2>3. /\ Len(x) \in Nat /\ DOMAIN x = 1 .. Len(x) /\ DOMAIN w = 1 .. Len(x) + 1
    BY <1>2, <2>2, LenProperties
  <2>4. \A j \in 1 .. Len(x) : x[j] # kcur BY <1>4, <2>3 DEF Line!Members
  <2>5. \A j, k \in DOMAIN w : w[j] = w[k] => j = k
    <3>1. \A j \in DOMAIN w : j \in 1 .. Len(x) \/ j = Len(x) + 1 BY <2>3
    <3> QED BY <1>2, <2>2, <2>3, <2>4, <3>1
  <2>6. Line!Behind(x, w) BY <2>2, <2>3 DEF Line!Behind
  <2>7. Able \subseteq Line!Members(w)
    <3>1. kcur \in Line!Members(w) BY <2>2, <2>3 DEF Line!Members
    <3>2. Line!Members(x) \subseteq Line!Members(w) BY <2>6 DEF Line!Behind, Line!Members
    <3> QED BY <1>3, <3>1, <3>2
  <2> QED BY <2>2, <2>5, <2>6, <2>7 DEF Line!Lines, w, T
<1>5. CASE ~(kcur \in Able /\ kcur \notin Line!Members(x))
  <2>1. w = x BY <1>1, <1>5
  <2>2. Able \subseteq Line!Members(w) BY <1>3, <1>5, <2>1
  <2> QED BY <2>1, <2>2 DEF Line!Behind, w
<1> QED BY <1>4, <1>5

\* What a waiting line keeps.
LineKept ==
    /\ LineOf(ring) \in Line!Lines /\ Line!NobodyForgotten
    /\ Able \subseteq Pids \ {KERNEL} /\ kcur \in Pids

LEMMA ServeOrdered ==
  ASSUME LineKept, Line!Serve
  PROVE  LineKept' /\ Line!NobodyOvertaken
<1> DEFINE x == LineOf(ring)
           y == LineOf(ring')
           w == Line!Waiting
           T == Pids \ {KERNEL}
           n == Len(w) - 1
<1>1. /\ w \in Line!Lines /\ Line!Behind(x, w) /\ Able \subseteq Line!Members(w)
  BY WaitingIsLine DEF LineKept
<1>2. /\ w # <<>> /\ kcur' = Head(w) /\ y = Tail(w) /\ Able' \in {Able, Able \cup {kcur'}}
  BY DEF Line!Serve
<1>3. w \in Seq(T) /\ \A j, k \in DOMAIN w : w[j] = w[k] => j = k BY <1>1 DEF Line!Lines
<1>4. Able \subseteq T BY DEF LineKept
<1> HIDE DEF x, y, w, T
<1>5. /\ n \in Nat /\ y \in Seq(T) /\ DOMAIN w = 1 .. n + 1 /\ DOMAIN y = 1 .. n
      /\ kcur' = w[1] /\ kcur' \in T /\ \A k \in 1 .. n : k + 1 \in DOMAIN w /\ y[k] = w[k + 1]
  <2>1. Len(w) \in Nat \ {0} /\ DOMAIN w = 1 .. Len(w) BY <1>2, <1>3, EmptySeq, LenProperties
  <2>2. y \in Seq(T) /\ Len(y) = Len(w) - 1 /\ \A k \in 1 .. Len(y) : y[k] = w[k + 1]
    BY <1>2, <1>3
  <2>3. DOMAIN y = 1 .. n BY <2>2, LenProperties
  <2>4. kcur' = w[1] /\ kcur' \in T BY <1>2, <1>3, <2>1, ElementOfSeq
  <2> QED BY <2>1, <2>2, <2>3, <2>4
<1> HIDE DEF n
<1>6. \A j, k \in DOMAIN y : y[j] = y[k] => j = k
  <2> SUFFICES ASSUME NEW j \in DOMAIN y, NEW k \in DOMAIN y, y[j] = y[k] PROVE j = k
    OBVIOUS
  <2>1. j + 1 = k + 1 BY <1>3, <1>5
  <2> QED BY <1>5, <2>1
<1>7. Able' \subseteq Line!Members(y) \cup {kcur'}
  <2>1. ASSUME NEW k \in DOMAIN w PROVE w[k] \in Line!Members(y) \cup {kcur'}
    <3>1. CASE k = 1 BY <1>5, <3>1
    <3>2. CASE k # 1
      <4>1. k - 1 \in 1 .. n /\ (k - 1) + 1 = k BY <1>5, <3>2
      <4>2. y[k - 1] = w[k] BY <1>5, <4>1
      <4> QED BY <1>5, <4>1, <4>2 DEF Line!Members
    <3> QED BY <3>1, <3>2
  <2>2. Able \subseteq Line!Members(y) \cup {kcur'} BY <1>1, <2>1 DEF Line!Members
  <2> QED BY <1>2, <2>2
<1>8. LineKept'
  <2>1. y \in Line!Lines BY <1>5, <1>6 DEF Line!Lines, T
  <2>2. Able' \subseteq T /\ kcur' \in Pids BY <1>2, <1>4, <1>5 DEF T
  <2> QED BY <1>7, <2>1, <2>2 DEF LineKept, Line!NobodyForgotten, y, T
<1>9. ASSUME NEW j \in DOMAIN x, NEW k \in DOMAIN y, y[k] = x[j] PROVE k < j
  <2>1. j \in DOMAIN w /\ w[j] = x[j] BY <1>1 DEF Line!Behind
  <2>2. k + 1 \in DOMAIN w /\ w[k + 1] = w[j] BY <1>5, <1>9, <2>1
  <2>3. k + 1 = j BY <1>3, <2>1, <2>2
  <2> QED BY <1>5, <2>1, <2>3
<1>10. \A j \in DOMAIN x, k \in DOMAIN y : j \in Int /\ k \in Int
  BY <1>1, <1>5 DEF Line!Behind
<1> QED BY <1>8, <1>9, <1>10 DEF Line!NobodyOvertaken, x, y

LEMMA OrderedStep ==
  ASSUME LineKept, Line!Next \/ UNCHANGED <<LineOf(ring), kcur, Able>>
  PROVE  LineKept' /\ Line!NobodyOvertaken
<1> DEFINE x == LineOf(ring)
           y == LineOf(ring')
           T == Pids \ {KERNEL}
<1>1. CASE Line!Serve BY <1>1, ServeOrdered
<1>2. ASSUME y \in Line!Lines, Line!Behind(x, y), ~Line!Serve PROVE Line!NobodyOvertaken
  <2> SUFFICES ASSUME NEW j \in DOMAIN x, NEW k \in DOMAIN y, y[k] = x[j] PROVE k <= j
    BY <1>2 DEF Line!NobodyOvertaken
  <2> HIDE DEF x, y
  <2>1. j \in DOMAIN y /\ y[j] = x[j] BY <1>2 DEF Line!Behind
  <2>2. j = k BY <1>2, <2>1 DEF Line!Lines
  <2>3. y \in Seq(T) BY <1>2 DEF Line!Lines
  <2>4. k \in Int BY <2>3, LenProperties
  <2> QED BY <2>2, <2>4
<1>3. x \in Line!Lines /\ Able \subseteq T /\ kcur \in Pids
      /\ Able \subseteq Line!Members(x) \cup {kcur}
  BY DEF LineKept, Line!NobodyForgotten
<1>4. CASE Line!Join /\ ~Line!Serve
  <2>1. /\ y \in Line!Lines /\ Line!Behind(x, y) /\ kcur' = kcur
        /\ Able' \subseteq (Able \cup Line!Members(y) \cup {kcur}) \ {KERNEL}
    BY <1>4 DEF Line!Join
  <2> HIDE DEF x, y
  <2>2. Line!Members(x) \subseteq Line!Members(y) BY <2>1 DEF Line!Behind, Line!Members
  <2>3. Line!Members(y) \subseteq T
    <3>1. y \in Seq(T) BY <2>1 DEF Line!Lines
    <3>2. \A k \in DOMAIN y : y[k] \in T BY <3>1
    <3> QED BY <3>2 DEF Line!Members
  <2>4. Able' \subseteq Line!Members(y) \cup {kcur'} /\ Able' \subseteq T BY <1>3, <2>1, <2>2, <2>3
  <2>5. LineKept' BY <1>3, <2>1, <2>4 DEF LineKept, Line!NobodyForgotten, y
  <2> QED BY <1>2, <1>4, <2>1, <2>5
<1>5. CASE (Line!Rest \/ UNCHANGED <<x, kcur, Able>>) /\ ~Line!Serve
  <2>1. y = x /\ Able' = Able BY <1>5 DEF Line!Rest
  <2>2. Line!Behind(x, y) BY <2>1 DEF Line!Behind
  <2>3. kcur' = kcur \/ (kcur' = KERNEL /\ Able = {})
    <3>1. CASE Line!Rest
      <4>1. Line!Waiting = <<>> /\ kcur' = KERNEL BY <3>1 DEF Line!Rest
      <4>2. Able \subseteq Line!Members(Line!Waiting) BY <1>3, WaitingIsLine DEF LineKept
      <4>3. Line!Members(<<>>) = {} BY DEF Line!Members
      <4> QED BY <4>1, <4>2, <4>3
    <3> QED BY <1>5, <3>1
  <2>4. Able' \subseteq Line!Members(y) \cup {kcur'} BY <1>3, <2>1, <2>3
  <2>5. kcur' \in Pids BY <1>3, <2>3, PidRange DEF Pids, KERNEL
  <2> HIDE DEF y
  <2>6. LineKept' BY <1>3, <2>1, <2>4, <2>5 DEF LineKept, Line!NobodyForgotten, y
  <2> QED BY <1>2, <1>3, <1>5, <2>1, <2>2, <2>6
<1> QED BY <1>1, <1>4, <1>5 DEF Line!Next

LEMMA OrderedInit == ASSUME Line!Init PROVE LineKept
<1>1. LineOf(ring) = <<>> /\ kcur = KERNEL /\ Able = {} BY DEF Line!Init
<1>2. <<>> \in Line!Lines BY DEF Line!Lines
<1> QED BY <1>1, <1>2, PidRange DEF LineKept, Line!NobodyForgotten, Pids, KERNEL

\* What the waiting line is good for, for the ready queue in the regime: who
\* can run has the CPU or is queued, nobody loses its place to another, and each
\* switch brings everyone in the queue forward (flux_sched_enqueue,
\* flux_sched_dequeue).
THEOREM NobodyIsOvertaken ==
  ASSUME Regime
  PROVE  Spec => /\ []Line!NobodyForgotten
                 /\ [][Line!NobodyOvertaken]_<<LineOf(ring), kcur, Able>>
<1>1. Line!Init => LineKept BY OrderedInit
<1>2. LineKept /\ [Line!Next]_<<LineOf(ring), kcur, Able>>
         => LineKept' /\ [Line!NobodyOvertaken]_<<LineOf(ring), kcur, Able>>
  BY OrderedStep
<1>3. LineKept => Line!NobodyForgotten BY DEF LineKept
<1>4. Spec => Line!Spec BY QueueIsRoundRobin DEF RoundRobin
<1> QED BY <1>1, <1>2, <1>3, <1>4, PTL DEF Line!Spec

\* A waiting call's process is blocked or runnable, and while it is blocked no
\* message for it has come.
BlockedHaveNone ==
    \A i \in Slots :
        waiter[i] # NoWaiter =>
           /\ pcb[i].state \in {"BLOCKED", "READY", "RUNNING"}
           /\ pcb[i].state = "BLOCKED" => ~HasMatch(inbox[waiter[i].pid], waiter[i].filter)

\* Only the process in slot h, its waiting call and its inbox change.
OnlyIn(h) ==
    /\ \A i \in Slots \ {h} : pcb'[i].state = pcb[i].state /\ waiter'[i] = waiter[i]
    /\ \A p \in Inboxes \ {h + 1} : inbox'[p] = inbox[p]

LEMMA OthersHaveNone ==
  ASSUME SchedInv, BlockedHaveNone, NEW h \in Slots, OnlyIn(h),
         waiter'[h] # NoWaiter =>
            /\ pcb'[h].state \in {"BLOCKED", "READY", "RUNNING"}
            /\ pcb'[h].state = "BLOCKED" => ~HasMatch(inbox'[waiter'[h].pid], waiter'[h].filter)
  PROVE  BlockedHaveNone'
<1> SUFFICES ASSUME NEW i \in Slots \ {h}, waiter'[i] # NoWaiter
             PROVE  /\ pcb'[i].state \in {"BLOCKED", "READY", "RUNNING"}
                    /\ pcb'[i].state = "BLOCKED" =>
                          ~HasMatch(inbox'[waiter'[i].pid], waiter'[i].filter)
  BY DEF BlockedHaveNone
<1>1. waiter[i].pid = i + 1 /\ waiter[i] # NoWaiter /\ waiter'[i] = waiter[i]
  BY DEF OnlyIn, SchedInv, WaitersThere
<1>2. i + 1 \in Inboxes \ {h + 1} BY PidRange DEF Slots, Inboxes
<1>3. inbox'[i + 1] = inbox[i + 1] BY <1>2 DEF OnlyIn
<1> QED BY <1>1, <1>3 DEF OnlyIn, BlockedHaveNone

LEMMA CallsHaveNone ==
  ASSUME Regime, PointToPoint, Known, SchedInv, BlockedHaveNone,
         \/ Exit \/ Yield
         \/ \E pid \in Pids : \/ \E agent \in AgentKinds : Spawn(pid, agent)
                              \/ SpawnNoStack(pid) \/ Kill(pid) \/ Wait(pid)
         \/ \E st \in {"AGENT_IDLE", "AGENT_THINKING"} : SetState(st)
  PROVE  BlockedHaveNone'
<1>0. pcb \in TableType /\ waiter \in [Slots -> WaiterType] BY DEF Known, TypeOK, TableType
<1>1. ASSUME NEW pid \in Pids, NEW agent, Spawn(pid, agent) PROVE BlockedHaveNone'
  <2> DEFINE h == SlotOf(pid)
             p == SpawnedPcb(pid, kcur, agent)
  <2>1. h \in Slots /\ pcb[h].state = "UNUSED"
    BY <1>1, PidsAreNat, SlotOfIn DEF Spawn, IsNextFree
  <2>2. waiter[h] = NoWaiter BY <2>1 DEF SchedInv, WaitersThere
  <2>3. pcb' = [pcb EXCEPT ![h] = p] /\ UNCHANGED <<waiter, inbox>>
    BY <1>1 DEF Spawn, ipcVars
  <2> HIDE DEF h, p
  <2>4. OnlyIn(h) BY <1>0, <2>1, <2>3 DEF OnlyIn, TableType
  <2> QED BY <2>1, <2>2, <2>3, <2>4, OthersHaveNone
<1>2. ASSUME NEW pid \in Pids, SpawnNoStack(pid) PROVE BlockedHaveNone'
  BY <1>2 DEF SpawnNoStack, ipcVars, BlockedHaveNone
\* The process in slot h is gone.
<1>3. ASSUME NEW h \in Slots, Cleanup(pcb, h) PROVE BlockedHaveNone'
  <2>1. waiter' = [waiter EXCEPT ![h] = NoWaiter] /\ inbox' = inbox
        /\ pcb' = [pcb EXCEPT ![h] = CleanPcb(pcb[h])]
    BY <1>3 DEF Cleanup, Forget
  <2>2. OnlyIn(h) /\ waiter'[h] = NoWaiter BY <1>0, <2>1 DEF OnlyIn, TableType
  <2> QED BY <2>2, OthersHaveNone
<1>4. ASSUME NEW pid \in Pids, Kill(pid) PROVE BlockedHaveNone'
  BY <1>3, <1>4, PidsAreNat, SlotOfIn DEF Kill
<1>5. CASE Exit
  <2>1. Here \in Slots /\ Here # 0 /\ pcb[Here].state # "UNUSED"
    BY <1>5, CallerIs DEF Exit
  <2> QED BY <1>3, <1>5, <2>1, NobodyWokenByExit DEF Exit
\* The caller changes its own state.
<1>6. ASSUME NEW pcbs, \A i \in Slots \ {Here} : pcbs[i] = pcb[i], pcb' = pcbs,
             UNCHANGED <<waiter, inbox>>, Here \in Slots, waiter[Here] = NoWaiter
      PROVE  BlockedHaveNone'
  <2>1. OnlyIn(Here) BY <1>6 DEF OnlyIn
  <2> QED BY <1>6, <2>1, OthersHaveNone
<1>7. CASE \/ Yield \/ \E pid \in Pids : Wait(pid)
           \/ \E st \in {"AGENT_IDLE", "AGENT_THINKING"} : SetState(st)
  <2>1. Here \in Slots /\ waiter[Here] = NoWaiter
    BY <1>7, CallerIs DEF Yield, Wait, SetState
  <2>2. SlotOf(kcur) = Here BY DEF Here
  <2>3. \A i \in Slots \ {Here} : pcb'[i] = pcb[i]
    BY <1>0, <1>7, <2>1, <2>2 DEF Yield, Wait, SetState, EnqueuePcb, TableType
  <2>4. UNCHANGED <<waiter, inbox>> BY <1>7 DEF Yield, Wait, SetState, ipcVars
  <2> QED BY <1>6, <2>1, <2>3, <2>4
<1> QED BY <1>1, <1>2, <1>4, <1>5, <1>7

LEMMA MailHasNone ==
  ASSUME Regime, PointToPoint, Known, SchedInv, BlockedHaveNone,
         \/ \E target \in Pids : Send(target)
         \/ \E filter \in Filters :
               \/ RecvNow(filter)
               \/ \E timeout \in Timeouts \cup {FOREVER} : RecvBlock(filter, timeout)
         \/ PollTimeout \/ PollReceive
  PROVE  BlockedHaveNone'
<1>0. pcb \in TableType /\ waiter \in [Slots -> WaiterType] /\ inbox \in InboxType
  BY DEF Known, TypeOK, TableType, InboxType
<1>1. ASSUME NEW target \in Pids, Send(target) PROVE BlockedHaveNone'
  <2> DEFINE t == SlotOf(target)
  <2>1. t \in Slots /\ target = t + 1 BY SlotOfPid, PidRange DEF Pids, Regime
  <2>2. inbox' = [inbox EXCEPT ![target] = Append(@, Msg(kcur, target))] /\ waiter' = waiter
        /\ pcb' = IF WokenBySend(pcb[t]) THEN [pcb EXCEPT ![t] = Woken(@)] ELSE pcb
    BY <1>1 DEF Send
  <2> HIDE DEF t
  <2>3. OnlyIn(t) BY <1>0, <2>1, <2>2 DEF OnlyIn, TableType, InboxType
  <2>4. pcb'[t].state = IF WokenBySend(pcb[t]) THEN "READY" ELSE pcb[t].state
    BY <1>0, <2>1, <2>2, WokenIs DEF TableType
  <2> QED BY <2>1, <2>2, <2>3, <2>4, OthersHaveNone DEF BlockedHaveNone, WokenBySend
<1>2. ASSUME NEW filter, RecvNow(filter) PROVE BlockedHaveNone'
  <2>1. Here \in Slots /\ waiter[Here] = NoWaiter /\ kcur = Here + 1
    BY <1>2, CallerIs DEF RecvNow
  <2>2. OnlyIn(Here)
    BY <1>0, <1>2, <2>1 DEF RecvNow, TakeMatch, OnlyIn, procVars, InboxType
  <2> QED BY <1>2, <2>1, <2>2, OthersHaveNone DEF RecvNow
<1>3. ASSUME NEW filter, NEW timeout, RecvBlock(filter, timeout) PROVE BlockedHaveNone'
  <2>1. Here \in Slots /\ kcur = Here + 1 BY <1>3, CallerIs DEF RecvBlock
  <2>2. /\ ~HasMatch(inbox[kcur], filter) /\ inbox' = inbox
        /\ waiter' = [waiter EXCEPT ![Here] =
                         [pid |-> kcur, filter |-> filter, left |-> timeout]]
        /\ \A i \in Slots \ {Here} : pcb'[i] = pcb[i]
    BY <1>0, <1>3, <2>1 DEF RecvBlock, TableType
  <2>3. OnlyIn(Here) BY <1>0, <2>2 DEF OnlyIn
  <2>4. pcb'[Here].state = "BLOCKED"
    BY <1>0, <1>3, <2>1 DEF RecvBlock, TableType, PcbType
  <2>5. waiter'[Here].pid = kcur /\ waiter'[Here].filter = filter BY <1>0, <2>1, <2>2
  <2> QED BY <2>1, <2>2, <2>3, <2>4, <2>5, OthersHaveNone
<1>4. CASE PollTimeout \/ PollReceive
  <2>1. Here \in Slots /\ waiter[Here].pid = Here + 1
    BY <1>4, PollerIs DEF PollTimeout, PollReceive
  <2>2. waiter'[Here] = NoWaiter /\ \A i \in Slots \ {Here} : waiter'[i] = waiter[i]
    BY <1>0, <1>4, <2>1 DEF PollTimeout, PollReceive, Forget
  <2>3. \A i \in Slots \ {Here} : pcb'[i] = pcb[i]
    BY <1>0, <1>4 DEF PollTimeout, PollReceive, TableType
  <2>4. \A p \in Inboxes \ {Here + 1} : inbox'[p] = inbox[p]
    BY <1>0, <1>4, <2>1 DEF PollTimeout, PollReceive, TakeMatch, InboxType
  <2>5. OnlyIn(Here) BY <2>2, <2>3, <2>4 DEF OnlyIn
  <2> QED BY <2>1, <2>2, <2>5, OthersHaveNone
<1> QED BY <1>1, <1>2, <1>3, <1>4

LEMMA TickHasNone ==
  ASSUME Regime, Known, SchedInv, BlockedHaveNone, Tick
  PROVE  BlockedHaveNone'
<1>1. inbox' = inbox /\ waiter' = Elapsed(waiter) BY DEF Tick
<1>2. \A i \in Slots : pcb'[i].state \in {pcb[i].state, "RUNNING"}
  <2>1. pcb' = pcb \/ pcb' = [pcb EXCEPT ![SlotOf(schedCur')].state = "RUNNING"]
    BY SwitchIs DEF Tick, SchedStep, KeepRunning, GoIdle
  <2> QED BY <2>1 DEF Known, TypeOK, PcbType
<1> SUFFICES ASSUME NEW i \in Slots, waiter'[i] # NoWaiter
             PROVE  /\ pcb'[i].state \in {"BLOCKED", "READY", "RUNNING"}
                    /\ pcb'[i].state = "BLOCKED" =>
                          ~HasMatch(inbox'[waiter'[i].pid], waiter'[i].filter)
  BY DEF BlockedHaveNone
<1>3. /\ waiter[i] # NoWaiter
      /\ waiter'[i].pid = waiter[i].pid /\ waiter'[i].filter = waiter[i].filter
  BY <1>1, WaitersElapse
<1> QED BY <1>1, <1>2, <1>3 DEF BlockedHaveNone

\* In the regime, with point-to-point messages only, a flux_a2a_recv whose
\* message has come is scheduled.
THEOREM NoWakeupIsLost == ASSUME Regime, PointToPoint PROVE Spec => []NoLostWakeup
<1>1. Init => BlockedHaveNone BY DEF Init, IpcInit, BlockedHaveNone
<1>2. Known /\ SchedInv /\ BlockedHaveNone /\ [Next]_vars => BlockedHaveNone'
  <2> SUFFICES ASSUME Known, SchedInv, BlockedHaveNone, [Next]_vars PROVE BlockedHaveNone'
    OBVIOUS
  <2>1. ~Broadcast /\ \A pid \in Pids : ~BcLoad(pid) /\ ~BcExec(pid)
    BY DEF Broadcast, BcLoad, BcExec, Calling, PointToPoint
  <2>2. ~\E pid \in Pids, prio \in Priorities : SetPriority(pid, prio)
    BY CallerIs DEF SetPriority
  <2>3. CASE UNCHANGED vars
    BY <2>3 DEF vars, procVars, schedVars, ipcVars, BlockedHaveNone
  <2> QED BY <2>1, <2>2, <2>3, CallsHaveNone, MailHasNone, TickHasNone DEF Next
<1>3. Known /\ SchedInv /\ BlockedHaveNone => NoLostWakeup
  <2> SUFFICES ASSUME Known, SchedInv, BlockedHaveNone, NEW i \in Slots, Asleep(i)
               PROVE  FALSE
    BY DEF NoLostWakeup
  <2>1. waiter[i] # NoWaiter /\ waiter[i].pid = i + 1 /\ i # 0
    BY DEF Asleep, SchedInv, WaitersThere
  <2>2. pcb[i].state \in {"READY", "RUNNING"} BY <2>1 DEF Asleep, BlockedHaveNone
  <2>3. i + 1 \in QueuedPids(ring) \cup {schedCur}
    BY <2>1, <2>2 DEF SchedInv, RunnableKnown
  <2> QED BY <2>1, <2>3 DEF Asleep
<1>4. Spec => []Known BY KnownHolds
<1>5. Spec => []SchedInv BY SchedInvHolds
<1> QED BY <1>1, <1>2, <1>3, <1>4, <1>5, PTL DEF Spec
=============================================================================
