----------------------------- MODULE AgentProofs -----------------------------
(***************************************************************************)
(* Invariants of the agent runtime, for every size of its tables, pools    *)
(* and inboxes, every limit and every choice of calls.                     *)
(***************************************************************************)
EXTENDS AgentProperties, SequenceLemmas, FiniteSetTheorems

-----------------------------------------------------------------------------
(* Slots.                                                                   *)

LEMMA FirstIsId == FirstId \in Ids /\ NoId \notin Ids /\ Ids \subseteq Nat
  BY AgentAssumption DEF Ids, FirstId, NoId

LEMMA FreeSlotType == FreeSlot \in SlotType
  BY DEF FreeSlot, SlotType, AgentStates, VmStates

LEMMA SpawnedSlotType ==
  ASSUME NEW caps \in SUBSET Rights
  PROVE  SpawnedSlot(caps) \in SlotType
  BY FreeSlotType DEF SpawnedSlot, SlotType

\* What execution leaves of a slot: everything but the state of the agent and
\* of its VM, and what it used up, which stays within the limits.
Executed(s, t) ==
    /\ t \in SlotType
    /\ t.active = s.active /\ t.paused = s.paused /\ t.caps = s.caps
    /\ t.inbox = s.inbox /\ t.dels = s.dels /\ t.names = s.names
    /\ MaxCpu # 0 /\ s.cpu <= MaxCpu => t.cpu <= MaxCpu
    /\ MaxIo # 0 /\ s.io <= MaxIo => t.io <= MaxIo

LEMMA ExecutedTwice ==
  ASSUME NEW s, NEW t, NEW u, Executed(s, t), Executed(t, u)
  PROVE  Executed(s, u)
  BY DEF Executed

\* An executed instruction costs a cycle, if the budget is not used up.
LEMMA TickedOk ==
  ASSUME NEW s \in SlotType, ~CpuSpent(s)
  PROVE  Executed(s, Ticked(s)) /\ Ticked(s) \in SlotType
<1>1. MaxCpu # 0 /\ s.cpu <= MaxCpu => s.cpu + 1 <= MaxCpu
  BY SandboxAssumption DEF CpuSpent, SlotType
<1>2. Executed(s, Ticked(s)) BY <1>1 DEF Ticked, Executed, SlotType
<1> QED BY <1>2 DEF Executed

LEMMA AfterOk ==
  ASSUME NEW s \in SlotType, NEW state \in AgentStates, NEW vm \in VmStates
  PROVE  /\ Executed(s, After(s, state, vm))
         /\ After(s, state, vm) \in SlotType
         /\ After(s, state, vm).state = state
  BY DEF After, Executed, SlotType

LEMMA ResizedOk ==
  ASSUME NEW s \in SlotType, NEW over \in BOOLEAN
  PROVE  Executed(s, Resized(s, over)) /\ Resized(s, over).state = s.state
  BY DEF Resized, Executed, SlotType

LEMMA StatesAre ==
  /\ {"THINKING", "TERMINATED", "FAILED", "WAITING", "IDLE", "DELEGATING"} \subseteq AgentStates
  /\ {"RUNNING", "HALTED", "TRAPPED", "ERROR", "WAITING", "IDLE"} \subseteq VmStates
  BY DEF AgentStates, VmStates

LEMMA PlainStepsOk ==
  ASSUME NEW s \in SlotType, ~CpuSpent(s), NEW out \in PlainSteps(s)
  PROVE  /\ Executed(s, out.slot)
         /\ out.result = "OK" => out.slot.state = "THINKING"
<1>1. Executed(s, Ticked(s)) /\ Ticked(s) \in SlotType BY TickedOk
<1>2. ASSUME NEW state \in AgentStates, NEW vm \in VmStates
      PROVE  Executed(s, After(Ticked(s), state, vm))
  BY <1>1, <1>2, AfterOk, ExecutedTwice
<1>3. ASSUME NEW vm \in VmStates, NEW over \in BOOLEAN
      PROVE  LET t == Resized(After(Ticked(s), "THINKING", vm), over)
             IN  Executed(s, t) /\ t.state = "THINKING"
  <2> DEFINE t == After(Ticked(s), "THINKING", vm)
  <2>1. Executed(s, t) BY <1>2, StatesAre
  <2>2. t \in SlotType /\ t.state = "THINKING" BY <1>1, AfterOk, StatesAre
  <2>3. Executed(t, Resized(t, over)) /\ Resized(t, over).state = "THINKING"
    BY <2>2, ResizedOk
  <2> QED BY <2>1, <2>3, ExecutedTwice
<1>4. CASE \E vm \in {"RUNNING", "HALTED"}, over \in BOOLEAN :
             out = Outcome(Resized(After(Ticked(s), "THINKING", vm), over), "OK")
  BY <1>3, <1>4, StatesAre DEF Outcome
<1>5. CASE \E vm \in {"TRAPPED", "ERROR"} :
             out = Outcome(After(Ticked(s), "TERMINATED", vm), "GENERAL")
  BY <1>2, <1>5, StatesAre DEF Outcome
<1>6. CASE out = Outcome(After(Ticked(s), "FAILED", "ERROR"), "GENERAL")
  BY <1>2, <1>6, StatesAre DEF Outcome
<1> QED BY <1>4, <1>5, <1>6 DEF PlainSteps

LEMMA ViolationOk ==
  ASSUME NEW s \in SlotType
  PROVE  Executed(s, Violation(s))
  BY AfterOk, StatesAre DEF Violation

LEMMA IoStepsOk ==
  ASSUME NEW s \in SlotType, ~CpuSpent(s), NEW out \in IoSteps(s)
  PROVE  /\ Executed(s, out.slot)
         /\ out.result = "OK" => out.slot.state = "THINKING"
<1>1. CASE "IO" \notin s.caps \/ IoSpent(s)
  BY <1>1, ViolationOk DEF IoSteps, Outcome
<1>2. CASE ~("IO" \notin s.caps \/ IoSpent(s))
  <2> DEFINE t == [s EXCEPT !.io = @ + 1]
  <2>1. MaxIo # 0 /\ s.io <= MaxIo => s.io + 1 <= MaxIo
    BY <1>2, SandboxAssumption DEF IoSpent, SlotType
  <2>2. Executed(s, t) /\ t \in SlotType
    BY <2>1 DEF Executed, SlotType
  <2>0. ~CpuSpent(t) BY DEF CpuSpent, SlotType
  <2>3. out \in PlainSteps(t) BY <1>2 DEF IoSteps
  <2>4. /\ Executed(t, out.slot)
        /\ out.result = "OK" => out.slot.state = "THINKING"
    BY <2>0, <2>2, <2>3, PlainStepsOk
  <2> QED BY <2>2, <2>4, ExecutedTwice
<1> QED BY <1>1, <1>2

LEMMA A2aStepsOk ==
  ASSUME NEW s \in SlotType, ~CpuSpent(s), NEW out \in A2aSteps(s)
  PROVE  Executed(s, out.slot) /\ out.result # "OK"
<1>1. Executed(s, Ticked(s)) /\ Ticked(s) \in SlotType BY TickedOk
<1>2. out.result # "OK" BY DEF A2aSteps, Outcome
<1>3. s.state \in AgentStates BY DEF SlotType
<1>4. PICK t \in {s, Ticked(s)} : \E state \in AgentStates, vm \in VmStates :
         out.slot = After(t, state, vm)
  BY <1>3, StatesAre DEF A2aSteps, Outcome
<1>5. Executed(t, out.slot) BY <1>1, <1>4, AfterOk
<1>6. Executed(s, s) BY DEF Executed
<1> QED BY <1>1, <1>2, <1>4, <1>5, <1>6, ExecutedTwice

LEMMA SandboxStepOk ==
  ASSUME NEW s \in SlotType, NEW out \in SandboxStep(s)
  PROVE  /\ Executed(s, out.slot)
         /\ out.result = "OK" => out.slot.state = "THINKING"
<1>1. CASE CpuSpent(s) \/ s.over
  BY <1>1, ViolationOk DEF SandboxStep, Outcome
<1>2. CASE ~(CpuSpent(s) \/ s.over) /\ s.vm = "HALTED"
  <2>1. s.vm \in VmStates BY DEF SlotType
  <2> QED BY <1>2, <2>1, AfterOk, StatesAre DEF SandboxStep, Outcome
<1>3. CASE ~(CpuSpent(s) \/ s.over) /\ s.vm # "HALTED" /\ s.vm \notin {"IDLE", "RUNNING"}
  BY <1>3 DEF SandboxStep, Outcome, Executed
<1>4. CASE ~(CpuSpent(s) \/ s.over) /\ s.vm \in {"IDLE", "RUNNING"}
  <2>1. out \in PlainSteps(s) \cup IoSteps(s) \cup A2aSteps(s)
    BY <1>4 DEF SandboxStep
  <2> QED BY <1>4, <2>1, PlainStepsOk, IoStepsOk, A2aStepsOk
<1> QED BY <1>1, <1>2, <1>3, <1>4

LEMMA VmStartedOk ==
  ASSUME NEW s \in SlotType
  PROVE  /\ Executed(s, VmStarted(s))
         /\ Executed(s, [VmStarted(s) EXCEPT !.state = "THINKING"])
         /\ [VmStarted(s) EXCEPT !.state = "THINKING"].state = "THINKING"
  BY DEF VmStarted, Executed, SlotType, AgentStates, VmStates

-----------------------------------------------------------------------------
(* Types, and what the locals of a call under way say.                      *)

FrameType == [pc: {"idle", "spawn", "poll", "mark"}, id: Ids \cup {NoId},
              caps: SUBSET Rights]

TableTypes ==
    /\ initialized \in BOOLEAN
    /\ agents \in [Ids -> SlotType]
    /\ bitmap \subseteq Ids
    /\ frame \in [Threads -> FrameType]
    /\ slice \in [id: Ids \cup {NoId}, left: Nat, sched: BOOLEAN]
    /\ cast \in [from: Ids \cup {NoId}, rest: Seq(Ids)]

PubType == [active: BOOLEAN, name: Names \cup {""}, id: Ids \cup {NoId}]

DiscTypes ==
    /\ pubs \in [1 .. PubMax -> PubType]
    /\ numPubs \in 0 .. PubMax
    /\ DOMAIN topics \subseteq Topics
    /\ \A topic \in DOMAIN topics : topics[topic] \in Seq(Ids)

\* Without the knowledge of who owns a message, a receive may return none.
MailTypes ==
    /\ pool \in [Refs -> MsgType \cup {NoMsg}]
    /\ nextMsg \in Nat \ {0}
    /\ got \subseteq MsgType \cup {NoMsg}

SchedType == [pc: {"idle", "scan", "fetch", "run", "slice"}, round: Nat,
              i: 0 .. AgentMax, found: BOOLEAN, pick: Ids \cup {NoId}]

SchedTypes ==
    /\ sched \in SchedType
    /\ cursor \in 0 .. AgentMax - 1

\* A slice is of an agent that lives, is not paused and has not ended, and the
\* scheduler waits for the slices it gave; a broadcast under way has a next
\* subscriber; the scheduler is at an agent of its round.
CallsOk ==
    /\ slice # NoSlice =>
          /\ slice.id \in LiveIds
          /\ ~agents[slice.id].paused
          /\ agents[slice.id].state \notin Final
          /\ slice.sched => sched.pc = "slice"
    /\ cast # NoCast => cast.from \in Ids /\ cast.rest # <<>>
    /\ slice = NoSlice \/ cast = NoCast
    /\ sched.pc \in {"fetch", "run", "slice"} => sched.i < AgentMax

Base == TableTypes /\ DiscTypes /\ MailTypes /\ SchedTypes /\ CallsOk

LEMMA BaseInit == Init => Base
<1> SUFFICES ASSUME Init PROVE Base
  OBVIOUS
<1> USE DEF Init
<1>1. TableTypes
  <2>1. agents \in [Ids -> SlotType] BY FreeSlotType DEF TableInit
  <2>2. bitmap \subseteq Ids BY FirstIsId DEF TableInit, Reserved
  <2>3. frame \in [Threads -> FrameType] BY DEF TableInit, NoFrame, FrameType
  <2> QED BY <2>1, <2>2, <2>3 DEF TableInit, TableTypes, NoSlice, NoCast
<1>2. DiscTypes
  <2>1. DOMAIN NoTopics = {} BY DEF NoTopics
  <2>2. NoPub \in PubType BY DEF NoPub, PubType
  <2> QED BY <2>1, <2>2, DiscoveryAssumption DEF DiscInit, DiscTypes, NoPubs
<1>3. MailTypes BY DEF MailInit, MailTypes
<1>4. SchedTypes
  BY AgentAssumption DEF SandboxInit, SchedTypes, NoSched, SchedType
<1>5. CallsOk BY DEF CallsOk, TableInit, SandboxInit, NoSched
<1> QED BY <1>1, <1>2, <1>3, <1>4, <1>5 DEF Base

LEMMA DiscKept == DiscTypes /\ UNCHANGED discVars => DiscTypes'
  BY DEF DiscTypes, discVars

LEMMA MailKept == MailTypes /\ UNCHANGED mailVars => MailTypes'
  BY DEF MailTypes, mailVars

LEMMA SchedKept == SchedTypes /\ UNCHANGED schedVars => SchedTypes'
  BY DEF SchedTypes, schedVars

\* A call that gets the lock finds no slice and no broadcast.
LEMMA CallsKept ==
  ASSUME CallsOk, Unlocked \/ UNCHANGED agents, UNCHANGED <<slice, cast, sched>>
  PROVE  CallsOk'
  BY DEF CallsOk, Unlocked, LiveIds

\* One slot is rewritten.
LEMMA Rewritten ==
  ASSUME TableTypes, NEW id \in Ids, NEW t \in SlotType
  PROVE  [agents EXCEPT ![id] = t] \in [Ids -> SlotType]
  BY DEF TableTypes

-----------------------------------------------------------------------------
(* Steps of the table.                                                      *)

LEMMA SpawnTypes ==
  ASSUME Base, NEW t \in Threads,
         \/ \E caps \in SpawnCaps : SpawnCheck(t, caps)
         \/ \E id \in Ids : SpawnDo(t, id)
         \/ SpawnFailed(t)
  PROVE  TableTypes' /\ UNCHANGED <<slice, cast>>
<1> USE DEF Base
<1>1. NoFrame \in FrameType BY DEF NoFrame, FrameType
<1>2. CASE \E caps \in SpawnCaps : SpawnCheck(t, caps)
  <2>1. PICK caps \in SpawnCaps : SpawnCheck(t, caps) BY <1>2
  <2>2. [pc |-> "spawn", id |-> NoId, caps |-> caps] \in FrameType
    BY AgentAssumption DEF FrameType
  <2> QED BY <2>1, <2>2 DEF SpawnCheck, TableTypes, held
<1>3. CASE \E id \in Ids : SpawnDo(t, id)
  <2>1. PICK id \in Ids : SpawnDo(t, id) BY <1>3
  <2>2. SpawnedSlot(frame[t].caps) \in SlotType
    BY SpawnedSlotType DEF TableTypes, FrameType
  <2>3. agents' \in [Ids -> SlotType] BY <2>1, <2>2, Rewritten DEF SpawnDo
  <2> QED BY <1>1, <2>1, <2>3 DEF SpawnDo, TableTypes, held
<1>4. CASE SpawnFailed(t)
  BY <1>1, <1>4 DEF SpawnFailed, TableTypes, held
<1> QED BY <1>2, <1>3, <1>4

\* What leaves all but the agents alone.
TableOnly == UNCHANGED <<initialized, bitmap, frame, slice, cast>>

LEMMA TableOnlyTypes ==
  ASSUME TableTypes, TableOnly, agents' \in [Ids -> SlotType]
  PROVE  TableTypes'
  BY DEF TableTypes, TableOnly

LEMMA PauseTypes ==
  ASSUME TableTypes, NEW id \in Ids, Pause(id) \/ Resume(id)
  PROVE  TableTypes' /\ TableOnly
<1> DEFINE s == agents[id]
<1>0. s \in SlotType BY DEF TableTypes
<1>1. agents' \in [Ids -> SlotType]
  <2>1. CASE Pause(id)
    <3> DEFINE t == [s EXCEPT !.paused = TRUE, !.vm = IF @ = "RUNNING" THEN "HALTED" ELSE @]
    <3>1. t \in SlotType BY <1>0 DEF SlotType, VmStates
    <3>2. agents' = [agents EXCEPT ![id] = t] BY <2>1 DEF Pause
    <3> QED BY <3>1, <3>2, Rewritten
  <2>2. CASE Resume(id)
    <3> DEFINE t == [s EXCEPT !.paused = FALSE,
                              !.vm = IF s.state = "THINKING" THEN "IDLE" ELSE @]
    <3>1. t \in SlotType BY <1>0 DEF SlotType, VmStates
    <3>2. agents' = [agents EXCEPT ![id] = t] BY <2>2 DEF Resume
    <3> QED BY <3>1, <3>2, Rewritten
  <2> QED BY <2>1, <2>2
<1>2. TableOnly BY DEF Pause, Resume, TableOnly, held
<1> QED BY <1>1, <1>2, TableOnlyTypes

LEMMA RightsTypes ==
  ASSUME TableTypes, NEW id \in Ids, NEW other \in Ids,
         \/ \E right \in Rights : Grant(id, right) \/ Revoke(id, right)
         \/ \E rights \in SUBSET Rights : Transfer(id, other, rights)
         \/ Inherit(id, other)
  PROVE  TableTypes' /\ TableOnly
<1>1. TableOnly
  BY DEF Grant, Revoke, Transfer, Inherit, SetCaps, TableOnly, held
<1>2. ASSUME NEW a \in Ids, NEW caps \in SUBSET Rights, SetCaps(a, caps)
      PROVE  agents' \in [Ids -> SlotType]
  <2>1. agents[a] \in SlotType BY DEF TableTypes
  <2>2. [agents[a] EXCEPT !.caps = caps] \in SlotType BY <2>1 DEF SlotType
  <2>3. agents' = [agents EXCEPT ![a] = [agents[a] EXCEPT !.caps = caps]]
    BY <1>2 DEF SetCaps
  <2> QED BY <2>2, <2>3, Rewritten
<1>3. ASSUME NEW a \in Ids PROVE agents[a].caps \in SUBSET Rights
  BY DEF TableTypes, SlotType
<1>4. CASE \E right \in Rights : Grant(id, right) \/ Revoke(id, right)
  <2>1. PICK right \in Rights : Grant(id, right) \/ Revoke(id, right) BY <1>4
  <2>2. /\ agents[id].caps \cup {right} \in SUBSET Rights
        /\ agents[id].caps \ {right} \in SUBSET Rights
    BY <1>3
  <2> QED BY <1>1, <1>2, <2>1, <2>2, TableOnlyTypes DEF Grant, Revoke
<1>5. CASE \E rights \in SUBSET Rights : Transfer(id, other, rights)
  <2>1. PICK rights \in SUBSET Rights : Transfer(id, other, rights) BY <1>5
  <2>2. /\ agents[id].caps \ rights \in SUBSET Rights
        /\ agents[other].caps \cup rights \in SUBSET Rights
    BY <1>3
  <2> DEFINE s == [agents[id] EXCEPT !.caps = @ \ rights]
             t == [agents[other] EXCEPT !.caps = @ \cup rights]
  <2>3. agents[id] \in SlotType /\ agents[other] \in SlotType BY DEF TableTypes
  <2>4. s \in SlotType /\ t \in SlotType BY <2>2, <2>3 DEF SlotType
  <2>5. agents' = [agents EXCEPT ![id] = s, ![other] = t]
    BY <2>1 DEF Transfer, Moved, TableTypes
  <2> HIDE DEF s, t
  <2>6. agents' \in [Ids -> SlotType] BY <2>4, <2>5 DEF TableTypes
  <2> QED BY <1>1, <2>6, TableOnlyTypes
<1>6. CASE Inherit(id, other)
  BY <1>1, <1>2, <1>3, <1>6, TableOnlyTypes DEF Inherit
<1> QED BY <1>4, <1>5, <1>6

\* The steps of the table proper.
LEMMA TableTypesNext ==
  ASSUME Base, TableNext, UNCHANGED <<discVars, mailVars, schedVars>>
  PROVE  Base'
<1>1. TableTypes' /\ UNCHANGED <<slice, cast>>
  BY SpawnTypes, PauseTypes, RightsTypes DEF TableNext, Base, TableOnly
<1>2. Unlocked \/ UNCHANGED agents
  BY DEF TableNext, SpawnCheck, SpawnDo, SpawnFailed, Pause, Resume, Grant,
         Revoke, Transfer, Inherit, Api
<1> QED BY <1>1, <1>2, DiscKept, MailKept, SchedKept, CallsKept DEF Base, schedVars

-----------------------------------------------------------------------------
(* Steps of the registry.                                                   *)

LEMMA PublishTypes ==
  ASSUME Base, NEW id \in Ids, NEW name \in Names,
         Publish(id, name) \/ Unpublish(id, name)
  PROVE  TableTypes' /\ DiscTypes' /\ TableOnly
<1>0. TableOnly BY DEF Publish, Unpublish, TableOnly, held
<1>1. ASSUME NEW names \in SUBSET Names
      PROVE  [agents EXCEPT ![id].names = names] \in [Ids -> SlotType]
  <2>1. agents[id] \in SlotType BY DEF Base, TableTypes
  <2>2. [agents[id] EXCEPT !.names = names] \in SlotType BY <2>1 DEF SlotType
  <2> QED BY <2>2, Rewritten DEF Base
<1>2. /\ agents[id].names \cup {name} \in SUBSET Names
      /\ agents[id].names \ {name} \in SUBSET Names
  BY DEF Base, TableTypes, SlotType
<1>3. CASE Publish(id, name)
  <2>1. agents' \in [Ids -> SlotType] BY <1>1, <1>2, <1>3 DEF Publish
  <2>2. PICK i \in 1 .. PubMax :
          /\ pubs' = [pubs EXCEPT ![i] = [active |-> TRUE, name |-> name, id |-> id]]
          /\ numPubs' = IF i > numPubs THEN i ELSE numPubs
    BY <1>3 DEF Publish
  <2>3. [active |-> TRUE, name |-> name, id |-> id] \in PubType BY DEF PubType
  <2>4. DiscTypes'
    BY <1>3, <2>2, <2>3, DiscoveryAssumption DEF Publish, Base, DiscTypes
  <2> QED BY <1>0, <2>1, <2>4, TableOnlyTypes DEF Base
<1>4. CASE Unpublish(id, name)
  <2>1. agents' \in [Ids -> SlotType]
    BY <1>1, <1>2, <1>4 DEF Unpublish, WithoutName, Base, TableTypes
  <2>2. NoPub \in PubType BY DEF NoPub, PubType
  <2>3. DiscTypes' BY <1>4, <2>2 DEF Unpublish, Base, DiscTypes
  <2> QED BY <1>0, <2>1, <2>3, TableOnlyTypes DEF Base
<1> QED BY <1>3, <1>4

LEMMA SubscribersType ==
  ASSUME DiscTypes, NEW topic
  PROVE  Subscribers(topic) \in Seq(Ids)
  BY DEF DiscTypes, Subscribers, Created

LEMMA SubscribeTypes ==
  ASSUME Base, NEW id \in Ids, NEW topic \in Topics,
         Subscribe(id, topic) \/ Unsubscribe(id, topic)
  PROVE  DiscTypes' /\ UNCHANGED tableVars
<1> USE DEF Base
<1>1. CASE Subscribe(id, topic)
  <2>1. Subscribed(id, topic) \in Seq(Ids)
    BY SubscribersType DEF Subscribed
  <2> QED BY <1>1, <2>1 DEF Subscribe, DiscTypes, Created
<1>2. CASE Unsubscribe(id, topic)
  <2>1. topics[topic] \in Seq(Ids) BY <1>2 DEF Unsubscribe, DiscTypes, Created
  <2>2. RemoveFirst(topics[topic], id) \in Seq(Ids)
    BY <2>1, RemoveFirstIs, RemoveAtOk
  <2> QED BY <1>2, <2>2 DEF Unsubscribe, DiscTypes, Created
<1> QED BY <1>1, <1>2

LEMMA DiscTypesNext ==
  ASSUME Base, DiscNext, UNCHANGED <<mailVars, schedVars>>
  PROVE  Base'
<1>1. PICK id \in Ids :
         \/ \E name \in Names : Publish(id, name) \/ Unpublish(id, name)
         \/ \E topic \in Topics : Subscribe(id, topic) \/ Unsubscribe(id, topic)
  BY DEF DiscNext
<1>2. Unlocked /\ UNCHANGED <<slice, cast>>
  BY <1>1 DEF Publish, Unpublish, Subscribe, Unsubscribe, Api, tableVars, held
<1>3. CallsOk' BY <1>2, CallsKept DEF Base, schedVars
<1>4. CASE \E name \in Names : Publish(id, name) \/ Unpublish(id, name)
  BY <1>3, <1>4, PublishTypes, MailKept, SchedKept DEF Base
<1>5. CASE \E topic \in Topics : Subscribe(id, topic) \/ Unsubscribe(id, topic)
  <2>1. DiscTypes' /\ UNCHANGED tableVars BY <1>5, SubscribeTypes
  <2>2. TableTypes' BY <2>1 DEF Base, TableTypes, tableVars, held
  <2> QED BY <1>3, <2>1, <2>2, MailKept, SchedKept DEF Base
<1> QED BY <1>1, <1>4, <1>5

-----------------------------------------------------------------------------
(* Steps of messaging.                                                      *)

\* The table t after a delivery to a slot of the given one.
Delivers(table, t, to, r, asleep) ==
    /\ t \in [Ids -> SlotType]
    /\ \A id \in Ids \ {to} : t[id] = table[id]
    /\ t[to] = [table[to] EXCEPT !.inbox = Append(@, r), !.state = t[to].state]
    /\ t[to].state = table[to].state \/ (t[to].state = "IDLE" /\ table[to].state \in asleep)

LEMMA DeliveredOk ==
  ASSUME NEW table \in [Ids -> SlotType], NEW to \in Ids, NEW r \in Refs, NEW asleep
  PROVE  Delivers(table, Delivered(table, to, r, asleep), to, r, asleep)
<1> DEFINE s == table[to]
           state == IF s.state \in asleep THEN "IDLE" ELSE s.state
           u == [s EXCEPT !.inbox = Append(@, r), !.state = state]
<1>1. s \in SlotType OBVIOUS
<1>2. state \in AgentStates BY <1>1, StatesAre DEF SlotType
<1>3. Append(s.inbox, r) \in Seq(Refs) BY <1>1 DEF SlotType
<1>4. u \in SlotType /\ u.state = state BY <1>1, <1>2, <1>3 DEF SlotType
<1>5. Delivered(table, to, r, asleep) = [table EXCEPT ![to] = u]
  BY DEF Delivered
<1> DEFINE t == Delivered(table, to, r, asleep)
<1>6. t \in [Ids -> SlotType] /\ (\A id \in Ids \ {to} : t[id] = table[id]) /\ t[to] = u
  BY <1>4, <1>5
<1>7. u = [s EXCEPT !.inbox = Append(@, r), !.state = u.state] BY <1>4
<1>8. u.state = s.state \/ (u.state = "IDLE" /\ s.state \in asleep) BY <1>4
<1> HIDE DEF u, t
<1> QED BY <1>6, <1>7, <1>8 DEF t, Delivers

LEMMA PostTypes ==
  ASSUME Base, NEW m \in MsgType, NEW done \in [Ids -> SlotType],
         NEW failed \in [Ids -> SlotType], NEW asleep, Post(m, done, failed, asleep),
         UNCHANGED got
  PROVE  agents' \in [Ids -> SlotType] /\ MailTypes'
<1>1. PICK r \in Refs :
        /\ nextMsg' = nextMsg + 1
        /\ pool' = Pooled(r, m)
        /\ agents' = IF HasRoom(m.to) THEN Delivered(done, m.to, r, asleep) ELSE failed
  BY DEF Post
<1>2. m.to \in Ids BY DEF MsgType
<1>3. agents' \in [Ids -> SlotType] BY <1>1, <1>2, DeliveredOk DEF Delivers
<1>4. MailTypes' BY <1>1 DEF Base, MailTypes, Pooled
<1> QED BY <1>3, <1>4

LEMMA MessageType ==
  ASSUME MailTypes, NEW kind \in Kinds, NEW from \in Ids, NEW to \in Ids, NEW re \in Nat
  PROVE  /\ Message(kind, from, to, re) \in MsgType
         /\ Message(kind, from, to, re).to = to
         /\ Message(kind, from, to, re).kind = kind
         /\ Message(kind, from, to, re).re = re
         /\ Message(kind, from, to, re).id = nextMsg
  BY DEF Message, MsgType, MailTypes

\* Records are appended and closed; what a call does to a slot before a
\* delivery.  Only a delegation gives an agent that has ended another state.
Noted(s, t) ==
    /\ t = [s EXCEPT !.dels = t.dels, !.state = t.state]
    /\ t.state = s.state \/ s.state \notin Final \/ "delegate" \in ApiCalls
    /\ DOMAIN s.dels \subseteq DOMAIN t.dels
    /\ \A k \in DOMAIN s.dels :
          t.dels[k].msg = s.dels[k].msg /\ (t.dels[k].open => s.dels[k].open)

Prepared(table) ==
    /\ table \in [Ids -> SlotType]
    /\ \A id \in Ids :
          \/ table[id] = agents[id]
          \/ agents[id].active /\ Noted(agents[id], table[id])

LEMMA RecordedOk ==
  ASSUME Base, NEW from \in LiveIds, NEW to \in Ids, "delegate" \in ApiCalls
  PROVE  Prepared(Recorded(from, to))
<1> DEFINE s == agents[from]
           D == [msg: Nat, to: Ids, open: BOOLEAN]
           d == [msg |-> nextMsg, to |-> to, open |-> TRUE]
           u == [s EXCEPT !.dels = Append(@, d), !.state = "DELEGATING"]
<1>1. s \in SlotType /\ s.active BY DEF Base, TableTypes, LiveIds
<1>2. d \in D BY DEF Base, MailTypes
<1>3. s.dels \in Seq(D) BY <1>1 DEF SlotType
<1>4. /\ Append(s.dels, d) \in Seq(D)
      /\ DOMAIN s.dels \subseteq DOMAIN Append(s.dels, d)
      /\ \A k \in DOMAIN s.dels : Append(s.dels, d)[k] = s.dels[k]
  BY <1>2, <1>3
<1>5. u \in SlotType /\ u.dels = Append(s.dels, d) /\ u.state = "DELEGATING"
  BY <1>1, <1>4, StatesAre DEF SlotType
<1>6. u = [s EXCEPT !.dels = u.dels, !.state = u.state] BY <1>5
<1>7. Recorded(from, to) = [agents EXCEPT ![from] = u] BY DEF Recorded
<1> HIDE DEF u, d
<1>8. Noted(s, u) BY <1>4, <1>5, <1>6 DEF Noted
<1>9. Recorded(from, to) \in [Ids -> SlotType]
  BY <1>5, <1>7, Rewritten DEF Base, LiveIds
<1> QED BY <1>1, <1>7, <1>8, <1>9 DEF Prepared, Base, TableTypes, LiveIds

LEMMA ClosedOk ==
  ASSUME Base, NEW id \in LiveIds, NEW msg, HasDel(id, msg)
  PROVE  LET t == Closed(id, msg)
         IN  /\ Prepared(t)
             /\ \E k \in DOMAIN t[id].dels : t[id].dels[k].msg = msg /\ ~t[id].dels[k].open
<1> DEFINE D == [msg: Nat, to: Ids, open: BOOLEAN]
           s == agents[id]
           dels == [k \in DOMAIN s.dels |->
                      IF s.dels[k].msg = msg THEN [s.dels[k] EXCEPT !.open = FALSE]
                                             ELSE s.dels[k]]
           u == [s EXCEPT !.dels = dels]
           t == Closed(id, msg)
<1>0. id \in Ids BY DEF LiveIds
<1>1. s \in SlotType /\ s.active BY DEF Base, TableTypes, LiveIds
<1>2. s.dels \in Seq(D) BY <1>1 DEF SlotType
<1>3. \A k \in DOMAIN s.dels : s.dels[k] \in D BY <1>2, ElementsOf
<1>4. \A k \in DOMAIN s.dels :
         /\ dels[k] \in D
         /\ dels[k].msg = s.dels[k].msg
         /\ dels[k].open => s.dels[k].open
         /\ s.dels[k].msg = msg => ~dels[k].open
  BY <1>3
<1>5. dels \in Seq(D) BY <1>2, <1>4, SameLength
<1>6. u \in SlotType /\ u.dels = dels /\ u.state = s.state BY <1>1, <1>5 DEF SlotType
<1>7. t = [agents EXCEPT ![id] = u] BY DEF Closed
<1>8. /\ t \in [Ids -> SlotType] /\ t[id] = u
      /\ \A other \in Ids \ {id} : t[other] = agents[other]
  BY <1>0, <1>6, <1>7 DEF Base, TableTypes
<1>9. u = [s EXCEPT !.dels = u.dels, !.state = u.state] BY <1>1, <1>6 DEF SlotType
<1>10. PICK k \in DOMAIN s.dels : s.dels[k].msg = msg BY DEF HasDel
<1>11. DOMAIN dels = DOMAIN s.dels OBVIOUS
<1> HIDE DEF dels, u, t
<1>12. Noted(s, u) BY <1>4, <1>6, <1>9, <1>11 DEF Noted
<1>13. Prepared(t) BY <1>0, <1>1, <1>8, <1>12 DEF Prepared
<1>14. k \in DOMAIN u.dels /\ u.dels[k].msg = msg /\ ~u.dels[k].open
  BY <1>4, <1>6, <1>10, <1>11
<1> QED BY <1>8, <1>13, <1>14 DEF t

LEMMA TakeTypes ==
  ASSUME Base, NEW id \in Ids, Take(id), UNCHANGED nextMsg
  PROVE  agents' \in [Ids -> SlotType] /\ MailTypes'
<1> DEFINE s == agents[id]
           u == [s EXCEPT !.inbox = Tail(@)]
           r == Head(s.inbox)
<1>1. s \in SlotType BY DEF Base, TableTypes
<1>2. s.inbox \in Seq(Refs) /\ s.inbox # <<>> BY <1>1 DEF SlotType, Take
<1>3. Tail(s.inbox) \in Seq(Refs) /\ r \in Refs BY <1>2
<1>4. u \in SlotType BY <1>1, <1>3 DEF SlotType
<1>5. agents' = [agents EXCEPT ![id] = u] BY DEF Take
<1>6. agents' \in [Ids -> SlotType] BY <1>4, <1>5, Rewritten DEF Base
<1>7. got' = got \cup {pool[r]} /\ pool' = [pool EXCEPT ![r] = NoMsg] BY DEF Take
<1>8. MailTypes' BY <1>3, <1>7 DEF Base, MailTypes
<1> QED BY <1>6, <1>8

LEMMA MarkTypes ==
  ASSUME Base, NEW t \in Threads, Mark(t)
  PROVE  agents' \in [Ids -> SlotType]
<1> DEFINE id == frame[t].id
           u == [agents[id] EXCEPT !.state = "WAITING"]
<1>1. CASE Live(id)
  <2>1. id \in Ids BY <1>1 DEF Live
  <2>2. agents[id] \in SlotType BY <2>1 DEF Base, TableTypes
  <2>3. u \in SlotType BY <2>2, StatesAre DEF SlotType
  <2>4. agents' = [agents EXCEPT ![id] = u] \/ agents' = agents BY DEF Mark
  <2>5. [agents EXCEPT ![id] = u] \in [Ids -> SlotType]
    BY <2>1, <2>3, Rewritten DEF Base
  <2> QED BY <2>4, <2>5 DEF Base, TableTypes
<1>2. CASE ~Live(id) BY <1>2 DEF Mark, Base, TableTypes
<1> QED BY <1>1, <1>2

LEMMA DrainedType ==
  ASSUME MailTypes, NEW ids
  PROVE  Drained(ids) \in [Refs -> MsgType \cup {NoMsg}]
  BY DEF MailTypes, Drained

\* Who receives a message is an agent, or nobody.
LEMMA GotType ==
  ASSUME MailTypes, NEW m \in got, m.kind \in Kinds
  PROVE  m \in MsgType
  BY DEF MailTypes, NoMsg, Kinds

\* A frame keeps its type when it goes on or returns.
LEMMA GotoOk ==
  ASSUME TableTypes, NEW t \in Threads, NEW pc \in {"poll", "mark"},
         Goto(t, pc) \/ Return(t)
  PROVE  frame' \in [Threads -> FrameType]
<1>1. frame[t] \in FrameType BY DEF TableTypes
<1>2. [frame[t] EXCEPT !.pc = pc] \in FrameType BY <1>1 DEF FrameType
<1>3. NoFrame \in FrameType BY DEF NoFrame, FrameType
<1> QED BY <1>2, <1>3 DEF Goto, Return, TableTypes

\* The calls that put a message into an inbox.
Sending ==
    \/ \E from, to \in Ids : Send(from, to) \/ Delegate(from, to)
    \/ \E id \in Ids, m \in got : Result(m, id)
    \/ \E m \in got : Reply(m)
    \/ CastPost

\* The table is prepared, and the message is posted to an agent that lives; a
\* RESULT goes to an agent that has a closed record of the task.
SendsOf(m, done, failed, asleep) ==
    /\ Prepared(done) /\ Prepared(failed)
    /\ m.to \in LiveIds /\ m.id = nextMsg
    /\ asleep \cap Final = {}
    /\ m.kind = "RESULT" =>
          \E k \in DOMAIN done[m.to].dels :
             done[m.to].dels[k].msg = m.re /\ ~done[m.to].dels[k].open
    /\ Post(m, done, failed, asleep)

LEMMA SendingIs ==
  ASSUME Base, Sending
  PROVE  /\ \E m, done, failed, asleep : m \in MsgType /\ SendsOf(m, done, failed, asleep)
         /\ UNCHANGED got
<1> USE DEF Base
<1>0. Prepared(agents) BY DEF TableTypes, Prepared
<1>1. {"TELL", "EVENT", "REPLY", "DELEGATE", "RESULT"} \subseteq Kinds /\ 0 \in Nat
  BY DEF Kinds
<1>2. {"WAITING"} \cap Final = {} /\ {"WAITING", "DELEGATING"} \cap Final = {}
  BY DEF Final
<1>3. CASE \E from, to \in Ids : Send(from, to)
  <2>1. PICK from \in Ids, to \in Ids : Send(from, to) BY <1>3
  <2> DEFINE m == Message("TELL", from, to, 0)
  <2>2. m \in MsgType /\ m.to = to /\ m.kind = "TELL" /\ m.id = nextMsg
    BY <1>1, MessageType
  <2>3. Post(m, agents, agents, {"WAITING"}) /\ UNCHANGED got /\ Live(to)
    BY <2>1 DEF Send, OthersOfPost
  <2> HIDE DEF m
  <2>4. SendsOf(m, agents, agents, {"WAITING"})
    BY <1>0, <1>2, <2>2, <2>3 DEF SendsOf, Live, LiveIds
  <2> QED BY <2>2, <2>3, <2>4
<1>4. CASE \E from, to \in Ids : Delegate(from, to)
  <2>1. PICK from \in Ids, to \in Ids : Delegate(from, to) BY <1>4
  <2> DEFINE m == Message("DELEGATE", from, to, 0)
  <2>2. m \in MsgType /\ m.to = to /\ m.kind = "DELEGATE" /\ m.id = nextMsg
    BY <1>1, MessageType
  <2>3. /\ Post(m, Recorded(from, to), agents, {"WAITING"}) /\ UNCHANGED got
        /\ Live(to) /\ Live(from) /\ "delegate" \in ApiCalls
    BY <2>1 DEF Delegate, OthersOfPost, CanSpeak, MayPost, Api
  <2>4. Prepared(Recorded(from, to)) BY <2>3, RecordedOk DEF LiveIds, Live
  <2> HIDE DEF m
  <2>5. SendsOf(m, Recorded(from, to), agents, {"WAITING"})
    BY <1>0, <1>2, <2>2, <2>3, <2>4 DEF SendsOf, Live, LiveIds
  <2> QED BY <2>2, <2>3, <2>5
<1>5. CASE \E id \in Ids, m \in got : Result(m, id)
  <2>1. PICK id \in Ids, task \in got : Result(task, id) BY <1>5
  <2> DEFINE m == Message("RESULT", task.to, id, task.id)
             closed == Closed(id, task.id)
  <2>2. task \in MsgType BY <2>1, GotType DEF Result, Kinds
  <2>8. task.to \in Ids /\ task.id \in Nat BY <2>2 DEF MsgType
  <2>3. m \in MsgType /\ m.to = id /\ m.re = task.id /\ m.id = nextMsg
    BY <1>1, <2>8, MessageType
  <2>4. /\ Post(m, closed, closed, {"WAITING", "DELEGATING"}) /\ UNCHANGED got
        /\ Delegator(id, task.id)
    BY <2>1 DEF Result, OthersOfPost
  <2>5. id \in LiveIds /\ HasDel(id, task.id) BY <2>4 DEF Delegator, Live, LiveIds
  <2>6. /\ Prepared(closed)
        /\ \E k \in DOMAIN closed[id].dels :
              closed[id].dels[k].msg = task.id /\ ~closed[id].dels[k].open
    BY <2>5, ClosedOk
  <2> HIDE DEF m, closed
  <2>7. SendsOf(m, closed, closed, {"WAITING", "DELEGATING"})
    BY <1>2, <2>3, <2>4, <2>5, <2>6 DEF SendsOf
  <2> QED BY <2>3, <2>4, <2>7
<1>6. CASE \E m \in got : Reply(m)
  <2>1. PICK first \in got : Reply(first) BY <1>6
  <2> DEFINE m == Message("REPLY", first.to, first.from, first.id)
  <2>2. first.to \in Ids /\ first.from \in LiveIds /\ first.from \in Ids
    BY <2>1 DEF Reply, CanSpeak, Live, LiveIds
  <2>3. first \in MsgType BY <2>2, FirstIsId DEF MailTypes, NoMsg
  <2>7. first.to \in Ids /\ first.id \in Nat BY <2>3 DEF MsgType
  <2>4. m \in MsgType /\ m.to = first.from /\ m.kind = "REPLY" /\ m.id = nextMsg
    BY <1>1, <2>2, <2>7, MessageType
  <2>5. Post(m, agents, agents, {"WAITING"}) /\ UNCHANGED got
    BY <2>1 DEF Reply, OthersOfPost
  <2> HIDE DEF m
  <2>6. SendsOf(m, agents, agents, {"WAITING"})
    BY <1>0, <1>2, <2>2, <2>4, <2>5 DEF SendsOf
  <2> QED BY <2>4, <2>5, <2>6
<1>7. CASE CastPost
  <2> DEFINE m == Message("EVENT", cast.from, NextSub, 0)
  <2>1. cast.from \in Ids BY <1>7 DEF CastPost, CallsOk
  <2>2. NextSub \in Ids /\ NextSub \in LiveIds BY <1>7 DEF CastPost, Live, LiveIds
  <2>3. m \in MsgType /\ m.to = NextSub /\ m.kind = "EVENT" /\ m.id = nextMsg
    BY <1>1, <2>1, <2>2, MessageType
  <2>4. Post(m, agents, agents, {"WAITING"}) /\ UNCHANGED got
    BY <1>7 DEF CastPost, OthersOfPost
  <2> HIDE DEF m
  <2>5. SendsOf(m, agents, agents, {"WAITING"})
    BY <1>0, <1>2, <2>2, <2>3, <2>4 DEF SendsOf
  <2> QED BY <2>3, <2>4, <2>5
<1> QED BY <1>3, <1>4, <1>5, <1>6, <1>7 DEF Sending

LEMMA SendingTypes ==
  ASSUME Base, Sending
  PROVE  agents' \in [Ids -> SlotType] /\ MailTypes'
<1>1. PICK m, done, failed, asleep : m \in MsgType /\ SendsOf(m, done, failed, asleep)
  BY SendingIs
<1>2. UNCHANGED got BY SendingIs
<1>3. done \in [Ids -> SlotType] /\ failed \in [Ids -> SlotType]
  BY <1>1 DEF SendsOf, Prepared
<1> QED BY <1>1, <1>2, <1>3, PostTypes DEF SendsOf

LEMMA CastOnOk ==
  ASSUME Base, cast # NoCast, CastOn
  PROVE  /\ cast' \in [from: Ids \cup {NoId}, rest: Seq(Ids)]
         /\ cast' # NoCast => cast'.from \in Ids /\ cast'.rest # <<>>
<1>1. /\ cast \in [from: Ids \cup {NoId}, rest: Seq(Ids)]
      /\ cast.from \in Ids /\ cast.rest # <<>>
  BY DEF Base, TableTypes, CallsOk
<1>2. cast.rest \in Seq(Ids) BY <1>1
<1>3. Tail(cast.rest) \in Seq(Ids) BY <1>1, <1>2
<1>4. NoCast \in [from: Ids \cup {NoId}, rest: Seq(Ids)] BY DEF NoCast
<1>5. [cast EXCEPT !.rest = Tail(@)] = [from |-> cast.from, rest |-> Tail(cast.rest)]
  BY <1>1
<1> QED BY <1>1, <1>3, <1>4, <1>5 DEF CastOn

\* The other steps of messaging keep the inboxes or take from them.
LEMMA ReceivingTypes ==
  ASSUME Base, MailNext, ~Sending
  PROVE  agents' \in [Ids -> SlotType] /\ MailTypes'
<1> USE DEF Base
<1>0. agents \in [Ids -> SlotType] BY DEF TableTypes
<1>1. CASE \E id \in Ids : RecvNow(id)
  BY <1>1, TakeTypes DEF RecvNow
<1>2. CASE \E id \in Ids : Terminate(id)
  <2>1. PICK id \in Ids : Terminate(id) BY <1>2
  <2>2. agents' \in [Ids -> SlotType]
    BY <2>1, FreeSlotType, Rewritten DEF Terminate
  <2>3. MailTypes' BY <2>1, DrainedType DEF Terminate, MailTypes
  <2> QED BY <2>2, <2>3
<1>3. CASE \E id \in Ids, m \in got : ResultNoMem(m, id)
  <2>1. PICK id \in Ids, m \in got : ResultNoMem(m, id) BY <1>3
  <2>2. id \in LiveIds /\ HasDel(id, m.id) BY <2>1 DEF ResultNoMem, Delegator, Live, LiveIds
  <2>3. agents' \in [Ids -> SlotType] BY <2>1, <2>2, ClosedOk DEF ResultNoMem, Prepared
  <2> QED BY <2>1, <2>3, MailKept DEF ResultNoMem, OthersOfPost, mailVars
<1>4. CASE \/ CastSkip \/ \E id \in Ids, topic \in Topics : Broadcast(id, topic)
           \/ \E t \in Threads : PollGone(t) \/ PollMiss(t)
           \/ \E t \in Threads, id \in Ids : RecvWait(t, id)
  <2>1. UNCHANGED <<agents, mailVars>>
    BY <1>4 DEF CastSkip, Broadcast, PollGone, PollMiss, RecvWait
  <2> QED BY <1>0, <2>1, MailKept
<1>5. CASE \E t \in Threads : PollTake(t)
  <2>1. PICK t \in Threads : PollTake(t) BY <1>5
  <2>2. frame[t].id \in Ids /\ Take(frame[t].id) /\ UNCHANGED nextMsg
    BY <2>1 DEF PollTake, Live
  <2> QED BY <2>2, TakeTypes
<1>6. CASE \E t \in Threads : Mark(t)
  BY <1>6, MarkTypes, MailKept DEF Mark
<1> QED BY <1>1, <1>2, <1>3, <1>4, <1>5, <1>6 DEF MailNext, Sending, Poll

\* What messaging does to the frames and to the lock.
LEMMA MailFrames ==
  ASSUME Base, MailNext
  PROVE  /\ frame' \in [Threads -> FrameType]
         /\ bitmap' \subseteq bitmap
         /\ UNCHANGED <<initialized, slice, discVars>>
         /\ \/ Unlocked /\ UNCHANGED cast
            \/ \E id \in Ids, topic \in Topics : Broadcast(id, topic)
            \/ cast # NoCast /\ CastOn
<1> USE DEF Base
<1>1. CASE Sending \/ CastSkip
  <2>1. UNCHANGED <<initialized, frame, bitmap, slice, discVars>>
    BY <1>1 DEF Sending, Send, Delegate, Result, Reply, CastPost, CastSkip, OthersOfPost
  <2>2. (Unlocked /\ UNCHANGED cast) \/ (cast # NoCast /\ CastOn)
    BY <1>1 DEF Sending, Send, Delegate, Result, Reply, CastPost, CastSkip, MayPost, Api
  <2> QED BY <2>1, <2>2 DEF TableTypes
<1>2. CASE \E id \in Ids : RecvNow(id) \/ Terminate(id)
  BY <1>2 DEF RecvNow, Terminate, held, Api, TableTypes, Freed, discVars
<1>3. CASE \E id \in Ids, m \in got : ResultNoMem(m, id)
  BY <1>3 DEF ResultNoMem, OthersOfPost, Api, TableTypes, discVars
<1>4. CASE \E id \in Ids, topic \in Topics : Broadcast(id, topic)
  BY <1>4 DEF Broadcast, TableTypes, discVars
<1>5. CASE \E t \in Threads, id \in Ids : RecvWait(t, id)
  <2>1. PICK t \in Threads, id \in Ids : RecvWait(t, id) BY <1>5
  <2>2. [pc |-> "poll", id |-> id, caps |-> {}] \in FrameType BY DEF FrameType
  <2> QED BY <2>1, <2>2 DEF RecvWait, held, discVars, Api, TableTypes
<1>6. CASE \E t \in Threads : Poll(t)
  <2>1. PICK t \in Threads : Poll(t) BY <1>6
  <2>2. \E pc \in {"poll", "mark"} : Goto(t, pc) \/ Return(t)
    BY <2>1 DEF Poll, PollTake, PollGone, PollMiss, Mark
  <2>3. /\ Unlocked
        /\ UNCHANGED <<initialized, bitmap, held, discVars>>
    BY <2>1 DEF Poll, PollTake, PollGone, PollMiss, Mark, At
  <2> QED BY <2>2, <2>3, GotoOk DEF held, discVars
<1> QED BY <1>1, <1>2, <1>3, <1>4, <1>5, <1>6 DEF MailNext, Sending

LEMMA MailTypesNext ==
  ASSUME Base, MailNext, UNCHANGED schedVars
  PROVE  Base'
<1> USE DEF Base
<1>1. agents' \in [Ids -> SlotType] /\ MailTypes'
  BY SendingTypes, ReceivingTypes
<1>2. CASE Unlocked /\ UNCHANGED cast
  <2>1. CallsOk' BY <1>2, MailFrames, CallsKept DEF schedVars
  <2>2. TableTypes' BY <1>1, <1>2, MailFrames DEF TableTypes
  <2> QED BY <1>1, <2>1, <2>2, MailFrames, DiscKept, SchedKept
<1>3. CASE \E id \in Ids, topic \in Topics : Broadcast(id, topic)
  <2>1. PICK id \in Ids, topic \in Topics : Broadcast(id, topic) BY <1>3
  <2>2. /\ slice' = NoSlice /\ cast'.from = id /\ cast'.rest # <<>>
        /\ cast' = [from |-> id, rest |-> Subscribers(topic)]
    BY <2>1 DEF Broadcast, MayPost, Api, Unlocked
  <2>3. cast' \in [from: Ids \cup {NoId}, rest: Seq(Ids)]
    BY <2>2, SubscribersType
  <2>4. CallsOk' BY <2>1, <2>2 DEF Broadcast, CallsOk, schedVars
  <2>5. TableTypes' BY <1>1, <2>3, MailFrames DEF TableTypes
  <2> QED BY <1>1, <2>4, <2>5, MailFrames, DiscKept, SchedKept
<1>4. CASE cast # NoCast /\ CastOn
  <2>1. slice = NoSlice /\ slice' = NoSlice BY <1>4, MailFrames DEF CallsOk
  <2>2. /\ cast' \in [from: Ids \cup {NoId}, rest: Seq(Ids)]
        /\ cast' # NoCast => cast'.from \in Ids /\ cast'.rest # <<>>
    BY <1>4, CastOnOk
  <2>3. CallsOk' BY <2>1, <2>2 DEF CallsOk, schedVars
  <2>4. TableTypes' BY <1>1, <2>2, MailFrames DEF TableTypes
  <2> QED BY <1>1, <2>3, <2>4, MailFrames, DiscKept, SchedKept
<1> QED BY <1>2, <1>3, <1>4, MailFrames

-----------------------------------------------------------------------------
(* Steps of execution.                                                      *)

\* One agent that may run is executed.
Executes(id) ==
    /\ id \in Ids /\ agents[id].active /\ ~agents[id].paused
    /\ agents[id].state \notin Final
    /\ \E t \in SlotType : Executed(agents[id], t) /\ agents' = [agents EXCEPT ![id] = t]

LEMMA BeginOk ==
  ASSUME Base, NEW id \in Ids, NEW ticks \in Nat, NEW bySched \in BOOLEAN,
         Begin(id, ticks, bySched)
  PROVE  /\ Executes(id)
         /\ slice' \in [id: Ids \cup {NoId}, left: Nat, sched: BOOLEAN]
         /\ slice'.id = id /\ slice'.sched = bySched
         /\ agents'[id].active /\ ~agents'[id].paused /\ agents'[id].state \notin Final
<1> DEFINE s == agents[id]
           t == [VmStarted(s) EXCEPT !.state = "THINKING"]
<1>1. s \in SlotType BY DEF Base, TableTypes
<1>2. Executed(s, t) /\ t.state = "THINKING" BY <1>1, VmStartedOk
<1>3. agents' = [agents EXCEPT ![id] = t] BY DEF Begin
<1>4. s.active /\ ~s.paused /\ s.state \notin Final BY DEF Begin, MayRun, Live
<1>5. t \in SlotType /\ t.active = s.active /\ t.paused = s.paused
  BY <1>2 DEF Executed
<1>6. agents'[id] = t BY <1>3 DEF Base, TableTypes
<1> HIDE DEF t
<1>7. Executes(id) BY <1>2, <1>3, <1>4, <1>5 DEF Executes
<1>8. agents'[id].active /\ ~agents'[id].paused /\ agents'[id].state \notin Final
  BY <1>2, <1>4, <1>5, <1>6 DEF Final
<1> QED BY <1>7, <1>8 DEF Begin

\* The end of a slice.
LEMMA EndOk ==
  ASSUME Base, slice # NoSlice, NEW slot, Executed(agents[slice.id], slot), End(slot)
  PROVE  Executes(slice.id) /\ SchedTypes'
<1> USE DEF Base
<1> DEFINE id == slice.id
           t == IF slot.state = "TERMINATED" THEN [slot EXCEPT !.vm = "HALTED"] ELSE slot
<1>1. /\ id \in Ids /\ agents[id].active /\ ~agents[id].paused
      /\ agents[id].state \notin Final
  BY DEF CallsOk, LiveIds
<1>2. slot \in SlotType BY DEF Executed
<1>3. Executed(agents[id], t) BY <1>2, StatesAre DEF Executed, SlotType
<1>4. t \in SlotType BY <1>3 DEF Executed
<1>5. agents' = [agents EXCEPT ![id] = t] BY DEF End
<1> HIDE DEF t
<1>6. Executes(id) BY <1>1, <1>3, <1>4, <1>5 DEF Executes
<1>7. CASE slice.sched
  <2>0. sched.pc = "slice" BY <1>7 DEF CallsOk
  <2>1. sched.i < AgentMax /\ sched.i \in Nat
    BY <2>0 DEF CallsOk, SchedTypes, SchedType
  <2>2. sched' = [sched EXCEPT !.pc = "scan", !.i = @ + 1, !.pick = NoId] /\ cursor' = cursor
    BY <1>7 DEF End, SchedOn
  <2>3. AgentMax \in Nat BY AgentAssumption
  <2>4. sched.i + 1 \in 0 .. AgentMax BY <2>1, <2>3
  <2>5. sched \in SchedType BY DEF SchedTypes
  <2>6. sched' \in SchedType BY <2>2, <2>4, <2>5 DEF SchedType
  <2> QED BY <1>6, <2>2, <2>6 DEF SchedTypes
<1>8. CASE ~slice.sched
  <2>1. sched' = sched /\ cursor' = cursor BY <1>8 DEF End
  <2> QED BY <1>6, <2>1 DEF SchedTypes
<1> QED BY <1>7, <1>8, <1>6

LEMMA IdAtOk ==
  ASSUME SchedTypes, NEW i \in Nat
  PROVE  IdAt(i) \in Ids
<1>1. cursor \in Nat BY DEF SchedTypes
<1>2. AgentMax \in Nat \ {0} BY AgentAssumption
<1>3. cursor + i \in Nat BY <1>1
<1>4. (cursor + i) % AgentMax \in 0 .. AgentMax - 1 BY <1>2, <1>3
<1> QED BY <1>2, <1>4 DEF IdAt, Ids, FirstId

\* The scheduler's own steps.
LEMMA SchedulerTypes ==
  ASSUME Base, SchedStart \/ SchedPick \/ SchedFetch \/ SchedRound
  PROVE  SchedTypes' /\ CallsOk' /\ UNCHANGED tableVars
<1> USE DEF Base
<1>0. sched \in SchedType /\ cursor \in 0 .. AgentMax - 1 BY DEF SchedTypes
<1>5. NoSched \in SchedType /\ NoSched.pc = "idle"
  BY AgentAssumption DEF NoSched, SchedType
<1>6. ASSUME NEW s \in SchedType, NEW n \in Nat
      PROVE  LET t == [s EXCEPT !.pc = "scan", !.round = n]
             IN  t \in SchedType /\ t.pc = "scan"
  BY DEF SchedType
<1>7. ASSUME NEW s \in SchedType
      PROVE  LET t == [s EXCEPT !.pc = "scan"]
             IN  t \in SchedType /\ t.pc = "scan"
  BY DEF SchedType
<1>1. CASE SchedStart
  <2>1. sched' \in SchedType /\ sched'.pc = "scan" /\ sched.pc = "idle"
    BY <1>1, <1>5, <1>7 DEF SchedStart
  <2> QED BY <1>0, <1>1, <2>1 DEF SchedStart, SchedTypes, CallsOk, tableVars, held, LiveIds
<1>2. CASE SchedPick
  <2>1. PICK i \in sched.i .. AgentMax - 1 :
          sched' = [sched EXCEPT !.pc = "fetch", !.i = i, !.found = TRUE, !.pick = IdAt(i)]
    BY <1>2 DEF SchedPick
  <2>2. i \in 0 .. AgentMax /\ i < AgentMax
    BY <1>0, AgentAssumption DEF SchedType
  <2>3. IdAt(i) \in Ids BY <2>2, IdAtOk
  <2>4. sched' \in SchedType /\ sched'.i < AgentMax
    BY <1>0, <2>1, <2>2, <2>3 DEF SchedType
  <2> QED BY <1>0, <1>2, <2>4 DEF SchedPick, SchedTypes, CallsOk, tableVars, held, Unlocked
<1>3. CASE SchedFetch
  <2>1. sched' = [sched EXCEPT !.pc = "run", !.pick = IF Live(@) THEN @ ELSE NoId]
    BY <1>3 DEF SchedFetch
  <2>2. sched' \in SchedType /\ sched'.i = sched.i /\ sched.pc = "fetch"
    BY <1>0, <1>3, <2>1 DEF SchedFetch, SchedType
  <2> QED BY <1>0, <1>3, <2>2 DEF SchedFetch, SchedTypes, CallsOk, tableVars, held, LiveIds
<1>4. CASE SchedRound
  <2>3. sched.round + 1 \in Nat BY <1>0 DEF SchedType
  <2>4. \/ sched' = NoSched
        \/ sched' = [NoSched EXCEPT !.pc = "scan", !.round = sched.round + 1]
    BY <1>4 DEF SchedRound, RoundOver
  <2>1. sched' \in SchedType /\ sched'.pc \in {"scan", "idle"}
    BY <1>5, <1>6, <2>3, <2>4
  <2>2. cursor' \in 0 .. AgentMax - 1
    BY <1>0, <1>4, AgentAssumption DEF SchedRound, NextCursor
  <2> QED BY <1>4, <2>1, <2>2
       DEF SchedRound, SchedTypes, CallsOk, tableVars, held, Unlocked
<1> QED BY <1>1, <1>2, <1>3, <1>4

\* What leaves the registry, the bitmap and the frames alone and executes.
LEMMA ExecutesTypes ==
  ASSUME Base, NEW id, Executes(id), UNCHANGED <<initialized, bitmap, frame, cast>>,
         slice' \in [id: Ids \cup {NoId}, left: Nat, sched: BOOLEAN]
  PROVE  TableTypes'
  BY Rewritten DEF Base, TableTypes, Executes

LEMMA StepTypes ==
  ASSUME Base, NEW id \in Ids, Step(id)
  PROVE  Executes(id) /\ UNCHANGED <<initialized, bitmap, frame, held, schedVars>> /\ Unlocked
<1>1. PICK out \in SandboxStep(VmStarted(agents[id])) :
        agents' = [agents EXCEPT ![id] = out.slot]
  BY DEF Step
<1>2. agents[id] \in SlotType BY DEF Base, TableTypes
<1>3. Executed(agents[id], VmStarted(agents[id])) BY <1>2, VmStartedOk
<1>4. VmStarted(agents[id]) \in SlotType BY <1>3 DEF Executed
<1>5. Executed(agents[id], out.slot) BY <1>3, <1>4, SandboxStepOk, ExecutedTwice
<1>6. out.slot \in SlotType BY <1>5 DEF Executed
<1> QED BY <1>1, <1>5, <1>6 DEF Step, Executes, MayRun, Live, Api

LEMMA SliceStepOk ==
  ASSUME Base, SliceStep
  PROVE  /\ Executes(slice.id)
         /\ UNCHANGED <<initialized, bitmap, frame, cast>>
         /\ SchedTypes' /\ slice' \in [id: Ids \cup {NoId}, left: Nat, sched: BOOLEAN]
         /\ CallsOk'
<1> USE DEF Base
<1> DEFINE id == slice.id
<1>1. /\ slice # NoSlice /\ id \in Ids /\ agents[id].active /\ ~agents[id].paused
      /\ agents[id].state \notin Final /\ cast = NoCast
  BY DEF SliceStep, CallsOk, LiveIds
<1>2. agents[id] \in SlotType BY <1>1 DEF TableTypes
<1>3. PICK out \in SandboxStep(agents[id]) :
        IF out.result = "OK"
        THEN /\ agents' = [agents EXCEPT ![id] = out.slot]
             /\ slice' = [slice EXCEPT !.left = @ - 1]
             /\ UNCHANGED <<initialized, bitmap, frame, cast, schedVars>>
        ELSE End(out.slot)
  BY DEF SliceStep
<1>4. /\ Executed(agents[id], out.slot)
      /\ out.result = "OK" => out.slot.state = "THINKING"
  BY <1>2, SandboxStepOk
<1>5. out.slot \in SlotType BY <1>4 DEF Executed
<1>6. CASE out.result = "OK"
  <2>1. Executes(id) BY <1>1, <1>3, <1>4, <1>5, <1>6 DEF Executes
  <2>2. /\ slice' \in [id: Ids \cup {NoId}, left: Nat, sched: BOOLEAN]
        /\ slice'.id = id /\ slice'.sched = slice.sched
    BY <1>3, <1>6 DEF TableTypes, SliceStep
  <2>3. agents'[id] = out.slot BY <1>1, <1>3, <1>6 DEF TableTypes
  <2>4. agents'[id].active /\ ~agents'[id].paused /\ agents'[id].state \notin Final
    BY <1>1, <1>4, <1>6, <2>3 DEF Executed, Final
  <2>5. CallsOk'
    BY <1>1, <1>3, <1>6, <2>2, <2>4 DEF CallsOk, LiveIds, schedVars
  <2> QED BY <1>3, <1>6, <2>1, <2>2, <2>5 DEF SchedTypes, schedVars
<1>7. CASE out.result # "OK"
  <2>1. End(out.slot) BY <1>3, <1>7
  <2>2. Executes(id) /\ SchedTypes' BY <1>1, <1>4, <2>1, EndOk
  <2>3. /\ UNCHANGED <<initialized, bitmap, frame, cast>>
        /\ slice' \in [id: Ids \cup {NoId}, left: Nat, sched: BOOLEAN]
    BY <2>1 DEF End, NoSlice
  <2>4. CallsOk' BY <1>1, <2>1 DEF End, CallsOk, SchedOn, SchedTypes, SchedType
  <2> QED BY <2>2, <2>3, <2>4
<1> QED BY <1>6, <1>7

\* A slice begins, given by the scheduler or asked for.
LEMMA BeginTypes ==
  ASSUME Base, NEW id \in Ids, NEW ticks \in Nat, NEW bySched \in BOOLEAN,
         Begin(id, ticks, bySched), Unlocked,
         \/ ~bySched /\ UNCHANGED sched
         \/ bySched /\ sched.pc = "run" /\ sched' = [sched EXCEPT !.pc = "slice"],
         UNCHANGED cursor
  PROVE  TableTypes' /\ SchedTypes' /\ CallsOk'
<1> USE DEF Base
<1>1. /\ Executes(id)
      /\ slice' \in [id: Ids \cup {NoId}, left: Nat, sched: BOOLEAN]
      /\ slice'.id = id /\ slice'.sched = bySched
      /\ agents'[id].active /\ ~agents'[id].paused /\ agents'[id].state \notin Final
  BY BeginOk
<1>2. UNCHANGED <<initialized, bitmap, frame, cast>> BY DEF Begin
<1>3. TableTypes' BY <1>1, <1>2, ExecutesTypes
<1>4. sched \in SchedType BY DEF SchedTypes
<1>5. CASE ~bySched /\ UNCHANGED sched
  BY <1>1, <1>2, <1>3, <1>5 DEF SchedTypes, CallsOk, LiveIds, Unlocked
<1>6. CASE bySched /\ sched.pc = "run" /\ sched' = [sched EXCEPT !.pc = "slice"]
  <2>1. sched' \in SchedType /\ sched'.i = sched.i /\ sched'.pc = "slice"
    BY <1>4, <1>6 DEF SchedType
  <2> QED BY <1>1, <1>2, <1>3, <1>6, <2>1 DEF SchedTypes, CallsOk, LiveIds, Unlocked
<1> QED BY <1>5, <1>6

LEMMA SandboxTypesNext ==
  ASSUME Base, SandboxNext, UNCHANGED <<discVars, mailVars>>
  PROVE  Base'
<1> USE DEF Base
<1>0. DiscTypes' /\ MailTypes' BY DiscKept, MailKept
<1>1. CASE \E id \in Ids : Step(id)
  <2>1. PICK id \in Ids : Step(id) BY <1>1
  <2>2. /\ Executes(id) /\ Unlocked
        /\ UNCHANGED <<initialized, bitmap, frame, held, schedVars>>
    BY <2>1, StepTypes
  <2>3. slice' \in [id: Ids \cup {NoId}, left: Nat, sched: BOOLEAN]
    BY <2>2 DEF held, TableTypes
  <2>4. TableTypes' BY <2>2, <2>3, ExecutesTypes DEF held
  <2>5. CallsOk' /\ SchedTypes' BY <2>2, CallsKept, SchedKept DEF held, schedVars
  <2> QED BY <1>0, <2>4, <2>5
<1>2. CASE \E id \in Ids, ticks \in RunTicks : Run(id, ticks)
  <2>1. PICK id \in Ids, ticks \in RunTicks : Run(id, ticks) BY <1>2
  <2>2. Begin(id, ticks, FALSE) /\ Unlocked /\ UNCHANGED <<sched, cursor>>
    BY <2>1 DEF Run, Api, schedVars
  <2>3. ticks \in Nat BY SandboxAssumption
  <2> QED BY <1>0, <2>2, <2>3, BeginTypes
<1>3. CASE SchedStart \/ SchedPick \/ SchedFetch \/ SchedRound
  <2>1. SchedTypes' /\ CallsOk' /\ UNCHANGED tableVars BY <1>3, SchedulerTypes
  <2>2. TableTypes' BY <2>1 DEF TableTypes, tableVars, held
  <2> QED BY <1>0, <2>1, <2>2
<1>4. CASE SchedRun
  <2>1. CASE initialized /\ MayRun(sched.pick)
    <3>1. /\ Begin(sched.pick, SchedSlice, TRUE) /\ Unlocked
          /\ sched' = [sched EXCEPT !.pc = "slice"] /\ UNCHANGED cursor
          /\ sched.pc = "run"
      BY <1>4, <2>1 DEF SchedRun
    <3>2. sched.pick \in Ids /\ SchedSlice \in Nat
      BY <2>1, SandboxAssumption DEF MayRun, Live
    <3> QED BY <1>0, <3>1, <3>2, BeginTypes
  <2>2. CASE ~(initialized /\ MayRun(sched.pick))
    <3>1. /\ sched' = SchedOn /\ UNCHANGED tableVars /\ UNCHANGED cursor
          /\ sched.pc = "run" /\ Unlocked
      BY <1>4, <2>2 DEF SchedRun
    <3>2. sched \in SchedType /\ sched.i < AgentMax
      BY <3>1 DEF SchedTypes, CallsOk
    <3>7. sched.i + 1 \in 0 .. AgentMax BY <3>2, AgentAssumption DEF SchedType
    <3>3. sched' \in SchedType /\ sched'.pc = "scan"
      BY <3>1, <3>2, <3>7 DEF SchedOn, SchedType
    <3>4. SchedTypes' BY <3>1, <3>3 DEF SchedTypes
    <3>5. CallsOk' BY <3>1, <3>3 DEF CallsOk, tableVars, held, Unlocked
    <3>6. TableTypes' BY <3>1 DEF TableTypes, tableVars, held
    <3> QED BY <1>0, <3>4, <3>5, <3>6
  <2> QED BY <2>1, <2>2
<1>5. CASE SliceSpent
  <2> DEFINE s == agents[slice.id]
             t == [s EXCEPT !.state = "IDLE"]
  <2>1. slice # NoSlice /\ End(t) BY <1>5 DEF SliceSpent
  <2>2. s \in SlotType BY <2>1 DEF CallsOk, LiveIds, TableTypes
  <2>3. Executed(s, t) BY <2>2, StatesAre DEF Executed, SlotType
  <2> HIDE DEF t
  <2>4. Executes(slice.id) /\ SchedTypes' BY <2>1, <2>3, EndOk
  <2>5. /\ UNCHANGED <<initialized, bitmap, frame, cast>>
        /\ slice' = NoSlice /\ sched' = IF slice.sched THEN SchedOn ELSE sched
    BY <2>1 DEF End
  <2>6. slice' \in [id: Ids \cup {NoId}, left: Nat, sched: BOOLEAN]
    BY <2>5 DEF NoSlice
  <2>7. TableTypes' BY <2>4, <2>5, <2>6, ExecutesTypes
  <2>8. CallsOk' BY <2>1, <2>5 DEF CallsOk, SchedOn, SchedTypes, SchedType
  <2> QED BY <1>0, <2>4, <2>7, <2>8
<1>6. CASE SliceStep
  <2>1. /\ Executes(slice.id)
        /\ UNCHANGED <<initialized, bitmap, frame, cast>>
        /\ SchedTypes' /\ slice' \in [id: Ids \cup {NoId}, left: Nat, sched: BOOLEAN]
        /\ CallsOk'
    BY <1>6, SliceStepOk
  <2> QED BY <1>0, <2>1, ExecutesTypes
<1> QED BY <1>1, <1>2, <1>3, <1>4, <1>5, <1>6 DEF SandboxNext, Scheduling, Slicing

-----------------------------------------------------------------------------
(* Shutdown and restart.                                                    *)

LEMMA EndTypes ==
  ASSUME Base, Shutdown \/ Restart
  PROVE  Base' /\ Unlocked
<1> USE DEF Base
<1>0. Unlocked /\ UNCHANGED <<frame, slice, cast, sched>>
  BY DEF Shutdown, Restart, Api, held
<1>1. DOMAIN NoTopics = {} BY DEF NoTopics
<1>2. 0 \in 0 .. AgentMax - 1 BY AgentAssumption
<1>3. 0 \in 0 .. PubMax BY DiscoveryAssumption
<1>4. CASE Shutdown
  <2>1. agents' \in [Ids -> SlotType] BY <1>4, FreeSlotType DEF Shutdown, TableTypes
  <2>2. TableTypes' BY <1>0, <1>4, <2>1 DEF Shutdown, TableTypes
  <2>3. MailTypes' BY <1>4, DrainedType DEF Shutdown, MailTypes
  <2>4. DiscTypes' BY <1>1, <1>3, <1>4 DEF Shutdown, DiscTypes
  <2>5. SchedTypes' BY <1>2, <1>4 DEF Shutdown, SchedTypes
  <2> QED BY <1>0, <2>2, <2>3, <2>4, <2>5, CallsKept
<1>5. CASE Restart
  <2>1. agents' \in [Ids -> SlotType] BY <1>5, FreeSlotType DEF Restart
  <2>2. TableTypes' BY <1>0, <1>5, <2>1, FirstIsId DEF Restart, TableTypes, Reserved
  <2>3. MailTypes' BY <1>5 DEF Restart, MailTypes
  <2>4. NoPub \in PubType BY DEF NoPub, PubType
  <2>5. DiscTypes' BY <1>1, <1>3, <1>5, <2>4 DEF Restart, DiscTypes, NoPubs
  <2>6. SchedTypes' BY <1>2, <1>5 DEF Restart, SchedTypes
  <2> QED BY <1>0, <2>2, <2>3, <2>5, <2>6, CallsKept
<1> QED BY <1>0, <1>4, <1>5

LEMMA BaseNext == Base /\ [Next]_vars => Base'
<1> SUFFICES ASSUME Base, [Next]_vars PROVE Base'
  OBVIOUS
<1>1. CASE UNCHANGED vars
  BY <1>1 DEF Base, vars, tableVars, held, discVars, mailVars, schedVars,
     TableTypes, DiscTypes, MailTypes, SchedTypes, CallsOk, LiveIds
<1>2. CASE Next
  BY <1>2, TableTypesNext, DiscTypesNext, MailTypesNext, SandboxTypesNext, EndTypes
     DEF Next
<1> QED BY <1>1, <1>2

LEMMA BaseHolds == Spec => []Base
  BY BaseInit, BaseNext, PTL DEF Spec

-----------------------------------------------------------------------------
(* What a step does to a slot.                                              *)

\* Pausing, resuming, and giving or taking rights.
Ruled(s, t) ==
    /\ t = [s EXCEPT !.paused = t.paused, !.vm = t.vm, !.caps = t.caps]
    /\ t.paused = s.paused => t.vm = s.vm

\* Publishing.
Named(s, t) == t = [s EXCEPT !.names = t.names]

\* Messages and delegations; a receive that waits may put the agent to sleep.
Mailed(s, t) ==
    /\ t = [s EXCEPT !.inbox = t.inbox, !.dels = t.dels, !.state = t.state]
    /\ t.state = s.state \/ s.state \notin Final \/ "delegate" \in ApiCalls

Spawned(id) == id \notin bitmap /\ \E caps \in SUBSET Rights : agents'[id] = SpawnedSlot(caps)

Runs(id) ==
    /\ ~agents[id].paused /\ agents[id].state \notin Final
    /\ Executed(agents[id], agents'[id])

LiveStep(id) ==
    \/ agents'[id] = agents[id]
    \/ /\ agents[id].active
       /\ \/ Ruled(agents[id], agents'[id])
          \/ Named(agents[id], agents'[id])
          \/ Mailed(agents[id], agents'[id])
          \/ Runs(id)

SlotStep(id) == LiveStep(id) \/ agents'[id] = FreeSlot \/ Spawned(id)

\* One slot is rewritten: the others are kept.
LEMMA OneSlot ==
  ASSUME Base, NEW id \in Ids, NEW t, agents' = [agents EXCEPT ![id] = t]
  PROVE  agents'[id] = t /\ \A other \in Ids \ {id} : agents'[other] = agents[other]
  BY DEF Base, TableTypes

LEMMA RuledSteps ==
  ASSUME Base, NEW a \in Ids, NEW b \in Ids, NEW id \in Ids,
         \/ Pause(a) \/ Resume(a)
         \/ \E right \in Rights : Grant(a, right) \/ Revoke(a, right)
         \/ \E rights \in SUBSET Rights : Transfer(a, b, rights)
         \/ Inherit(a, b)
  PROVE  \/ agents'[id] = agents[id]
         \/ agents[id].active /\ Ruled(agents[id], agents'[id])
<1> USE DEF Base
<1>0. agents \in [Ids -> SlotType] /\ \A i \in Ids : agents[i] \in SlotType
  BY DEF TableTypes
<1>1. ASSUME NEW c \in Ids, NEW caps, SetCaps(c, caps), agents[c].active
      PROVE  \/ agents'[id] = agents[id]
             \/ agents[id].active /\ Ruled(agents[id], agents'[id])
  <2> DEFINE t == [agents[c] EXCEPT !.caps = caps]
  <2>1. agents' = [agents EXCEPT ![c] = t] BY <1>1 DEF SetCaps
  <2>2. Ruled(agents[c], t) BY <1>0 DEF Ruled, SlotType
  <2> HIDE DEF t
  <2> QED BY <1>1, <2>1, <2>2, OneSlot
<1>2. CASE Pause(a)
  <2> DEFINE t == [agents[a] EXCEPT !.paused = TRUE, !.vm = IF @ = "RUNNING" THEN "HALTED" ELSE @]
  <2>1. agents' = [agents EXCEPT ![a] = t] /\ agents[a].active /\ ~agents[a].paused
    BY <1>2 DEF Pause, Live
  <2>2. Ruled(agents[a], t) BY <1>0, <2>1 DEF Ruled, SlotType
  <2> HIDE DEF t
  <2> QED BY <2>1, <2>2, OneSlot
<1>3. CASE Resume(a)
  <2> DEFINE t == [agents[a] EXCEPT !.paused = FALSE,
                                    !.vm = IF agents[a].state = "THINKING" THEN "IDLE" ELSE @]
  <2>1. agents' = [agents EXCEPT ![a] = t] /\ agents[a].active /\ agents[a].paused
    BY <1>3 DEF Resume, Live
  <2>2. Ruled(agents[a], t) BY <1>0, <2>1 DEF Ruled, SlotType
  <2> HIDE DEF t
  <2> QED BY <2>1, <2>2, OneSlot
<1>4. CASE \E right \in Rights : Grant(a, right) \/ Revoke(a, right)
  BY <1>1, <1>4 DEF Grant, Revoke, Live
<1>5. CASE Inherit(a, b)
  BY <1>1, <1>5 DEF Inherit, Live
<1>6. CASE \E rights \in SUBSET Rights : Transfer(a, b, rights)
  <2>1. PICK rights \in SUBSET Rights : Transfer(a, b, rights) BY <1>6
  <2> DEFINE t == [agents[a] EXCEPT !.caps = @ \ rights]
             u == [agents[b] EXCEPT !.caps = @ \cup rights]
  <2>2. agents' = [agents EXCEPT ![a] = t, ![b] = u]
    BY <1>0, <2>1 DEF Transfer, Moved
  <2>3. agents[a].active /\ agents[b].active BY <2>1 DEF Transfer, Live
  <2>4. Ruled(agents[a], t) /\ Ruled(agents[b], u) BY <1>0 DEF Ruled, SlotType
  <2> HIDE DEF t, u
  <2>5. agents'[id] = IF id = b THEN u ELSE IF id = a THEN t ELSE agents[id]
    BY <1>0, <2>2
  <2> QED BY <2>3, <2>4, <2>5
<1> QED BY <1>2, <1>3, <1>4, <1>5, <1>6

LEMMA TableSlots ==
  ASSUME Base, TableNext
  PROVE  \/ /\ \A id \in Ids :
                  \/ agents'[id] = agents[id]
                  \/ agents[id].active /\ Ruled(agents[id], agents'[id])
            /\ UNCHANGED <<initialized, bitmap>>
         \/ \E t \in Threads, id \in Ids : SpawnDo(t, id)
<1>1. CASE \E t \in Threads : \/ \E caps \in SpawnCaps : SpawnCheck(t, caps)
                              \/ SpawnFailed(t)
  BY <1>1 DEF SpawnCheck, SpawnFailed
<1>2. CASE \E a, b \in Ids : \/ Pause(a) \/ Resume(a)
                             \/ \E right \in Rights : Grant(a, right) \/ Revoke(a, right)
                             \/ \E rights \in SUBSET Rights : Transfer(a, b, rights)
                             \/ Inherit(a, b)
  <2>1. \A id \in Ids :
           \/ agents'[id] = agents[id]
           \/ agents[id].active /\ Ruled(agents[id], agents'[id])
    BY <1>2, RuledSteps
  <2>2. UNCHANGED <<initialized, bitmap>>
    BY <1>2 DEF Pause, Resume, Grant, Revoke, Transfer, Inherit, SetCaps
  <2> QED BY <2>1, <2>2
<1> QED BY <1>1, <1>2 DEF TableNext

LEMMA DiscSlots ==
  ASSUME Base, DiscNext, NEW id \in Ids
  PROVE  \/ agents'[id] = agents[id]
         \/ agents[id].active /\ Named(agents[id], agents'[id])
<1>1. PICK a \in Ids :
         \/ \E name \in Names : Publish(a, name) \/ Unpublish(a, name)
         \/ \E topic \in Topics : Subscribe(a, topic) \/ Unsubscribe(a, topic)
  BY DEF DiscNext
<1>2. \/ UNCHANGED agents
      \/ agents[a].active /\ \E names : agents' = [agents EXCEPT ![a].names = names]
  BY <1>1 DEF Publish, Unpublish, WithoutName, Subscribe, Unsubscribe, tableVars, Live
<1>3. ASSUME NEW names, agents' = [agents EXCEPT ![a].names = names]
      PROVE  \/ agents'[id] = agents[id]
             \/ id = a /\ Named(agents[id], agents'[id])
  <2> DEFINE t == [agents[a] EXCEPT !.names = names]
  <2>1. agents[a] \in SlotType BY DEF Base, TableTypes
  <2>2. Named(agents[a], t) BY <2>1 DEF Named, SlotType
  <2>3. agents' = [agents EXCEPT ![a] = t] BY <1>3
  <2> HIDE DEF t
  <2> QED BY <2>2, <2>3, OneSlot
<1> QED BY <1>2, <1>3

SameBut(s, t) ==
    /\ t.active = s.active /\ t.paused = s.paused /\ t.caps = s.caps /\ t.vm = s.vm
    /\ t.cpu = s.cpu /\ t.io = s.io /\ t.over = s.over /\ t.names = s.names

LEMMA MailedIs ==
  ASSUME NEW s \in SlotType, NEW t \in SlotType
  PROVE  t = [s EXCEPT !.inbox = t.inbox, !.dels = t.dels, !.state = t.state]
         <=> SameBut(s, t)
  BY DEF SameBut, SlotType

\* The slots after a message is posted.
LEMMA PostSlots ==
  ASSUME Base, NEW m \in MsgType, NEW done, NEW failed, NEW asleep,
         SendsOf(m, done, failed, asleep), NEW id \in Ids
  PROVE  \/ agents'[id] = agents[id]
         \/ agents[id].active /\ Mailed(agents[id], agents'[id])
<1>1. m.to \in Ids /\ agents[m.to].active BY DEF SendsOf, LiveIds
<1>2. Prepared(done) /\ Prepared(failed) /\ asleep \cap Final = {} BY DEF SendsOf
<1>3. \A i \in Ids : agents[i] \in SlotType BY DEF Base, TableTypes
<1>4. ASSUME NEW i \in Ids, NEW table, Prepared(table)
      PROVE  \/ table[i] = agents[i]
             \/ agents[i].active /\ Mailed(agents[i], table[i])
  BY <1>3, <1>4 DEF Prepared, Noted, Mailed, SlotType
<1>5. PICK r \in Refs :
        agents' = IF HasRoom(m.to) THEN Delivered(done, m.to, r, asleep) ELSE failed
  BY DEF SendsOf, Post
<1>6. CASE ~HasRoom(m.to) BY <1>2, <1>4, <1>5, <1>6
<1>7. CASE HasRoom(m.to)
  <2> DEFINE t == Delivered(done, m.to, r, asleep)
  <2>0. done \in [Ids -> SlotType] BY <1>2 DEF Prepared
  <2>1. Delivers(done, t, m.to, r, asleep) BY <1>1, <2>0, DeliveredOk
  <2>2. agents' = t BY <1>5, <1>7
  <2> HIDE DEF t
  <2>3. CASE id # m.to BY <1>2, <1>4, <2>1, <2>2, <2>3 DEF Delivers
  <2>4. CASE id = m.to
    <3> DEFINE a == agents[id]
               d == done[id]
               u == t[id]
    <3>1. /\ u = [d EXCEPT !.inbox = Append(@, r), !.state = u.state]
          /\ a \in SlotType /\ d \in SlotType /\ u \in SlotType
          /\ u.state = d.state \/ d.state \notin Final
      BY <1>2, <1>3, <2>0, <2>1, <2>4 DEF Delivers
    <3>2. d = a \/ Mailed(a, d) BY <1>2, <1>4
    <3> HIDE DEF a, d, u
    <3>4. SameBut(d, u) BY <3>1 DEF SameBut, SlotType
    <3>5. SameBut(a, d) BY <3>1, <3>2, MailedIs DEF Mailed, SameBut
    <3>6. SameBut(a, u) BY <3>4, <3>5 DEF SameBut
    <3>7. u.state = a.state \/ a.state \notin Final \/ "delegate" \in ApiCalls
      BY <3>1, <3>2 DEF Mailed
    <3>3. Mailed(a, u) BY <3>1, <3>6, <3>7, MailedIs DEF Mailed
    <3> QED BY <1>1, <2>2, <2>4, <3>3 DEF a, u
  <2> QED BY <2>3, <2>4
<1> QED BY <1>6, <1>7

LEMMA TakeSlots ==
  ASSUME Base, NEW a \in LiveIds, Take(a), NEW id \in Ids
  PROVE  \/ agents'[id] = agents[id]
         \/ agents[id].active /\ Mailed(agents[id], agents'[id])
<1> DEFINE t == [agents[a] EXCEPT !.inbox = Tail(@)]
<1>1. agents' = [agents EXCEPT ![a] = t] BY DEF Take
<1>2. a \in Ids /\ agents[a].active /\ agents[a] \in SlotType
  BY DEF LiveIds, Base, TableTypes
<1>3. Mailed(agents[a], t) BY <1>2 DEF Mailed, SlotType
<1> HIDE DEF t
<1> QED BY <1>1, <1>2, <1>3, OneSlot

LEMMA MarkSlots ==
  ASSUME Base, NEW t \in Threads, Mark(t), NEW id \in Ids
  PROVE  \/ agents'[id] = agents[id]
         \/ agents[id].active /\ Mailed(agents[id], agents'[id])
<1> DEFINE a == frame[t].id
           u == [agents[a] EXCEPT !.state = "WAITING"]
<1>1. CASE Live(a) /\ agents[a].state \notin Final
  <2>1. agents' = [agents EXCEPT ![a] = u] BY <1>1 DEF Mark
  <2>2. a \in Ids /\ agents[a].active /\ agents[a] \in SlotType
    BY <1>1 DEF Live, Base, TableTypes
  <2>3. Mailed(agents[a], u) BY <1>1, <2>2 DEF Mailed, SlotType
  <2> HIDE DEF u
  <2> QED BY <2>1, <2>2, <2>3, OneSlot
<1>2. CASE ~(Live(a) /\ agents[a].state \notin Final) BY <1>2 DEF Mark
<1> QED BY <1>1, <1>2

LEMMA MailSlots ==
  ASSUME Base, MailNext, NEW id \in Ids
  PROVE  \/ agents'[id] = agents[id]
         \/ agents[id].active /\ Mailed(agents[id], agents'[id])
         \/ \E a \in Ids : Terminate(a)
<1>1. CASE Sending
  <2>1. PICK m, done, failed, asleep : m \in MsgType /\ SendsOf(m, done, failed, asleep)
    BY <1>1, SendingIs
  <2> QED BY <2>1, PostSlots
<1>2. CASE \E a \in Ids : RecvNow(a)
  BY <1>2, TakeSlots DEF RecvNow, Live, LiveIds
<1>4. CASE \E a \in Ids, m \in got : ResultNoMem(m, a)
  <2>1. PICK a \in Ids, m \in got : ResultNoMem(m, a) BY <1>4
  <2>2. a \in LiveIds /\ HasDel(a, m.id) BY <2>1 DEF ResultNoMem, Delegator, Live, LiveIds
  <2>3. Prepared(agents') BY <2>1, <2>2, ClosedOk DEF ResultNoMem
  <2>4. agents[id] \in SlotType BY DEF Base, TableTypes
  <2> QED BY <2>3, <2>4 DEF Prepared, Noted, Mailed, SlotType
<1>5. CASE \/ CastSkip \/ \E a \in Ids, topic \in Topics : Broadcast(a, topic)
           \/ \E t \in Threads : PollGone(t) \/ PollMiss(t)
           \/ \E t \in Threads, a \in Ids : RecvWait(t, a)
  BY <1>5 DEF CastSkip, Broadcast, PollGone, PollMiss, RecvWait
<1>6. CASE \E t \in Threads : PollTake(t)
  BY <1>6, TakeSlots DEF PollTake, Live, LiveIds
<1>7. CASE \E t \in Threads : Mark(t)
  BY <1>7, MarkSlots
<1> QED BY <1>1, <1>2, <1>4, <1>5, <1>6, <1>7 DEF MailNext, Sending, Poll

LEMMA SandboxExecutes ==
  ASSUME Base, SandboxNext
  PROVE  /\ UNCHANGED agents \/ \E id \in Ids : Executes(id)
         /\ UNCHANGED <<initialized, bitmap, frame>>
<1> USE DEF Base
<1>1. CASE \E id \in Ids : Step(id) BY <1>1, StepTypes
<1>2. CASE \E id \in Ids, ticks \in RunTicks : Run(id, ticks)
  <2>1. PICK id \in Ids, ticks \in RunTicks : Begin(id, ticks, FALSE)
    BY <1>2 DEF Run
  <2>2. ticks \in Nat BY SandboxAssumption
  <2> QED BY <2>1, <2>2, BeginOk DEF Begin
<1>3. CASE SchedStart \/ SchedPick \/ SchedFetch \/ SchedRound
  BY <1>3 DEF SchedStart, SchedPick, SchedFetch, SchedRound, tableVars
<1>4. CASE SchedRun
  <2>1. UNCHANGED tableVars \/ (MayRun(sched.pick) /\ Begin(sched.pick, SchedSlice, TRUE))
    BY <1>4 DEF SchedRun
  <2>2. SchedSlice \in Nat BY SandboxAssumption
  <2> QED BY <2>1, <2>2, BeginOk DEF Begin, tableVars, MayRun, Live
<1>5. CASE SliceSpent
  <2> DEFINE s == agents[slice.id]
             t == [s EXCEPT !.state = "IDLE"]
  <2>1. slice # NoSlice /\ End(t) BY <1>5 DEF SliceSpent
  <2>2. slice.id \in Ids /\ s \in SlotType BY <2>1 DEF CallsOk, LiveIds, TableTypes
  <2>3. Executed(s, t) BY <2>2, StatesAre DEF Executed, SlotType
  <2> HIDE DEF t
  <2> QED BY <2>1, <2>2, <2>3, EndOk DEF End
<1>6. CASE SliceStep BY <1>6, SliceStepOk DEF Executes
<1> QED BY <1>1, <1>2, <1>3, <1>4, <1>5, <1>6 DEF SandboxNext, Scheduling, Slicing

\* The actions that begin or end agents, and all the others.
LEMMA LiveSteps ==
  ASSUME Base, [Next]_vars
  PROVE  \/ (\A id \in Ids : LiveStep(id)) /\ UNCHANGED <<initialized, bitmap>>
         \/ \E t \in Threads, id \in Ids : SpawnDo(t, id)
         \/ \E id \in Ids : Terminate(id)
         \/ Shutdown \/ Restart
<1>1. CASE UNCHANGED vars BY <1>1 DEF vars, tableVars, LiveStep
<1>2. CASE SandboxNext
  <2>1. /\ UNCHANGED agents \/ \E a \in Ids : Executes(a)
        /\ UNCHANGED <<initialized, bitmap>>
    BY <1>2, SandboxExecutes
  <2>2. ASSUME NEW a \in Ids, Executes(a), NEW id \in Ids PROVE LiveStep(id)
    BY <2>2, OneSlot DEF Executes, LiveStep, Runs
  <2> QED BY <2>1, <2>2 DEF LiveStep
<1>3. CASE TableNext BY <1>3, TableSlots DEF LiveStep
<1>4. CASE DiscNext
  <2>1. UNCHANGED <<initialized, bitmap>>
    BY <1>4 DEF DiscNext, Publish, Unpublish, Subscribe, Unsubscribe, tableVars
  <2> QED BY <1>4, <2>1, DiscSlots DEF LiveStep
<1>5. CASE MailNext /\ ~\E id \in Ids : Terminate(id)
  <2>1. UNCHANGED <<initialized, bitmap>>
    BY <1>5 DEF MailNext, Send, Delegate, Broadcast, RecvNow, Result, ResultNoMem,
       Reply, CastSkip, CastPost, Poll, PollTake, PollGone, PollMiss, Mark, RecvWait,
       OthersOfPost
  <2> QED BY <1>5, <2>1, MailSlots DEF LiveStep
<1> QED BY <1>1, <1>2, <1>3, <1>4, <1>5 DEF Next

LEMMA SlotSteps ==
  ASSUME Base, [Next]_vars, NEW id \in Ids
  PROVE  SlotStep(id)
<1>1. CASE \E t \in Threads, new \in Ids : SpawnDo(t, new)
  <2>1. PICK t \in Threads, new \in Ids : SpawnDo(t, new) BY <1>1
  <2>2. frame[t].caps \in SUBSET Rights BY DEF Base, TableTypes, FrameType
  <2>3. new \notin bitmap /\ agents' = [agents EXCEPT ![new] = SpawnedSlot(frame[t].caps)]
    BY <2>1 DEF SpawnDo, FirstFree, FreeIds
  <2> QED BY <2>2, <2>3, OneSlot DEF SlotStep, LiveStep, Spawned
<1>2. CASE \E a \in Ids : Terminate(a)
  BY <1>2, OneSlot DEF Terminate, SlotStep, LiveStep
<1>3. CASE Shutdown \/ Restart
  BY <1>3 DEF Shutdown, Restart, SlotStep, LiveStep
<1> QED BY <1>1, <1>2, <1>3, LiveSteps DEF SlotStep

-----------------------------------------------------------------------------
(* Limits, pausing and the table.                                           *)

\* The limits hold slot by slot: what is not execution leaves the counters.
LEMMA LimitsStep ==
  ASSUME Base, LimitsKept, [Next]_vars
  PROVE  LimitsKept'
<1> SUFFICES ASSUME NEW id \in Ids
             PROVE  /\ MaxCpu # 0 => agents'[id].cpu <= MaxCpu
                    /\ MaxIo # 0 => agents'[id].io <= MaxIo
  BY DEF LimitsKept
<1> DEFINE s == agents[id]
           t == agents'[id]
<1>1. (MaxCpu # 0 => s.cpu <= MaxCpu) /\ (MaxIo # 0 => s.io <= MaxIo)
  BY DEF LimitsKept
<1>2. s \in SlotType BY DEF Base, TableTypes
<1>3. SlotStep(id) BY SlotSteps
<1>4. FreeSlot.cpu = 0 /\ FreeSlot.io = 0
      /\ \A caps : SpawnedSlot(caps).cpu = 0 /\ SpawnedSlot(caps).io = 0
  BY DEF FreeSlot, SpawnedSlot
<1>5. CASE t.cpu = s.cpu /\ t.io = s.io BY <1>1, <1>5
<1>6. CASE t.cpu = 0 /\ t.io = 0 BY <1>6, SandboxAssumption
<1>7. CASE Executed(s, t) BY <1>1, <1>7 DEF Executed
<1>8. (Ruled(s, t) \/ Named(s, t) \/ Mailed(s, t)) => t.cpu = s.cpu /\ t.io = s.io
  BY <1>2 DEF Ruled, Named, Mailed, SlotType
<1>9. \/ t.cpu = s.cpu /\ t.io = s.io
      \/ t.cpu = 0 /\ t.io = 0
      \/ Executed(s, t)
  BY <1>3, <1>4, <1>8 DEF SlotStep, LiveStep, Spawned, Runs
<1> QED BY <1>5, <1>6, <1>7, <1>9

\* No agent uses more than its limits, whoever runs it (sandbox_check_cpu and
\* sandbox_check_io before every step of every slice).
THEOREM LimitsKeptHolds == Spec => []LimitsKept
<1>1. Init => LimitsKept
  <2>1. FreeSlot.cpu = 0 /\ FreeSlot.io = 0 BY DEF FreeSlot
  <2> QED BY <2>1, SandboxAssumption DEF Init, TableInit, LimitsKept
<1>2. LimitsKept /\ Base /\ [Next]_vars => LimitsKept' BY LimitsStep
<1> QED BY <1>1, <1>2, BaseHolds, PTL DEF Spec

\* While an agent is paused its VM and its counters stand still, whatever the
\* scheduler remembers of it (the checks of flux_agent_run under the lock).
THEOREM PausedFrozenHolds == Spec => PausedFrozen
<1>1. ASSUME Base, [Next]_vars, NEW id \in Ids, agents[id].paused, agents'[id].paused
      PROVE  /\ agents'[id].vm = agents[id].vm
             /\ agents'[id].cpu = agents[id].cpu /\ agents'[id].io = agents[id].io
  <2> DEFINE s == agents[id]
             t == agents'[id]
  <2>1. s \in SlotType BY <1>1 DEF Base, TableTypes
  <2>2. SlotStep(id) BY <1>1, SlotSteps
  <2>4. s.paused = TRUE /\ t.paused = TRUE
    <3>1. t \in SlotType BY <1>1, BaseNext DEF Base, TableTypes
    <3> QED BY <1>1, <2>1, <3>1 DEF SlotType
  <2>5. (Ruled(s, t) \/ Named(s, t) \/ Mailed(s, t)) =>
           t.cpu = s.cpu /\ t.io = s.io /\ t.vm = s.vm
    <3>1. Ruled(s, t) => t.vm = s.vm BY <2>4 DEF Ruled
    <3>2. (Named(s, t) \/ Mailed(s, t)) => t.vm = s.vm
      BY <2>1 DEF Named, Mailed, SlotType
    <3>3. (Ruled(s, t) \/ Named(s, t) \/ Mailed(s, t)) => t.cpu = s.cpu /\ t.io = s.io
      BY <2>1 DEF Ruled, Named, Mailed, SlotType
    <3> QED BY <3>1, <3>2, <3>3
  <2>6. FreeSlot.paused = FALSE /\ \A caps : SpawnedSlot(caps).paused = FALSE
    BY DEF FreeSlot, SpawnedSlot
  <2>7. ~Runs(id) BY <1>1 DEF Runs
  <2>8. t # FreeSlot /\ ~Spawned(id) BY <2>4, <2>6 DEF Spawned
  <2> QED BY <2>2, <2>5, <2>7, <2>8 DEF SlotStep, LiveStep
<1>2. Base /\ [Next]_vars
      => [\A id \in Ids :
            agents[id].paused /\ agents'[id].paused =>
               /\ agents'[id].vm = agents[id].vm
               /\ agents'[id].cpu = agents[id].cpu /\ agents'[id].io = agents[id].io]_vars
  BY <1>1
<1> QED BY <1>2, BaseHolds, PTL DEF Spec, PausedFrozen

LEMMA SlotsAgreeStep ==
  ASSUME Base, SlotsAgree, [Next]_vars
  PROVE  SlotsAgree'
<1>0. /\ LiveIds \subseteq bitmap /\ bitmap \subseteq LiveIds \cup {FirstId}
      /\ initialized => FirstId \in bitmap \ LiveIds
      /\ \A id \in Ids \ LiveIds : agents[id] = FreeSlot
  BY DEF SlotsAgree
<1>1. ~FreeSlot.active /\ \A caps : SpawnedSlot(caps).active
  BY DEF FreeSlot, SpawnedSlot
<1>2. CASE (\A id \in Ids : LiveStep(id)) /\ UNCHANGED <<initialized, bitmap>>
  <2>1. ASSUME NEW id \in Ids
        PROVE  \/ agents'[id] = agents[id]
               \/ agents[id].active /\ agents'[id].active
    <3>1. agents[id] \in SlotType BY DEF Base, TableTypes
    <3>2. agents[id].active =>
            /\ Ruled(agents[id], agents'[id]) => agents'[id].active
            /\ Named(agents[id], agents'[id]) => agents'[id].active
            /\ Mailed(agents[id], agents'[id]) => agents'[id].active
            /\ Executed(agents[id], agents'[id]) => agents'[id].active
      BY <3>1 DEF Ruled, Named, Mailed, Executed, SlotType
    <3> QED BY <1>2, <3>2 DEF LiveStep, Runs
  <2>2. LiveIds' = LiveIds BY <2>1 DEF LiveIds
  <2>3. \A id \in Ids \ LiveIds : agents'[id] = agents[id] BY <2>1 DEF LiveIds
  <2> QED BY <1>0, <1>2, <2>2, <2>3 DEF SlotsAgree
<1>3. CASE \E t \in Threads, id \in Ids : SpawnDo(t, id)
  <2>1. PICK t \in Threads, id \in Ids : SpawnDo(t, id) BY <1>3
  <2>2. agents' = [agents EXCEPT ![id] = SpawnedSlot(frame[t].caps)]
    BY <2>1 DEF SpawnDo
  <2>6. SpawnedSlot(frame[t].caps).active BY DEF SpawnedSlot, FreeSlot
  <2>3. /\ agents'[id].active
        /\ \A other \in Ids \ {id} : agents'[other] = agents[other]
    BY <2>2, <2>6, OneSlot
  <2>4. LiveIds' = LiveIds \cup {id} BY <2>3 DEF LiveIds
  <2>5. bitmap' = bitmap \cup {id} /\ initialized' = initialized /\ id \notin bitmap
    BY <2>1 DEF SpawnDo, FirstFree, FreeIds
  <2> QED BY <1>0, <2>3, <2>4, <2>5 DEF SlotsAgree
<1>4. CASE \E id \in Ids : Terminate(id)
  <2>1. PICK id \in Ids : Terminate(id) BY <1>4
  <2>2. /\ agents'[id] = FreeSlot
        /\ \A other \in Ids \ {id} : agents'[other] = agents[other]
    BY <2>1, OneSlot DEF Terminate
  <2>3. LiveIds' = LiveIds \ {id} BY <1>1, <2>2 DEF LiveIds
  <2>4. bitmap' = bitmap \ {id} /\ initialized' = initialized /\ initialized /\ id \in LiveIds
    BY <2>1 DEF Terminate, Freed, Api, Live, LiveIds
  <2> QED BY <1>0, <2>2, <2>3, <2>4 DEF SlotsAgree
<1>5. CASE Shutdown
  <2>1. \A id \in Ids : agents'[id] = FreeSlot
    BY <1>0, <1>5 DEF Shutdown, Live, LiveIds
  <2>2. LiveIds' = {} BY <1>1, <2>1 DEF LiveIds
  <2> QED BY <1>5, <2>1, <2>2 DEF Shutdown, SlotsAgree
<1>6. CASE Restart
  <2>1. \A id \in Ids : agents'[id] = FreeSlot BY <1>6 DEF Restart
  <2>2. LiveIds' = {} BY <1>1, <2>1 DEF LiveIds
  <2> QED BY <1>6, <2>1, <2>2 DEF Restart, Reserved, SlotsAgree
<1> QED BY <1>2, <1>3, <1>4, <1>5, <1>6, LiveSteps

LEMMA SlotsAgreeInit == Init => SlotsAgree
<1> SUFFICES ASSUME Init PROVE SlotsAgree
  OBVIOUS
<1>1. ~FreeSlot.active BY DEF FreeSlot
<1>2. LiveIds = {} BY <1>1 DEF Init, TableInit, LiveIds
<1> QED BY <1>2 DEF Init, TableInit, SlotsAgree, Reserved

\* Slots and the ID bitmap agree (flux_agent_spawn, flux_agent_terminate,
\* flux_agent_shutdown, flux_agent_init), however the locked sections of calls
\* of several threads follow each other.
THEOREM SlotsAgreeHolds == Spec => []SlotsAgree
  BY SlotsAgreeInit, SlotsAgreeStep, BaseHolds, PTL DEF Spec

\* Without delegation an agent that has ended keeps its state until its slot is
\* freed: the scheduler, a message and a waiting receive do not revive it.
THEOREM FinalStaysHolds ==
  ASSUME "delegate" \notin ApiCalls
  PROVE  Spec => FinalStays
<1>1. ASSUME Base, SlotsAgree, [Next]_vars, NEW id \in Ids,
             agents[id].state \in Final, agents'[id].active
      PROVE  agents'[id].state = agents[id].state
  <2> DEFINE s == agents[id]
             t == agents'[id]
  <2>1. s \in SlotType BY <1>1 DEF Base, TableTypes
  <2>2. SlotStep(id) BY <1>1, SlotSteps
  <2>3. ~FreeSlot.active /\ FreeSlot.state \notin Final BY DEF FreeSlot, Final
  <2>4. ~Spawned(id) BY <1>1, <2>3 DEF Spawned, SlotsAgree
  <2>5. (Ruled(s, t) \/ Named(s, t) \/ Mailed(s, t)) => t.state = s.state
    <3>1. s.state \in Final BY <1>1
    <3> HIDE DEF s, t
    <3>2. Ruled(s, t) => t.state = s.state BY <2>1, <3>1 DEF Ruled, SlotType
    <3>3. Named(s, t) => t.state = s.state BY <2>1 DEF Named, SlotType
    <3>4. Mailed(s, t) => t.state = s.state BY <2>1, <3>1 DEF Mailed, SlotType
    <3> QED BY <3>2, <3>3, <3>4
  <2> QED BY <1>1, <2>2, <2>3, <2>4, <2>5 DEF SlotStep, LiveStep, Runs
<1>2. Base /\ SlotsAgree /\ [Next]_vars
      => [\A id \in Ids :
            agents[id].state \in Final /\ agents'[id].active
            => agents'[id].state = agents[id].state]_vars
  BY <1>1
<1> QED BY <1>2, BaseHolds, SlotsAgreeHolds, PTL DEF Spec, FinalStays

-----------------------------------------------------------------------------
(* The registry.                                                            *)

\* Outside the registry names are not published, nor taken back one by one.
LEMMA NamesKept ==
  ASSUME Base, TableNext \/ MailNext \/ SandboxNext \/ Shutdown \/ Restart,
         NEW id \in Ids
  PROVE  agents'[id].names \in {agents[id].names, {}}
<1>1. agents[id] \in SlotType BY DEF Base, TableTypes
<1>2. FreeSlot.names = {} /\ \A caps : SpawnedSlot(caps).names = {}
  BY DEF FreeSlot, SpawnedSlot
<1>3. CASE \E t \in Threads, new \in Ids : SpawnDo(t, new)
  <2>1. PICK t \in Threads, new \in Ids : SpawnDo(t, new) BY <1>3
  <2>2. agents' = [agents EXCEPT ![new] = SpawnedSlot(frame[t].caps)]
    BY <2>1 DEF SpawnDo
  <2>3. SpawnedSlot(frame[t].caps).names = {} BY <1>2
  <2> QED BY <2>2, <2>3, OneSlot
<1>4. CASE \E a \in Ids : Terminate(a)
  BY <1>2, <1>4, OneSlot DEF Terminate
<1>5. CASE Shutdown \/ Restart
  BY <1>2, <1>5 DEF Shutdown, Restart
<1>6. CASE SandboxNext
  <2>1. UNCHANGED agents \/ \E a \in Ids : Executes(a) BY <1>6, SandboxExecutes
  <2>2. ASSUME NEW a \in Ids, Executes(a) PROVE agents'[id].names = agents[id].names
    BY <2>2, OneSlot DEF Executes, Executed
  <2> QED BY <2>1, <2>2
<1>7. (Ruled(agents[id], agents'[id]) \/ Mailed(agents[id], agents'[id]))
      => agents'[id].names = agents[id].names
  BY <1>1 DEF Ruled, Mailed, SlotType
<1> QED BY <1>3, <1>4, <1>5, <1>6, <1>7, TableSlots, MailSlots

\* The parts of RegistryConsistent.
NamesUnique ==
    \A i, j \in 1 .. PubMax :
       pubs[i].active /\ pubs[j].active /\ pubs[i].name = pubs[j].name => i = j

PubsSeen == initialized => \A i \in 1 .. PubMax : pubs[i].active => i <= numPubs

PubOf(name, id) == [active |-> TRUE, name |-> name, id |-> id]

NamesBacked ==
    \A id \in Ids : \A name \in agents[id].names :
       \E i \in 1 .. PubMax : pubs[i] = PubOf(name, id)

TopicsInjective == \A topic \in DOMAIN topics : IsInjective(topics[topic])

LEMMA RegistryParts ==
  RegistryConsistent <=> NamesUnique /\ PubsSeen /\ NamesBacked /\ TopicsInjective
  BY DEF RegistryConsistent, NamesUnique, PubsSeen, NamesBacked, TopicsInjective, PubOf

LEMMA PublishRegistry ==
  ASSUME Base, RegistryConsistent, NEW a \in Ids, NEW name \in Names, Publish(a, name)
  PROVE  RegistryConsistent'
<1> USE DEF Base
<1>0. NamesUnique /\ PubsSeen /\ NamesBacked /\ TopicsInjective BY RegistryParts
<1>1. PICK i \in 1 .. PubMax :
        /\ FreePub(i)
        /\ pubs' = [pubs EXCEPT ![i] = PubOf(name, a)]
        /\ numPubs' = IF i > numPubs THEN i ELSE numPubs
  BY DEF Publish, PubOf
<1>2. pubs \in [1 .. PubMax -> PubType] /\ numPubs \in Nat /\ PubMax \in Nat
  BY DiscoveryAssumption DEF DiscTypes
<1>3. ~pubs[i].active BY <1>1 DEF FreePub
<1>4. initialized /\ initialized' /\ UNCHANGED topics BY DEF Publish, Api
<1>5. \A j \in 1 .. PubMax : ~(pubs[j].active /\ pubs[j].name = name)
  <2>1. \A j \in 1 .. PubMax : pubs[j].active => j \in 1 .. numPubs
    BY <1>0, <1>2, <1>4 DEF PubsSeen
  <2>2. Matches(name) = {} BY DEF Publish
  <2> QED BY <2>1, <2>2 DEF Matches
<1>6. /\ pubs'[i] = PubOf(name, a)
      /\ \A j \in 1 .. PubMax : j # i => pubs'[j] = pubs[j]
  BY <1>1, <1>2
<1>7. PubOf(name, a).active /\ PubOf(name, a).name = name BY DEF PubOf
<1>8. NamesUnique' BY <1>0, <1>5, <1>6, <1>7 DEF NamesUnique
<1>9. PubsSeen' BY <1>0, <1>1, <1>2, <1>4, <1>6 DEF PubsSeen
<1>10. NamesBacked'
  <2>1. SUFFICES ASSUME NEW id \in Ids, NEW n \in agents'[id].names
                 PROVE  \E j \in 1 .. PubMax : pubs'[j] = PubOf(n, id)
    BY DEF NamesBacked
  <2>2. CASE id = a /\ n = name BY <1>6, <2>2
  <2>3. CASE ~(id = a /\ n = name)
    <3>1. n \in agents[id].names BY <2>1, <2>3 DEF Publish, TableTypes, SlotType
    <3>2. PICK j \in 1 .. PubMax : pubs[j] = PubOf(n, id) BY <1>0, <3>1 DEF NamesBacked
    <3>3. j # i BY <1>3, <3>2 DEF PubOf
    <3> QED BY <1>6, <3>2, <3>3
  <2> QED BY <2>2, <2>3
<1>11. TopicsInjective' BY <1>0, <1>4 DEF TopicsInjective
<1>12. (NamesUnique /\ PubsSeen /\ NamesBacked /\ TopicsInjective)' BY <1>8, <1>9, <1>10, <1>11
<1> QED BY <1>12, RegistryParts, PTL

LEMMA UnpublishRegistry ==
  ASSUME Base, SlotsAgree, RegistryConsistent,
         NEW a \in Ids, NEW name \in Names, Unpublish(a, name)
  PROVE  RegistryConsistent'
<1> USE DEF Base
<1>0. NamesUnique /\ PubsSeen /\ NamesBacked /\ TopicsInjective BY RegistryParts
<1>1. PICK i \in 1 .. PubMax :
        Found(i, name) /\ pubs[i].id = a /\ pubs' = [pubs EXCEPT ![i] = NoPub]
  BY DEF Unpublish
<1>2. pubs \in [1 .. PubMax -> PubType] BY DEF DiscTypes
<1>3. pubs[i].name = name BY <1>1 DEF Found, Matches
<1>4. initialized' = initialized /\ UNCHANGED <<topics, numPubs>> BY DEF Unpublish
<1>5. /\ pubs'[i] = NoPub
      /\ \A j \in 1 .. PubMax : j # i => pubs'[j] = pubs[j]
  BY <1>1, <1>2
<1>6. ~NoPub.active BY DEF NoPub
<1>7. NamesUnique' BY <1>0, <1>5, <1>6 DEF NamesUnique
<1>8. PubsSeen' BY <1>0, <1>4, <1>5, <1>6 DEF PubsSeen
<1>9. NamesBacked'
  <2>1. SUFFICES ASSUME NEW id \in Ids, NEW n \in agents'[id].names
                 PROVE  \E j \in 1 .. PubMax : pubs'[j] = PubOf(n, id)
    BY DEF NamesBacked
  <2>2. n \in agents[id].names /\ ~(id = a /\ n = name)
    <3>1. CASE Live(a)
      BY <2>1, <3>1 DEF Unpublish, WithoutName, TableTypes, SlotType
    <3>2. CASE ~Live(a)
      <4>1. agents[a] = FreeSlot BY <3>2 DEF SlotsAgree, Live, LiveIds
      <4>2. agents[a].names = {} BY <4>1 DEF FreeSlot
      <4>3. agents' = agents BY <3>2 DEF Unpublish, WithoutName
      <4> QED BY <2>1, <4>2, <4>3
    <3> QED BY <3>1, <3>2
  <2>3. PICK j \in 1 .. PubMax : pubs[j] = PubOf(n, id) BY <1>0, <2>2 DEF NamesBacked
  <2>4. j # i BY <1>1, <1>3, <2>2, <2>3 DEF PubOf
  <2> QED BY <1>5, <2>3, <2>4
<1>10. TopicsInjective' BY <1>0, <1>4 DEF TopicsInjective
<1>11. (NamesUnique /\ PubsSeen /\ NamesBacked /\ TopicsInjective)' BY <1>7, <1>8, <1>9, <1>10
<1> QED BY <1>11, RegistryParts, PTL

LEMMA TopicsKept ==
  ASSUME Base, TopicsInjective, NEW a \in Ids, NEW topic \in Topics,
         Subscribe(a, topic) \/ Unsubscribe(a, topic)
  PROVE  TopicsInjective'
<1> USE DEF Base
<1>1. CASE Subscribe(a, topic)
  <2> DEFINE subs == Subscribers(topic)
  <2>1. subs \in Seq(Ids) BY SubscribersType
  <2>2. IsInjective(subs) BY DEF Subscribers, Created, TopicsInjective, IsInjective
  <2>3. Subscribed(a, topic) = subs
        \/ (a \notin ToSet(subs) /\ Subscribed(a, topic) = Append(subs, a))
    BY DEF Subscribed
  <2> HIDE DEF subs
  <2>4. a \notin ToSet(subs) => IsInjective(Append(subs, a)) BY <2>1, <2>2, AppendDistinct
  <2>5. IsInjective(Subscribed(a, topic)) BY <2>2, <2>3, <2>4
  <2> QED BY <1>1, <2>5 DEF Subscribe, TopicsInjective, Created
<1>2. CASE Unsubscribe(a, topic)
  <2> DEFINE subs == topics[topic]
  <2>1. subs \in Seq(Ids) BY <1>2 DEF Unsubscribe, DiscTypes, Created
  <2>2. IsInjective(subs) BY <1>2 DEF Unsubscribe, Created, TopicsInjective
  <2>3. topics' = [topics EXCEPT ![topic] = RemoveFirst(subs, a)] BY <1>2 DEF Unsubscribe
  <2> HIDE DEF subs
  <2>4. IsInjective(RemoveFirst(subs, a)) BY <2>1, <2>2, RemoveFirstIs, RemoveAtDistinct
  <2> QED BY <2>3, <2>4 DEF TopicsInjective
<1> QED BY <1>1, <1>2

LEMMA RegistryStep ==
  ASSUME Base, SlotsAgree, RegistryConsistent, [Next]_vars
  PROVE  RegistryConsistent'
<1> USE DEF Base
<1>0. NamesUnique /\ PubsSeen /\ NamesBacked /\ TopicsInjective BY RegistryParts
<1>1. ASSUME \A id \in Ids : agents'[id].names \in {agents[id].names, {}},
             UNCHANGED pubs, (UNCHANGED <<initialized, numPubs>>) \/ ~initialized',
             TopicsInjective'
      PROVE  RegistryConsistent'
  <2>1. NamesUnique' /\ PubsSeen' BY <1>0, <1>1 DEF NamesUnique, PubsSeen
  <2>2. NamesBacked'
    <3>1. SUFFICES ASSUME NEW id \in Ids, NEW n \in agents'[id].names
                   PROVE  \E j \in 1 .. PubMax : pubs'[j] = PubOf(n, id)
      BY DEF NamesBacked
    <3>2. n \in agents[id].names BY <1>1, <3>1
    <3> QED BY <1>0, <1>1, <3>2 DEF NamesBacked
  <2>3. (NamesUnique /\ PubsSeen /\ NamesBacked /\ TopicsInjective)' BY <1>1, <2>1, <2>2
  <2> QED BY <2>3, RegistryParts, PTL
<1>2. CASE UNCHANGED vars
  <2>1. UNCHANGED <<agents, pubs, initialized, numPubs, topics>>
    BY <1>2 DEF vars, tableVars, discVars
  <2> QED BY <1>0, <1>1, <2>1 DEF TopicsInjective
<1>3. CASE (TableNext \/ SandboxNext \/ MailNext) /\ UNCHANGED discVars
  <2>1. UNCHANGED initialized
    <3>1. TableNext => UNCHANGED initialized
      BY DEF TableNext, SpawnCheck, SpawnDo, SpawnFailed, Pause, Resume, Grant,
             Revoke, Transfer, Inherit, SetCaps
    <3> QED BY <1>3, <3>1, SandboxExecutes, MailFrames
  <2> QED BY <1>0, <1>1, <1>3, <2>1, NamesKept DEF discVars, TopicsInjective
<1>4. CASE \E a \in Ids, name \in Names : Publish(a, name) \/ Unpublish(a, name)
  BY <1>4, PublishRegistry, UnpublishRegistry
<1>5. CASE \E a \in Ids, topic \in Topics : Subscribe(a, topic) \/ Unsubscribe(a, topic)
  <2>1. TopicsInjective' BY <1>0, <1>5, TopicsKept
  <2>2. UNCHANGED <<agents, initialized, pubs, numPubs>>
    BY <1>5 DEF Subscribe, Unsubscribe, tableVars
  <2> QED BY <1>1, <2>1, <2>2
<1>6. CASE Shutdown
  <2>1. TopicsInjective' BY <1>6 DEF Shutdown, TopicsInjective, NoTopics
  <2> QED BY <1>1, <1>6, <2>1, NamesKept DEF Shutdown
<1>7. CASE Restart
  <2>1. ~NoPub.active /\ FreeSlot.names = {} BY DEF NoPub, FreeSlot
  <2>2. TopicsInjective' BY <1>7 DEF Restart, TopicsInjective, NoTopics
  <2>3. \A i \in 1 .. PubMax : ~pubs'[i].active BY <1>7, <2>1 DEF Restart, NoPubs
  <2>4. NamesUnique' /\ PubsSeen' BY <2>3 DEF NamesUnique, PubsSeen
  <2>5. NamesBacked' BY <1>7, <2>1 DEF Restart, NamesBacked
  <2>6. (NamesUnique /\ PubsSeen /\ NamesBacked /\ TopicsInjective)' BY <2>2, <2>4, <2>5
  <2> QED BY <2>6, RegistryParts, PTL
<1>8. MailNext => UNCHANGED discVars BY MailFrames
<1> QED BY <1>2, <1>3, <1>4, <1>5, <1>6, <1>7, <1>8 DEF Next, DiscNext

LEMMA RegistryInit == Init => RegistryConsistent
<1> SUFFICES ASSUME Init PROVE RegistryConsistent
  OBVIOUS
<1>1. ~NoPub.active /\ FreeSlot.names = {} BY DEF NoPub, FreeSlot
<1>2. NamesUnique /\ PubsSeen
  BY <1>1 DEF Init, DiscInit, NoPubs, NamesUnique, PubsSeen
<1>3. NamesBacked BY <1>1 DEF Init, TableInit, NamesBacked
<1>4. TopicsInjective BY DEF Init, DiscInit, TopicsInjective, NoTopics
<1> QED BY <1>2, <1>3, <1>4, RegistryParts

\* The registry keeps its promises to those who publish and who search, also
\* when IDs are reused and the runtime is shut down and started again
\* (agent/discovery.c).
THEOREM RegistryConsistentHolds == Spec => []RegistryConsistent
  BY RegistryInit, RegistryStep, BaseHolds, SlotsAgreeHolds, PTL DEF Spec

-----------------------------------------------------------------------------
(* Rights.                                                                  *)

\* The end of RightsMove: who the right came from.
CameFrom(right, to) ==
    \E from \in Ids \ {to} :
       /\ right \in agents[from].caps
       /\ \/ agents'[to].caps = agents[from].caps /\ agents'[from] = agents[from]
          \/ right \notin agents'[from].caps /\ right # "SUPERVISOR"

LEMMA RightsMoveStep ==
  ASSUME Base, SlotsAgree, [Next]_vars, "grant" \notin ApiCalls,
         NEW right \in Rights, NEW to \in Ids, agents[to].active,
         right \in agents'[to].caps \ agents[to].caps
  PROVE  CameFrom(right, to)
<1> USE DEF Base
<1> DEFINE s == agents[to]
           t == agents'[to]
<1>0. agents \in [Ids -> SlotType] /\ \A id \in Ids : agents[id] \in SlotType
  BY DEF TableTypes
<1>1. t.caps # s.caps /\ t.caps # {} OBVIOUS
<1>2. FreeSlot.caps = {} BY DEF FreeSlot
<1>3. ~(Named(s, t) \/ Mailed(s, t) \/ Executed(s, t))
  <2>1. s \in SlotType BY <1>0
  <2> HIDE DEF s, t
  <2>2. Named(s, t) => t.caps = s.caps BY <2>1 DEF Named, SlotType
  <2>3. Mailed(s, t) => t.caps = s.caps BY <2>1 DEF Mailed, SlotType
  <2> QED BY <1>1, <2>2, <2>3 DEF Executed
<1>4. ~DiscNext BY <1>1, <1>3, DiscSlots
<1>5. ~\E a \in Ids : Terminate(a) BY <1>1, <1>2, OneSlot DEF Terminate
<1>6. ~MailNext BY <1>1, <1>3, <1>5, MailSlots
<1>7. ~SandboxNext
  <2>1. ASSUME NEW a \in Ids, Executes(a) PROVE FALSE
    BY <1>1, <1>3, <2>1, OneSlot DEF Executes
  <2> QED BY <1>1, <2>1, SandboxExecutes
<1>8. ~(Shutdown \/ Restart) BY <1>1, <1>2 DEF Shutdown, Restart
<1>9. ~\E th \in Threads, id \in Ids : SpawnDo(th, id)
  <2>1. ASSUME NEW th \in Threads, NEW id \in Ids, SpawnDo(th, id) PROVE FALSE
    <3>1. id # to BY <2>1 DEF SpawnDo, FirstFree, FreeIds, SlotsAgree, LiveIds
    <3> QED BY <1>1, <2>1, <3>1, OneSlot DEF SpawnDo
  <2> QED BY <2>1
<1>10. TableNext /\ agents' # agents
  BY <1>1, <1>4, <1>6, <1>7, <1>8 DEF Next, vars, tableVars
<1>11. ASSUME NEW a \in Ids, NEW caps, SetCaps(a, caps) PROVE a = to /\ t.caps = caps
  <2> DEFINE u == [agents[a] EXCEPT !.caps = caps]
  <2>1. agents' = [agents EXCEPT ![a] = u] BY <1>11 DEF SetCaps
  <2>2. u.caps = caps BY <1>0 DEF SlotType
  <2> HIDE DEF u
  <2> QED BY <1>1, <2>1, <2>2, OneSlot
<1>12. PICK a \in Ids, b \in Ids :
         \/ Pause(a) \/ Resume(a)
         \/ \E r \in Rights : Grant(a, r) \/ Revoke(a, r)
         \/ \E rights \in SUBSET Rights : Transfer(a, b, rights)
         \/ Inherit(a, b)
  BY <1>9, <1>10 DEF TableNext, SpawnCheck, SpawnFailed
<1>13. CASE Pause(a) \/ Resume(a)
  <2> DEFINE u == agents[a]
             v == agents'[a]
  <2>1. u \in SlotType BY <1>0
  <2>2. v = [u EXCEPT !.paused = v.paused, !.vm = v.vm]
        /\ \A id \in Ids \ {a} : agents'[id] = agents[id]
    <3> DEFINE on == [u EXCEPT !.paused = TRUE, !.vm = IF @ = "RUNNING" THEN "HALTED" ELSE @]
               off == [u EXCEPT !.paused = FALSE,
                                !.vm = IF u.state = "THINKING" THEN "IDLE" ELSE @]
    <3>1. agents' = [agents EXCEPT ![a] = on] \/ agents' = [agents EXCEPT ![a] = off]
      BY <1>13 DEF Pause, Resume
    <3>2. /\ on = [u EXCEPT !.paused = on.paused, !.vm = on.vm]
          /\ off = [u EXCEPT !.paused = off.paused, !.vm = off.vm]
      BY <2>1 DEF SlotType
    <3> HIDE DEF on, off, u
    <3> QED BY <3>1, <3>2, OneSlot
  <2> HIDE DEF u, v
  <2>3. v.caps = u.caps BY <2>1, <2>2 DEF SlotType
  <2> QED BY <1>1, <2>2, <2>3 DEF u, v
<1>14. CASE \E r \in Rights : Grant(a, r) \/ Revoke(a, r)
  <2>1. PICK r \in Rights : Revoke(a, r) BY <1>14 DEF Grant, Api
  <2> QED BY <1>11, <2>1 DEF Revoke
<1>15. CASE Inherit(a, b)
  <2>1. b = to /\ t.caps = agents[a].caps BY <1>11, <1>15 DEF Inherit
  <2>2. a # to BY <1>1, <2>1
  <2>3. agents'[a] = agents[a] BY <1>15, <2>1, <2>2 DEF Inherit, SetCaps
  <2> QED BY <2>1, <2>2, <2>3 DEF CameFrom
<1>16. CASE \E rights \in SUBSET Rights : Transfer(a, b, rights)
  <2>1. PICK rights \in SUBSET Rights : Transfer(a, b, rights) BY <1>16
  <2> DEFINE u == [agents[a] EXCEPT !.caps = @ \ rights]
             v == [agents[b] EXCEPT !.caps = @ \cup rights]
  <2>2. agents' = [agents EXCEPT ![a] = u, ![b] = v] /\ a # b
    BY <1>0, <2>1 DEF Transfer, Moved
  <2>3. u.caps = agents[a].caps \ rights /\ v.caps = agents[b].caps \cup rights
    BY <1>0 DEF SlotType
  <2> HIDE DEF u, v
  <2>4. agents'[a] = u /\ agents'[b] = v
        /\ \A id \in Ids \ {a, b} : agents'[id] = agents[id]
    BY <1>0, <2>2
  <2>5. to = b BY <1>1, <2>3, <2>4
  <2>6. right \in rights BY <2>3, <2>4, <2>5
  <2>7. right \in agents[a].caps /\ right # "SUPERVISOR"
    BY <2>1, <2>6 DEF Transfer
  <2>8. right \notin agents'[a].caps BY <2>3, <2>4, <2>6
  <2> QED BY <2>2, <2>5, <2>7, <2>8 DEF CameFrom
<1> QED BY <1>12, <1>13, <1>14, <1>15, <1>16

\* Without grants, a right that a live agent gains is another agent's: moved
\* from it or inherited with all its rights (agent/capability.c).
THEOREM RightsMoveHolds ==
  ASSUME "grant" \notin ApiCalls
  PROVE  Spec => RightsMove
<1>1. Base /\ SlotsAgree /\ [Next]_vars
      => [\A right \in Rights, to \in Ids :
            /\ agents[to].active
            /\ right \in agents'[to].caps \ agents[to].caps
            => \E from \in Ids \ {to} :
                  /\ right \in agents[from].caps
                  /\ \/ agents'[to].caps = agents[from].caps
                           /\ agents'[from] = agents[from]
                     \/ right \notin agents'[from].caps /\ right # "SUPERVISOR"]_vars
  BY RightsMoveStep DEF CameFrom
<1> QED BY <1>1, BaseHolds, SlotsAgreeHolds, PTL DEF Spec, RightsMove

-----------------------------------------------------------------------------
(* Who owns a message.                                                      *)

BoxesOf(table) == [id \in Ids |-> table[id].inbox]

Boxes == BoxesOf(agents)

BoxesType == [Ids -> Seq(Refs)]
PoolType == [Refs -> MsgType \cup {NoMsg}]

\* PoolOwned of inboxes b and messages p.
Owned(b, p) ==
    /\ \A id \in Ids : Len(b[id]) <= InboxSize
    /\ \A id \in Ids : \A k \in 1 .. Len(b[id]) :
          p[b[id][k]] # NoMsg /\ p[b[id][k]].to = id
    /\ \A id, jd \in Ids : \A k \in 1 .. Len(b[id]), l \in 1 .. Len(b[jd]) :
          b[id][k] = b[jd][l] => id = jd /\ k = l
    /\ \A r \in Refs : p[r] # NoMsg =>
          \E id \in Ids : \E k \in 1 .. Len(b[id]) : b[id][k] = r

\* Nothing is at a place that is not at one before, of a message that is kept.
Stays(b, p, c, q) ==
    \A id \in Ids : \A k \in 1 .. Len(c[id]) :
       \E l \in 1 .. Len(b[id]) : b[id][l] = c[id][k] /\ q[c[id][k]] = p[c[id][k]]

LEMMA BoxesOk ==
  ASSUME NEW table \in [Ids -> SlotType]
  PROVE  /\ BoxesOf(table) \in BoxesType
         /\ \A id \in Ids : BoxesOf(table)[id] = table[id].inbox
  BY DEF SlotType, BoxesOf, BoxesType

LEMMA PoolOwnedIs == Base => (PoolOwned <=> Owned(Boxes, pool))
<1> SUFFICES ASSUME Base PROVE PoolOwned <=> Owned(Boxes, pool)
  OBVIOUS
<1> DEFINE b == Boxes
<1>0. b \in BoxesType /\ \A id \in Ids : b[id] = agents[id].inbox
  BY BoxesOk DEF Base, TableTypes, Boxes
<1>1. \A id \in Ids : Len(b[id]) \in Nat BY <1>0 DEF BoxesType
<1>2. InboxSize \in Nat BY MailAssumption
<1> HIDE DEF b
<1>3. ASSUME \A id \in Ids : Len(b[id]) <= InboxSize
      PROVE  /\ \A p \in Places : /\ p[1] \in Ids /\ p[2] \in 1 .. Len(b[p[1]])
                                  /\ RefAt(p) = b[p[1]][p[2]] /\ p = <<p[1], p[2]>>
             /\ \A id \in Ids : \A k \in 1 .. Len(b[id]) :
                   <<id, k>> \in Places /\ RefAt(<<id, k>>) = b[id][k]
  BY <1>0, <1>1, <1>2, <1>3 DEF Places, RefAt
<1>4. PoolOwned => Owned(b, pool)
  <2>1. SUFFICES ASSUME PoolOwned PROVE Owned(b, pool)
    OBVIOUS
  <2>2. \A id \in Ids : Len(b[id]) <= InboxSize BY <1>0, <2>1 DEF PoolOwned
  <2>6. ASSUME NEW id \in Ids, NEW k \in 1 .. Len(b[id])
        PROVE  \E p \in Places : p = <<id, k>> /\ p[1] = id /\ RefAt(p) = b[id][k]
    BY <1>3, <2>2
  <2>3. ASSUME NEW id \in Ids, NEW k \in 1 .. Len(b[id])
        PROVE  pool[b[id][k]] # NoMsg /\ pool[b[id][k]].to = id
    <3>1. PICK p \in Places : p[1] = id /\ RefAt(p) = b[id][k] BY <2>6
    <3>2. pool[RefAt(p)] # NoMsg /\ pool[RefAt(p)].to = p[1] BY <2>1 DEF PoolOwned
    <3> QED BY <3>1, <3>2
  <2>4. ASSUME NEW id \in Ids, NEW jd \in Ids,
               NEW k \in 1 .. Len(b[id]), NEW l \in 1 .. Len(b[jd]), b[id][k] = b[jd][l]
        PROVE  id = jd /\ k = l
    <3>1. PICK p \in Places : p = <<id, k>> /\ RefAt(p) = b[id][k] BY <2>6
    <3>2. PICK q \in Places : q = <<jd, l>> /\ RefAt(q) = b[jd][l] BY <2>6
    <3>3. p = q BY <2>1, <2>4, <3>1, <3>2 DEF PoolOwned
    <3> QED BY <3>1, <3>2, <3>3
  <2>5. ASSUME NEW r \in Refs, pool[r] # NoMsg
        PROVE  \E id \in Ids : \E k \in 1 .. Len(b[id]) : b[id][k] = r
    <3>1. PICK p \in Places : RefAt(p) = r BY <2>1, <2>5 DEF PoolOwned
    <3> QED BY <1>3, <2>2, <3>1
  <2> QED BY <2>2, <2>3, <2>4, <2>5 DEF Owned
<1>5. Owned(b, pool) => PoolOwned
  <2>1. SUFFICES ASSUME Owned(b, pool) PROVE PoolOwned
    OBVIOUS
  <2>2. \A id \in Ids : Len(b[id]) <= InboxSize BY <2>1 DEF Owned
  <2>3. \A p \in Places : pool[RefAt(p)] # NoMsg /\ pool[RefAt(p)].to = p[1]
    BY <1>3, <2>1, <2>2 DEF Owned
  <2>4. ASSUME NEW p \in Places, NEW q \in Places, RefAt(p) = RefAt(q) PROVE p = q
    <3>1. p[1] = q[1] /\ p[2] = q[2] BY <1>3, <2>1, <2>2, <2>4 DEF Owned
    <3>2. p = <<p[1], p[2]>> /\ q = <<q[1], q[2]>> BY <1>3, <2>2
    <3> QED BY <3>1, <3>2
  <2>5. ASSUME NEW r \in Refs, pool[r] # NoMsg PROVE \E p \in Places : RefAt(p) = r
    <3>1. PICK id \in Ids : \E k \in 1 .. Len(b[id]) : b[id][k] = r BY <2>1, <2>5 DEF Owned
    <3>2. PICK k \in 1 .. Len(b[id]) : b[id][k] = r BY <3>1
    <3> QED BY <1>3, <2>2, <3>2
  <2> QED BY <1>0, <2>2, <2>3, <2>4, <2>5 DEF PoolOwned
<1> QED BY <1>4, <1>5 DEF b

\* A free reference is filled in and appended to the inbox of the target.
Pushed(b, p, c, q, m, r) ==
    /\ Owned(c, q)
    /\ \A id \in Ids : \A k \in 1 .. Len(c[id]) :
          \/ \E l \in 1 .. Len(b[id]) : b[id][l] = c[id][k] /\ q[c[id][k]] = p[c[id][k]]
          \/ id = m.to /\ c[id][k] = r /\ q[r] = m

LEMMA PushOwned ==
  ASSUME NEW b \in BoxesType, NEW p \in PoolType, Owned(b, p),
         NEW m \in MsgType, NEW r \in Refs, p[r] = NoMsg, m.to \in Ids,
         Len(b[m.to]) < InboxSize,
         NEW c \in BoxesType, c[m.to] = Append(b[m.to], r),
         \A id \in Ids \ {m.to} : c[id] = b[id],
         NEW q, q = [p EXCEPT ![r] = m]
  PROVE  Pushed(b, p, c, q, m, r)
<1> DEFINE to == m.to
<1>1. m # NoMsg BY FirstIsId DEF MsgType, NoMsg
<1>2. q[r] = m /\ \A x \in Refs : x # r => q[x] = p[x] BY DEF PoolType
<1>3. \A id \in Ids : /\ Len(b[id]) \in Nat
                      /\ \A k \in 1 .. Len(b[id]) : b[id][k] \in Refs
  BY ElementsOf DEF BoxesType
<1>4. /\ Len(c[to]) = Len(b[to]) + 1 /\ c[to][Len(b[to]) + 1] = r
      /\ \A k \in 1 .. Len(b[to]) : c[to][k] = b[to][k]
  <2>1. b[to] \in Seq(Refs) BY DEF BoxesType
  <2> QED BY <2>1
<1>5. InboxSize \in Nat BY MailAssumption
<1>6. /\ \A id \in Ids : Len(b[id]) <= InboxSize
      /\ \A id \in Ids : \A k \in 1 .. Len(b[id]) :
            p[b[id][k]] # NoMsg /\ p[b[id][k]].to = id
      /\ \A id, jd \in Ids : \A k \in 1 .. Len(b[id]), l \in 1 .. Len(b[jd]) :
            b[id][k] = b[jd][l] => id = jd /\ k = l
      /\ \A x \in Refs : p[x] # NoMsg =>
            \E id \in Ids : \E k \in 1 .. Len(b[id]) : b[id][k] = x
  BY DEF Owned
\* A place of c is one of b, or the new one.
<1>7. ASSUME NEW id \in Ids, NEW k \in 1 .. Len(c[id])
      PROVE  \/ k \in 1 .. Len(b[id]) /\ c[id][k] = b[id][k] /\ c[id][k] # r
             \/ id = to /\ k = Len(b[to]) + 1 /\ c[id][k] = r
  <2>1. CASE id = to
    <3>1. k \in 1 .. Len(b[to]) \/ k = Len(b[to]) + 1 BY <1>3, <1>4, <2>1
    <3> QED BY <1>4, <1>6, <2>1, <3>1
  <2>2. CASE id # to
    <3>1. c[id] = b[id] BY <2>2
    <3> QED BY <1>6, <3>1
  <2> QED BY <2>1, <2>2
<1>8. \A id \in Ids : \A k \in 1 .. Len(b[id]) :
         k \in 1 .. Len(c[id]) /\ c[id][k] = b[id][k]
  <2>1. ASSUME NEW id \in Ids, NEW k \in 1 .. Len(b[id])
        PROVE  k \in 1 .. Len(c[id]) /\ c[id][k] = b[id][k]
    <3>1. CASE id = to BY <1>3, <1>4, <3>1
    <3>2. CASE id # to BY <3>2
    <3> QED BY <3>1, <3>2
  <2> QED BY <2>1
<1>9. Owned(c, q)
  <2>1. \A id \in Ids : Len(c[id]) <= InboxSize
    <3>1. ASSUME NEW id \in Ids PROVE Len(c[id]) <= InboxSize
      <4>1. CASE id = to BY <1>3, <1>4, <1>5, <4>1
      <4>2. CASE id # to BY <1>6, <4>2
      <4> QED BY <4>1, <4>2
    <3> QED BY <3>1
  <2>2. ASSUME NEW id \in Ids, NEW k \in 1 .. Len(c[id])
        PROVE  q[c[id][k]] # NoMsg /\ q[c[id][k]].to = id
    BY <1>1, <1>2, <1>3, <1>6, <1>7
  <2>3. ASSUME NEW id \in Ids, NEW jd \in Ids,
               NEW k \in 1 .. Len(c[id]), NEW l \in 1 .. Len(c[jd]), c[id][k] = c[jd][l]
        PROVE  id = jd /\ k = l
    <3>1. CASE c[id][k] = r BY <1>7, <2>3, <3>1
    <3>2. CASE c[id][k] # r
      <4>1. /\ k \in 1 .. Len(b[id]) /\ c[id][k] = b[id][k]
            /\ l \in 1 .. Len(b[jd]) /\ c[jd][l] = b[jd][l]
        BY <1>7, <2>3, <3>2
      <4>2. b[id][k] = b[jd][l] BY <2>3, <4>1
      <4>3. \A i, j \in Ids : \A x \in 1 .. Len(b[i]), y \in 1 .. Len(b[j]) :
               b[i][x] = b[j][y] => i = j /\ x = y
        BY <1>6
      <4> QED BY <4>1, <4>2, <4>3
    <3> QED BY <3>1, <3>2
  <2>4. ASSUME NEW x \in Refs, q[x] # NoMsg
        PROVE  \E id \in Ids : \E k \in 1 .. Len(c[id]) : c[id][k] = x
    <3>1. CASE x = r
      <4>1. Len(b[to]) + 1 \in 1 .. Len(c[to]) BY <1>3, <1>4
      <4> QED BY <1>4, <3>1, <4>1
    <3>2. CASE x # r
      <4>1. p[x] # NoMsg BY <1>2, <2>4, <3>2
      <4>2. PICK id \in Ids : \E k \in 1 .. Len(b[id]) : b[id][k] = x BY <1>6, <4>1
      <4> QED BY <1>8, <4>2
    <3> QED BY <3>1, <3>2
  <2> QED BY <2>1, <2>2, <2>3, <2>4 DEF Owned
<1>10. ASSUME NEW id \in Ids, NEW k \in 1 .. Len(c[id])
       PROVE  \/ \E l \in 1 .. Len(b[id]) :
                    b[id][l] = c[id][k] /\ q[c[id][k]] = p[c[id][k]]
              \/ id = to /\ c[id][k] = r /\ q[r] = m
  BY <1>2, <1>3, <1>7
<1> QED BY <1>9, <1>10 DEF Pushed

\* The first message of an inbox is taken and its reference freed.
LEMMA PopOwned ==
  ASSUME NEW b \in BoxesType, NEW p \in PoolType, Owned(b, p),
         NEW a \in Ids, b[a] # <<>>,
         NEW c \in BoxesType, c[a] = Tail(b[a]),
         \A id \in Ids \ {a} : c[id] = b[id],
         NEW q, q = [p EXCEPT ![Head(b[a])] = NoMsg]
  PROVE  Owned(c, q) /\ Stays(b, p, c, q)
<1> DEFINE r == Head(b[a])
<1>1. \A id \in Ids : /\ Len(b[id]) \in Nat
                      /\ \A k \in 1 .. Len(b[id]) : b[id][k] \in Refs
  BY ElementsOf DEF BoxesType
<1>2. /\ Len(b[a]) > 0 /\ r = b[a][1] /\ Len(c[a]) = Len(b[a]) - 1
      /\ \A k \in 1 .. Len(b[a]) - 1 : c[a][k] = b[a][k + 1]
  <2>1. b[a] \in Seq(Refs) BY DEF BoxesType
  <2> QED BY <2>1
<1>3. InboxSize \in Nat BY MailAssumption
<1>4. /\ \A id \in Ids : Len(b[id]) <= InboxSize
      /\ \A id \in Ids : \A k \in 1 .. Len(b[id]) :
            p[b[id][k]] # NoMsg /\ p[b[id][k]].to = id
      /\ \A id, jd \in Ids : \A k \in 1 .. Len(b[id]), l \in 1 .. Len(b[jd]) :
            b[id][k] = b[jd][l] => id = jd /\ k = l
      /\ \A x \in Refs : p[x] # NoMsg =>
            \E id \in Ids : \E k \in 1 .. Len(b[id]) : b[id][k] = x
  BY DEF Owned
<1>5. 1 \in 1 .. Len(b[a]) /\ r \in Refs BY <1>1, <1>2
<1>10. \A id, jd \in Ids : \A k \in 1 .. Len(b[id]), l \in 1 .. Len(b[jd]) :
          b[id][k] = b[jd][l] => id = jd /\ k = l
  BY <1>4
<1>6. q[r] = NoMsg /\ \A x \in Refs : x # r => q[x] = p[x]
  <2>1. q = [p EXCEPT ![r] = NoMsg] OBVIOUS
  <2> HIDE DEF r
  <2> QED BY <1>5, <2>1 DEF PoolType
<1> DEFINE at(id, k) == IF id = a THEN k + 1 ELSE k
<1> HIDE DEF r
<1>7. ASSUME NEW id \in Ids, NEW k \in 1 .. Len(c[id])
      PROVE  at(id, k) \in 1 .. Len(b[id]) /\ c[id][k] = b[id][at(id, k)] /\ c[id][k] # r
  <2>1. CASE id = a
    <3>0. k \in 1 .. Len(b[a]) - 1 BY <1>2, <2>1
    <3>1. k + 1 \in 1 .. Len(b[a]) /\ k + 1 # 1 BY <1>1, <3>0
    <3>2. c[a][k] = b[a][k + 1] BY <1>2, <3>0
    <3>3. b[a][k + 1] # b[a][1] BY <1>5, <1>10, <3>1
    <3> QED BY <1>2, <2>1, <3>1, <3>2, <3>3
  <2>2. CASE id # a
    <3>1. c[id] = b[id] BY <2>2
    <3>2. b[id][k] # b[a][1] BY <1>5, <1>10, <2>2, <3>1
    <3> QED BY <1>2, <2>2, <3>1, <3>2
  <2> QED BY <2>1, <2>2
<1>8. Owned(c, q)
  <2>1. \A id \in Ids : Len(c[id]) <= InboxSize
    <3>1. ASSUME NEW id \in Ids PROVE Len(c[id]) <= InboxSize
      <4>1. Len(b[id]) <= InboxSize /\ Len(b[id]) \in Nat BY <1>1, <1>4
      <4>2. Len(c[id]) = Len(b[id]) \/ Len(c[id]) = Len(b[id]) - 1 BY <1>2
      <4> QED BY <1>3, <4>1, <4>2
    <3> QED BY <3>1
  <2>2. ASSUME NEW id \in Ids, NEW k \in 1 .. Len(c[id])
        PROVE  q[c[id][k]] # NoMsg /\ q[c[id][k]].to = id
    <3> DEFINE l == at(id, k)
    <3>1. l \in 1 .. Len(b[id]) /\ c[id][k] = b[id][l] /\ c[id][k] # r BY <1>7
    <3> HIDE DEF l
    <3>2. b[id][l] \in Refs BY <1>1, <3>1
    <3>3. q[b[id][l]] = p[b[id][l]] BY <1>6, <3>1, <3>2
    <3> QED BY <1>4, <3>1, <3>3
  <2>3. ASSUME NEW id \in Ids, NEW jd \in Ids,
               NEW k \in 1 .. Len(c[id]), NEW l \in 1 .. Len(c[jd]), c[id][k] = c[jd][l]
        PROVE  id = jd /\ k = l
    <3> DEFINE x == at(id, k)
               y == at(jd, l)
    <3>3. x \in 1 .. Len(b[id]) /\ c[id][k] = b[id][x] BY <1>7
    <3>4. y \in 1 .. Len(b[jd]) /\ c[jd][l] = b[jd][y] BY <1>7
    <3> HIDE DEF x, y
    <3>6. b[id][x] = b[jd][y] BY <2>3, <3>3, <3>4
    <3>7. x \in 1 .. Len(b[id]) /\ y \in 1 .. Len(b[jd]) BY <3>3, <3>4
    <3>5. id = jd /\ x = y
      <4>1. \A i \in 1 .. Len(b[id]), j \in 1 .. Len(b[jd]) :
               b[id][i] = b[jd][j] => id = jd /\ i = j
        BY <1>10
      <4> QED BY <3>6, <3>7, <4>1
    <3>1. id = jd /\ at(id, k) = at(jd, l) BY <3>5 DEF x, y
    <3>2. k \in Int /\ l \in Int OBVIOUS
    <3> QED BY <3>1, <3>2
  <2>4. ASSUME NEW x \in Refs, q[x] # NoMsg
        PROVE  \E id \in Ids : \E k \in 1 .. Len(c[id]) : c[id][k] = x
    <3>1. x # r /\ p[x] # NoMsg BY <1>6, <2>4
    <3>2. PICK id \in Ids : \E k \in 1 .. Len(b[id]) : b[id][k] = x BY <1>4, <3>1
    <3>3. PICK k \in 1 .. Len(b[id]) : b[id][k] = x BY <3>2
    <3>4. CASE id = a
      <4>1. k # 1 BY <1>2, <3>1, <3>3, <3>4
      <4>2. k - 1 \in 1 .. Len(b[a]) - 1 /\ (k - 1) + 1 = k BY <1>1, <3>4, <4>1
      <4>3. k - 1 \in 1 .. Len(c[a]) /\ c[a][k - 1] = x BY <1>2, <3>3, <3>4, <4>2
      <4> QED BY <4>3
    <3>5. CASE id # a BY <3>3, <3>5
    <3> QED BY <3>4, <3>5
  <2> QED BY <2>1, <2>2, <2>3, <2>4 DEF Owned
<1>9. Stays(b, p, c, q) BY <1>1, <1>6, <1>7 DEF Stays
<1> QED BY <1>8, <1>9

\* The inboxes of some agents are emptied and their messages freed.
LEMMA DrainOwned ==
  ASSUME NEW b \in BoxesType, NEW p \in PoolType, Owned(b, p), NEW ids,
         NEW c \in BoxesType, NEW q \in PoolType,
         \A id \in Ids : c[id] = IF id \in ids THEN <<>> ELSE b[id],
         \A r \in Refs :
            q[r] = IF \E id \in ids : \E k \in 1 .. Len(b[id]) : b[id][k] = r
                   THEN NoMsg ELSE p[r],
         ids \subseteq Ids
  PROVE  Owned(c, q) /\ Stays(b, p, c, q)
<1>1. \A id \in Ids : /\ Len(b[id]) \in Nat
                      /\ \A k \in 1 .. Len(b[id]) : b[id][k] \in Refs
  BY ElementsOf DEF BoxesType
<1>2. InboxSize \in Nat BY MailAssumption
<1>3. /\ \A id \in Ids : Len(b[id]) <= InboxSize
      /\ \A id \in Ids : \A k \in 1 .. Len(b[id]) :
            p[b[id][k]] # NoMsg /\ p[b[id][k]].to = id
      /\ \A id, jd \in Ids : \A k \in 1 .. Len(b[id]), l \in 1 .. Len(b[jd]) :
            b[id][k] = b[jd][l] => id = jd /\ k = l
      /\ \A x \in Refs : p[x] # NoMsg =>
            \E id \in Ids : \E k \in 1 .. Len(b[id]) : b[id][k] = x
  BY DEF Owned
<1>4. ASSUME NEW id \in Ids, NEW k \in 1 .. Len(c[id])
      PROVE  /\ id \notin ids /\ c[id] = b[id] /\ k \in 1 .. Len(b[id])
             /\ b[id][k] \in Refs /\ q[b[id][k]] = p[b[id][k]]
  <2>1. id \notin ids BY Len(<<>>) = 0
  <2>2. c[id] = b[id] BY <2>1
  <2>3. k \in 1 .. Len(b[id]) /\ b[id][k] \in Refs BY <1>1, <2>2
  <2>4. ~\E jd \in ids : \E l \in 1 .. Len(b[jd]) : b[jd][l] = b[id][k]
    BY <1>3, <2>1, <2>3
  <2> QED BY <2>1, <2>2, <2>3, <2>4
<1>5. Owned(c, q)
  <2>1. \A id \in Ids : Len(c[id]) <= InboxSize BY <1>2, <1>3, Len(<<>>) = 0
  <2>2. ASSUME NEW id \in Ids, NEW k \in 1 .. Len(c[id])
        PROVE  q[c[id][k]] # NoMsg /\ q[c[id][k]].to = id
    BY <1>3, <1>4
  <2>3. ASSUME NEW id \in Ids, NEW jd \in Ids,
               NEW k \in 1 .. Len(c[id]), NEW l \in 1 .. Len(c[jd]), c[id][k] = c[jd][l]
        PROVE  id = jd /\ k = l
    <3>1. /\ c[id] = b[id] /\ k \in 1 .. Len(b[id])
          /\ c[jd] = b[jd] /\ l \in 1 .. Len(b[jd])
      BY <1>4
    <3> QED BY <1>3, <2>3, <3>1
  <2>4. ASSUME NEW x \in Refs, q[x] # NoMsg
        PROVE  \E id \in Ids : \E k \in 1 .. Len(c[id]) : c[id][k] = x
    <3>1. p[x] # NoMsg /\ ~\E id \in ids : \E k \in 1 .. Len(b[id]) : b[id][k] = x
      BY <2>4
    <3>2. PICK id \in Ids : \E k \in 1 .. Len(b[id]) : b[id][k] = x BY <1>3, <3>1
    <3>3. c[id] = b[id] BY <3>1, <3>2
    <3> QED BY <3>2, <3>3
  <2> QED BY <2>1, <2>2, <2>3, <2>4 DEF Owned
<1>6. Stays(b, p, c, q) BY <1>4 DEF Stays
<1> QED BY <1>5, <1>6

\* A record of an agent stays where it is, and closed when it is closed.
DelsKept(s, t) ==
    /\ DOMAIN s.dels \subseteq DOMAIN t.dels
    /\ \A k \in DOMAIN s.dels :
          t.dels[k].msg = s.dels[k].msg /\ (t.dels[k].open => s.dels[k].open)

\* A message m in the inbox of a slot is the result of a task it delegated.
Answers(m, t) ==
    m.kind = "RESULT" =>
        \E k \in DOMAIN t.dels : t.dels[k].msg = m.re /\ ~t.dels[k].open

\* What a step does to the messages of the runtime.
MovesOf(b, p, c, q) ==
    /\ Owned(c, q)
    /\ \A id \in Ids : \A k \in 1 .. Len(c[id]) :
          \/ \E l \in 1 .. Len(b[id]) : b[id][l] = c[id][k] /\ q[c[id][k]] = p[c[id][k]]
          \/ Answers(q[c[id][k]], agents'[id])
    /\ \A id \in Ids : c[id] = <<>> \/ DelsKept(agents[id], agents'[id])

Moves == MovesOf(Boxes, pool, Boxes', pool')

\* Both sides of a step, and the inboxes that are left alone.
LEMMA BoxTypes ==
  ASSUME Base, Base'
  PROVE  /\ Boxes \in BoxesType /\ Boxes' \in BoxesType
         /\ pool \in PoolType /\ pool' \in PoolType
         /\ \A id \in Ids : Boxes[id] = agents[id].inbox /\ Boxes'[id] = agents'[id].inbox
         /\ \A id \in Ids : agents[id] \in SlotType /\ agents'[id] \in SlotType
  BY BoxesOk DEF Boxes, Base, TableTypes, MailTypes, PoolType

LEMMA SameBoxes ==
  ASSUME Base, Base', \A id \in Ids : agents'[id].inbox = agents[id].inbox
  PROVE  Boxes' = Boxes
<1> DEFINE b == Boxes
           c == Boxes'
<1>1. b \in BoxesType /\ c \in BoxesType /\ \A id \in Ids : b[id] = c[id]
  BY BoxTypes
<1> HIDE DEF b, c
<1>2. b = c BY <1>1 DEF BoxesType
<1> QED BY <1>2 DEF b, c

LEMMA StillMoves ==
  ASSUME Base, Base', Owned(Boxes, pool), UNCHANGED pool,
         \A id \in Ids : agents'[id].inbox = agents[id].inbox
                         /\ DelsKept(agents[id], agents'[id])
  PROVE  Moves
<1>1. Boxes' = Boxes BY SameBoxes
<1>2. Owned(Boxes', pool') BY <1>1
<1> QED BY <1>1, <1>2 DEF Moves, MovesOf

\* Slots change in what has nothing to do with messages.
LEMMA OthersKeep ==
  ASSUME Base, Base', SlotsAgree, TableNext \/ DiscNext \/ SandboxNext, NEW id \in Ids
  PROVE  agents'[id].inbox = agents[id].inbox /\ agents'[id].dels = agents[id].dels
<1>1. agents[id] \in SlotType BY BoxTypes
<1>3. CASE \E t \in Threads, new \in Ids : SpawnDo(t, new)
  <2>1. PICK t \in Threads, new \in Ids : SpawnDo(t, new) BY <1>3
  <2> DEFINE u == SpawnedSlot(frame[t].caps)
  <2>2. agents[new] = FreeSlot
    BY <2>1 DEF SpawnDo, FirstFree, FreeIds, SlotsAgree
  <2>3. u.inbox = FreeSlot.inbox /\ u.dels = FreeSlot.dels BY DEF SpawnedSlot, FreeSlot
  <2>4. agents' = [agents EXCEPT ![new] = u] BY <2>1 DEF SpawnDo
  <2> HIDE DEF u
  <2> QED BY <2>2, <2>3, <2>4, OneSlot
<1>4. CASE SandboxNext
  <2>1. UNCHANGED agents \/ \E a \in Ids : Executes(a) BY <1>4, SandboxExecutes
  <2>2. ASSUME NEW a \in Ids, Executes(a)
        PROVE  agents'[id].inbox = agents[id].inbox /\ agents'[id].dels = agents[id].dels
    BY <2>2, OneSlot DEF Executes, Executed
  <2> QED BY <2>1, <2>2
<1>5. (Ruled(agents[id], agents'[id]) \/ Named(agents[id], agents'[id]))
      => agents'[id].inbox = agents[id].inbox /\ agents'[id].dels = agents[id].dels
  BY <1>1 DEF Ruled, Named, SlotType
<1> QED BY <1>3, <1>4, <1>5, TableSlots, DiscSlots

LEMMA OtherMoves ==
  ASSUME Base, Base', SlotsAgree, Owned(Boxes, pool), UNCHANGED pool,
         TableNext \/ DiscNext \/ SandboxNext
  PROVE  Moves
  BY OthersKeep, StillMoves DEF DelsKept

LEMMA MarkKeeps ==
  ASSUME Base, Base', \E t \in Threads : Mark(t)
  PROVE  /\ UNCHANGED mailVars
         /\ \A id \in Ids : agents'[id].inbox = agents[id].inbox
                            /\ agents'[id].dels = agents[id].dels
<1>0. \A id \in Ids : agents[id] \in SlotType BY BoxTypes
<1>1. PICK t \in Threads : Mark(t) OBVIOUS
<1>2. UNCHANGED mailVars BY <1>1 DEF Mark
<1>3. ASSUME NEW id \in Ids
      PROVE  agents'[id].inbox = agents[id].inbox /\ agents'[id].dels = agents[id].dels
  <2> DEFINE a == frame[t].id
             u == [agents[a] EXCEPT !.state = "WAITING"]
  <2>1. CASE a \in Ids /\ agents' = [agents EXCEPT ![a] = u]
    <3>1. u.inbox = agents[a].inbox /\ u.dels = agents[a].dels
      BY <1>0, <2>1 DEF SlotType
    <3> HIDE DEF u
    <3> QED BY <2>1, <3>1, OneSlot
  <2>2. CASE agents' = agents BY <2>2
  <2> QED BY <1>1, <2>1, <2>2 DEF Mark, Live
<1> QED BY <1>2, <1>3

LEMMA PreparedKeeps ==
  ASSUME Base, NEW table, Prepared(table), NEW id \in Ids
  PROVE  table[id].inbox = agents[id].inbox /\ DelsKept(agents[id], table[id])
<1> DEFINE s == agents[id]
           t == table[id]
<1>1. s \in SlotType /\ t \in SlotType BY DEF Base, TableTypes, Prepared
<1>2. t = s \/ Noted(s, t) BY DEF Prepared
<1> HIDE DEF s, t
<1>3. t.inbox = s.inbox /\ DelsKept(s, t) BY <1>1, <1>2 DEF Noted, DelsKept, SlotType
<1> QED BY <1>3 DEF s, t

\* Message m is put at the free reference r, and r into the inbox of its target.
Puts(b, p, c, q, m, r) ==
    /\ p[r] = NoMsg /\ Len(b[m.to]) < InboxSize
    /\ c[m.to] = Append(b[m.to], r)
    /\ \A id \in Ids \ {m.to} : c[id] = b[id]
    /\ q = [p EXCEPT ![r] = m]

\* The first message of the inbox of an agent is taken, and its reference freed.
Shifts(b, p, c, q, a) ==
    /\ b[a] # <<>> /\ c[a] = Tail(b[a])
    /\ \A id \in Ids \ {a} : c[id] = b[id]
    /\ q = [p EXCEPT ![Head(b[a])] = NoMsg]

\* The inboxes of some agents are emptied, and their references freed.
Drains(b, p, c, q, ids) ==
    /\ \A id \in Ids : c[id] = IF id \in ids THEN <<>> ELSE b[id]
    /\ \A r \in Refs :
          q[r] = IF \E id \in ids : \E k \in 1 .. Len(b[id]) : b[id][k] = r
                 THEN NoMsg ELSE p[r]

\* The call fills in the next message, and it is put into its inbox or freed.
LEMMA SendingPuts ==
  ASSUME Base, Base', Sending
  PROVE  /\ \E m \in MsgType :
               /\ m.to \in Ids /\ m.id = nextMsg /\ nextMsg' = nextMsg + 1
               /\ \/ /\ \E r \in Refs : Puts(Boxes, pool, Boxes', pool', m, r)
                     /\ Answers(m, agents'[m.to])
                  \/ ~HasRoom(m.to) /\ UNCHANGED <<pool, Boxes>>
         /\ \A id \in Ids : DelsKept(agents[id], agents'[id])
         /\ UNCHANGED got
<1>1. PICK m, done, failed, asleep : m \in MsgType /\ SendsOf(m, done, failed, asleep)
  BY SendingIs
<1>2. PICK r \in Refs :
        /\ Allocates(r)
        /\ nextMsg' = nextMsg + 1
        /\ pool' = Pooled(r, m)
        /\ agents' = IF HasRoom(m.to) THEN Delivered(done, m.to, r, asleep) ELSE failed
  BY <1>1 DEF SendsOf, Post
<1>3. Prepared(done) /\ Prepared(failed) /\ m.to \in Ids /\ m.id = nextMsg
  BY <1>1 DEF SendsOf, LiveIds
<1>4. CASE ~HasRoom(m.to)
  <2>1. pool' = pool /\ agents' = failed BY <1>2, <1>4 DEF Pooled
  <2>2. \A id \in Ids : agents'[id].inbox = agents[id].inbox
                        /\ DelsKept(agents[id], agents'[id])
    BY <1>3, <2>1, PreparedKeeps
  <2>3. Boxes' = Boxes BY <2>2, SameBoxes
  <2> QED BY <1>1, <1>2, <1>3, <1>4, <2>1, <2>2, <2>3, SendingIs
<1>5. CASE HasRoom(m.to)
  <2> DEFINE b == Boxes
             c == Boxes'
             to == m.to
             q == [pool EXCEPT ![r] = m]
  <2>1. pool' = q BY <1>2, <1>5 DEF Pooled
  <2>2. Delivers(done, agents', to, r, asleep)
    BY <1>2, <1>3, <1>5, DeliveredOk DEF Prepared
  <2>3. /\ \A id \in Ids \ {to} : agents'[id] = done[id]
        /\ agents'[to] = [done[to] EXCEPT !.inbox = Append(@, r), !.state = agents'[to].state]
    BY <2>2 DEF Delivers
  <2>4. done[to] \in SlotType BY <1>3 DEF Prepared
  <2>5. agents'[to].inbox = Append(done[to].inbox, r) /\ agents'[to].dels = done[to].dels
    BY <2>3, <2>4 DEF SlotType
  <2>6. /\ b \in BoxesType /\ c \in BoxesType /\ pool \in PoolType
        /\ \A id \in Ids : b[id] = agents[id].inbox /\ c[id] = agents'[id].inbox
    BY BoxTypes
  <2>7. /\ c[to] = Append(b[to], r)
        /\ \A id \in Ids \ {to} : c[id] = b[id]
    <3>1. \A id \in Ids : done[id].inbox = agents[id].inbox BY <1>3, PreparedKeeps
    <3>2. agents'[to].inbox = Append(agents[to].inbox, r) BY <1>3, <2>5, <3>1
    <3>3. \A id \in Ids \ {to} : agents'[id].inbox = agents[id].inbox BY <2>3, <3>1
    <3> HIDE DEF b, c
    <3> QED BY <1>3, <2>6, <3>2, <3>3
  <2>8. pool[r] = NoMsg /\ Len(b[to]) < InboxSize
    BY <1>2, <1>3, <1>5, <2>6 DEF Allocates, HasRoom
  <2>9. \A id \in Ids : DelsKept(agents[id], agents'[id])
    <3>1. ASSUME NEW id \in Ids PROVE DelsKept(agents[id], agents'[id])
      <4>1. DelsKept(agents[id], done[id]) BY <1>3, PreparedKeeps
      <4>2. agents'[id].dels = done[id].dels BY <2>3, <2>5
      <4> QED BY <4>1, <4>2 DEF DelsKept
    <3> QED BY <3>1
  <2>10. Answers(m, agents'[to]) BY <1>1, <2>5 DEF SendsOf, Answers
  <2> HIDE DEF b, c, q
  <2>11. Puts(b, pool, c, q, m, r) BY <2>7, <2>8 DEF Puts, q
  <2>12. Puts(Boxes, pool, Boxes', pool', m, r) BY <2>1, <2>11 DEF b, c
  <2> QED BY <1>1, <1>2, <1>3, <2>9, <2>10, <2>12, SendingIs
<1> QED BY <1>4, <1>5

LEMMA SendingMoves ==
  ASSUME Base, Base', Owned(Boxes, pool), Sending
  PROVE  Moves
<1> DEFINE b == Boxes
           c == Boxes'
           q == pool'
<1>1. b \in BoxesType /\ c \in BoxesType /\ pool \in PoolType BY BoxTypes
<1>2. PICK m \in MsgType :
        /\ m.to \in Ids
        /\ \/ /\ \E r \in Refs : Puts(b, pool, c, q, m, r)
              /\ Answers(m, agents'[m.to])
           \/ UNCHANGED <<pool, Boxes>>
  BY SendingPuts
<1>3. \A id \in Ids : DelsKept(agents[id], agents'[id]) BY SendingPuts
<1>4. Owned(b, pool) OBVIOUS
<1>5. CASE UNCHANGED <<pool, Boxes>>
  <2>1. c = b /\ q = pool BY <1>5
  <2> HIDE DEF b, c, q
  <2>2. MovesOf(b, pool, c, q) BY <1>3, <1>4, <2>1 DEF MovesOf
  <2> QED BY <2>2 DEF Moves, b, c, q
<1>6. CASE (\E r \in Refs : Puts(b, pool, c, q, m, r)) /\ Answers(m, agents'[m.to])
  <2>1. PICK r \in Refs : Puts(b, pool, c, q, m, r) BY <1>6
  <2> HIDE DEF b, c, q
  <2>2. Pushed(b, pool, c, q, m, r) BY <1>1, <1>2, <1>4, <2>1, PushOwned DEF Puts
  <2>3. MovesOf(b, pool, c, q) BY <1>3, <1>6, <2>2 DEF MovesOf, Pushed
  <2> QED BY <2>3 DEF Moves, b, c, q
<1> QED BY <1>2, <1>5, <1>6

LEMMA TakeShifts ==
  ASSUME Base, Base', NEW a \in Ids, Take(a)
  PROVE  /\ Shifts(Boxes, pool, Boxes', pool', a)
         /\ got' = got \cup {pool[Head(Boxes[a])]}
         /\ \A id \in Ids : DelsKept(agents[id], agents'[id])
<1> DEFINE b == Boxes
           c == Boxes'
           u == [agents[a] EXCEPT !.inbox = Tail(@)]
<1>1. /\ b \in BoxesType /\ c \in BoxesType /\ pool \in PoolType
      /\ \A id \in Ids : b[id] = agents[id].inbox /\ c[id] = agents'[id].inbox
      /\ \A id \in Ids : agents[id] \in SlotType
  BY BoxTypes
<1>2. agents' = [agents EXCEPT ![a] = u] BY DEF Take
<1>3. u.inbox = Tail(agents[a].inbox) /\ u.dels = agents[a].dels BY <1>1 DEF SlotType
<1> HIDE DEF u
<1>4. /\ agents'[a] = u /\ \A id \in Ids \ {a} : agents'[id] = agents[id]
  BY <1>2, OneSlot
<1>5. /\ agents[a].inbox # <<>> /\ pool' = [pool EXCEPT ![Head(agents[a].inbox)] = NoMsg]
      /\ got' = got \cup {pool[Head(agents[a].inbox)]}
  BY DEF Take
<1>6. \A id \in Ids : DelsKept(agents[id], agents'[id]) BY <1>3, <1>4 DEF DelsKept
<1> HIDE DEF b, c
<1>7. /\ c[a] = Tail(b[a]) /\ b[a] # <<>> /\ pool' = [pool EXCEPT ![Head(b[a])] = NoMsg]
      /\ \A id \in Ids \ {a} : c[id] = b[id]
      /\ got' = got \cup {pool[Head(b[a])]}
  BY <1>1, <1>3, <1>4, <1>5
<1>8. Shifts(b, pool, c, pool', a) BY <1>7 DEF Shifts
<1> QED BY <1>6, <1>7, <1>8 DEF b, c

LEMMA TakeMoves ==
  ASSUME Base, Base', Owned(Boxes, pool), NEW a \in Ids, Take(a)
  PROVE  Moves
<1> DEFINE b == Boxes
           c == Boxes'
<1>1. b \in BoxesType /\ c \in BoxesType /\ pool \in PoolType BY BoxTypes
<1>2. Shifts(b, pool, c, pool', a) BY TakeShifts
<1>3. \A id \in Ids : DelsKept(agents[id], agents'[id]) BY TakeShifts
<1>4. Owned(b, pool) OBVIOUS
<1> HIDE DEF b, c
<1>5. Owned(c, pool') /\ Stays(b, pool, c, pool') BY <1>1, <1>2, <1>4, PopOwned DEF Shifts
<1>6. MovesOf(b, pool, c, pool') BY <1>3, <1>5 DEF MovesOf, Stays
<1> QED BY <1>6 DEF Moves, b, c

LEMMA EndDrains ==
  ASSUME Base, Base', NEW ids, ids \subseteq Ids, pool' = Drained(ids),
         \A id \in Ids : agents'[id] = IF id \in ids THEN FreeSlot ELSE agents[id]
  PROVE  Drains(Boxes, pool, Boxes', pool', ids)
<1> DEFINE b == Boxes
           c == Boxes'
<1>1. /\ b \in BoxesType /\ c \in BoxesType /\ pool \in PoolType /\ pool' \in PoolType
      /\ \A id \in Ids : b[id] = agents[id].inbox /\ c[id] = agents'[id].inbox
  BY BoxTypes
<1>2. FreeSlot.inbox = <<>> BY DEF FreeSlot
<1>3. \A id \in Ids : b[id] \in Seq(Refs) BY <1>1 DEF BoxesType
<1>4. \A id \in Ids : \A r : r \in ToSet(agents[id].inbox)
                             <=> \E k \in 1 .. Len(b[id]) : b[id][k] = r
  <2>1. ASSUME NEW id \in Ids, NEW r
        PROVE  r \in ToSet(agents[id].inbox) <=> \E k \in 1 .. Len(b[id]) : b[id][k] = r
    <3>1. agents[id].inbox = b[id] /\ DOMAIN b[id] = 1 .. Len(b[id])
      BY <1>1, <1>3, ElementsOf
    <3> HIDE DEF b
    <3> QED BY <3>1 DEF ToSet
  <2> QED BY <2>1
<1>5. \A r \in Refs :
         pool'[r] = IF \E id \in ids : \E k \in 1 .. Len(b[id]) : b[id][k] = r
                    THEN NoMsg ELSE pool[r]
  <2>1. ASSUME NEW r \in Refs
        PROVE  pool'[r] = IF \E id \in ids : \E k \in 1 .. Len(b[id]) : b[id][k] = r
                          THEN NoMsg ELSE pool[r]
    <3>1. (\E id \in ids : r \in ToSet(agents[id].inbox))
             <=> \E id \in ids : \E k \in 1 .. Len(b[id]) : b[id][k] = r
      BY <1>4
    <3>2. pool'[r] = IF \E id \in ids : r \in ToSet(agents[id].inbox)
                     THEN NoMsg ELSE pool[r]
      BY DEF Drained
    <3> HIDE DEF b
    <3> QED BY <3>1, <3>2
  <2> QED BY <2>1
<1>6. \A id \in Ids : c[id] = IF id \in ids THEN <<>> ELSE b[id] BY <1>1, <1>2
<1> HIDE DEF b, c
<1>7. Drains(b, pool, c, pool', ids) BY <1>5, <1>6 DEF Drains
<1> QED BY <1>7 DEF b, c

LEMMA DrainMoves ==
  ASSUME Base, Base', Owned(Boxes, pool), NEW ids, ids \subseteq Ids,
         pool' = Drained(ids),
         \A id \in Ids : agents'[id] = IF id \in ids THEN FreeSlot ELSE agents[id]
  PROVE  Moves
<1> DEFINE b == Boxes
           c == Boxes'
<1>1. b \in BoxesType /\ c \in BoxesType /\ pool \in PoolType /\ pool' \in PoolType
  BY BoxTypes
<1>2. Drains(b, pool, c, pool', ids) BY EndDrains
<1>3. Owned(b, pool) OBVIOUS
<1>4. \A id \in Ids \ ids : agents'[id] = agents[id] OBVIOUS
<1> HIDE DEF b, c
<1>5. Owned(c, pool') /\ Stays(b, pool, c, pool')
  BY <1>1, <1>2, <1>3, DrainOwned DEF Drains
<1>6. \A id \in Ids : c[id] = <<>> \/ DelsKept(agents[id], agents'[id])
  BY <1>2, <1>4 DEF DelsKept, Drains
<1>7. MovesOf(b, pool, c, pool') BY <1>5, <1>6 DEF MovesOf, Stays
<1> QED BY <1>7 DEF Moves, b, c

LEMMA MailMoves ==
  ASSUME Base, Base', Owned(Boxes, pool), MailNext
  PROVE  Moves
<1>1. CASE Sending BY <1>1, SendingMoves
<1>2. CASE \E a \in Ids : RecvNow(a) BY <1>2, TakeMoves DEF RecvNow
<1>3. CASE \E t \in Threads : PollTake(t)
  BY <1>3, TakeMoves DEF PollTake, Live
<1>4. CASE \E a \in Ids : Terminate(a)
  <2>1. PICK a \in Ids : Terminate(a) BY <1>4
  <2>2. /\ pool' = Drained({a})
        /\ \A id \in Ids : agents'[id] = IF id \in {a} THEN FreeSlot ELSE agents[id]
    BY <2>1, OneSlot DEF Terminate
  <2> QED BY <2>2, DrainMoves
<1>5. CASE \E a \in Ids, m \in got : ResultNoMem(m, a)
  <2>1. PICK a \in Ids, m \in got : ResultNoMem(m, a) BY <1>5
  <2>2. a \in LiveIds /\ HasDel(a, m.id) BY <2>1 DEF ResultNoMem, Delegator, Live, LiveIds
  <2>3. Prepared(agents') BY <2>1, <2>2, ClosedOk DEF ResultNoMem
  <2>4. pool' = pool BY <2>1 DEF ResultNoMem
  <2> QED BY <2>3, <2>4, PreparedKeeps, StillMoves
<1>6. CASE \/ CastSkip \/ \E a \in Ids, topic \in Topics : Broadcast(a, topic)
           \/ \E t \in Threads : PollGone(t) \/ PollMiss(t)
           \/ \E t \in Threads, a \in Ids : RecvWait(t, a)
  <2>1. UNCHANGED <<agents, pool>>
    BY <1>6 DEF CastSkip, Broadcast, PollGone, PollMiss, RecvWait, mailVars
  <2> QED BY <2>1, StillMoves DEF DelsKept
<1>7. CASE \E t \in Threads : Mark(t)
  BY <1>7, MarkKeeps, StillMoves DEF DelsKept, mailVars
<1> QED BY <1>1, <1>2, <1>3, <1>4, <1>5, <1>6, <1>7 DEF MailNext, Sending, Poll

LEMMA MovesNext ==
  ASSUME Base, Base', SlotsAgree, Owned(Boxes, pool), [Next]_vars
  PROVE  Moves
<1>1. CASE UNCHANGED vars
  <2>1. UNCHANGED <<agents, pool>> BY <1>1 DEF vars, tableVars, mailVars
  <2> QED BY <2>1, StillMoves DEF DelsKept
<1>2. CASE (TableNext \/ DiscNext \/ SandboxNext) /\ UNCHANGED mailVars
  BY <1>2, OtherMoves DEF mailVars
<1>3. CASE MailNext BY <1>3, MailMoves
<1>4. CASE Shutdown
  <2>1. LiveIds \subseteq Ids BY DEF LiveIds
  <2>2. /\ pool' = Drained(LiveIds)
        /\ \A id \in Ids : agents'[id] = IF id \in LiveIds THEN FreeSlot ELSE agents[id]
    BY <1>4 DEF Shutdown, Live, LiveIds
  <2> QED BY <2>1, <2>2, DrainMoves
<1>5. CASE Restart
  <2>1. \A id \in Ids : Boxes'[id] = <<>>
    BY <1>5, BoxTypes DEF Restart, FreeSlot
  <2>2. \A r \in Refs : pool'[r] = NoMsg BY <1>5 DEF Restart
  <2>3. Owned(Boxes', pool') BY <2>1, <2>2, MailAssumption, Len(<<>>) = 0 DEF Owned
  <2> QED BY <2>1, <2>3, Len(<<>>) = 0 DEF Moves, MovesOf
<1> QED BY <1>1, <1>2, <1>3, <1>4, <1>5 DEF Next

LEMMA PoolOwnedInit == Init => PoolOwned
<1> SUFFICES ASSUME Init PROVE PoolOwned
  OBVIOUS
<1>1. Base BY BaseInit
<1>2. \A id \in Ids : Boxes[id] = <<>>
  BY DEF Init, TableInit, FreeSlot, Boxes, BoxesOf
<1>3. \A r \in Refs : pool[r] = NoMsg BY DEF Init, MailInit
<1>4. Owned(Boxes, pool) BY <1>2, <1>3, MailAssumption, Len(<<>>) = 0 DEF Owned
<1> QED BY <1>1, <1>4, PoolOwnedIs

LEMMA PoolOwnedStep ==
  ASSUME Base, Base', SlotsAgree, PoolOwned, [Next]_vars
  PROVE  PoolOwned'
<1>1. Owned(Boxes, pool) BY PoolOwnedIs
<1>2. Owned(Boxes, pool)' BY <1>1, MovesNext DEF Moves, MovesOf
<1> QED BY <1>2, PoolOwnedIs, PTL

\* A message that is allocated is in exactly one place of one inbox, that of
\* its target (msg_pool_alloc, msg_pool_free and every path between them).
THEOREM PoolOwnedHolds == Spec => []PoolOwned
  BY PoolOwnedInit, PoolOwnedStep, BaseHolds, SlotsAgreeHolds, PTL DEF Spec
-----------------------------------------------------------------------------
(* Results.                                                                 *)

\* ResultsAnswer, of inboxes and the pool.
Answered(b, p) ==
    \A id \in Ids : \A k \in 1 .. Len(b[id]) : Answers(p[b[id][k]], agents[id])

LEMMA BoxTypesNow ==
  ASSUME Base
  PROVE  Boxes \in BoxesType /\ \A id \in Ids : Boxes[id] = agents[id].inbox
  BY BoxesOk DEF Boxes, Base, TableTypes

LEMMA ResultsAnswerIs ==
  Base => (PoolOwned => (ResultsAnswer <=> Answered(Boxes, pool)))
<1> SUFFICES ASSUME Base, PoolOwned PROVE ResultsAnswer <=> Answered(Boxes, pool)
  OBVIOUS
<1> DEFINE b == Boxes
<1>1. b \in BoxesType /\ \A id \in Ids : b[id] = agents[id].inbox BY BoxTypesNow
<1>2. \A id \in Ids : Len(b[id]) <= InboxSize /\ Len(b[id]) \in Nat
  BY <1>1 DEF PoolOwned, BoxesType
<1> HIDE DEF b
<1>3. InboxSize \in Nat BY MailAssumption
<1>4. /\ \A p \in Places : /\ p[1] \in Ids /\ p[2] \in 1 .. Len(b[p[1]])
                           /\ RefAt(p) = b[p[1]][p[2]]
      /\ \A id \in Ids : \A k \in 1 .. Len(b[id]) :
            \E p \in Places : p[1] = id /\ RefAt(p) = b[id][k]
  <2>1. /\ \A p \in Places : /\ p[1] \in Ids /\ p[2] \in 1 .. Len(b[p[1]])
                             /\ RefAt(p) = b[p[1]][p[2]]
        /\ \A id \in Ids : \A k \in 1 .. Len(b[id]) :
              <<id, k>> \in Places /\ RefAt(<<id, k>>) = b[id][k]
    BY <1>1, <1>2, <1>3 DEF Places, RefAt
  <2>2. ASSUME NEW id \in Ids, NEW k \in 1 .. Len(b[id])
        PROVE  \E p \in Places : p[1] = id /\ RefAt(p) = b[id][k]
    <3>1. <<id, k>>[1] = id OBVIOUS
    <3>2. <<id, k>> \in Places /\ RefAt(<<id, k>>) = b[id][k] BY <2>1
    <3> QED BY <3>1, <3>2
  <2> QED BY <2>1, <2>2
<1>5. ResultsAnswer <=> \A p \in Places : Answers(pool[RefAt(p)], agents[p[1]])
  BY DEF ResultsAnswer, Answers
<1>6. (\A p \in Places : Answers(pool[RefAt(p)], agents[p[1]]))
         <=> \A id \in Ids : \A k \in 1 .. Len(b[id]) : Answers(pool[b[id][k]], agents[id])
  <2>1. ASSUME \A p \in Places : Answers(pool[RefAt(p)], agents[p[1]]),
               NEW id \in Ids, NEW k \in 1 .. Len(b[id])
        PROVE  Answers(pool[b[id][k]], agents[id])
    <3>1. PICK p \in Places : p[1] = id /\ RefAt(p) = b[id][k] BY <1>4
    <3>2. Answers(pool[RefAt(p)], agents[p[1]]) BY <2>1
    <3> QED BY <3>1, <3>2
  <2>2. ASSUME \A id \in Ids : \A k \in 1 .. Len(b[id]) : Answers(pool[b[id][k]], agents[id]),
               NEW p \in Places
        PROVE  Answers(pool[RefAt(p)], agents[p[1]])
    BY <1>4, <2>2
  <2> QED BY <2>1, <2>2
<1> QED BY <1>5, <1>6 DEF Answered, b

LEMMA AnsweredStep ==
  ASSUME Base, Base', SlotsAgree, Owned(Boxes, pool), Answered(Boxes, pool), [Next]_vars
  PROVE  Answered(Boxes, pool)'
<1> DEFINE b == Boxes
           c == Boxes'
           q == pool'
<1>1. MovesOf(b, pool, c, q) BY MovesNext DEF Moves
<1>2. Answered(b, pool) OBVIOUS
<1> HIDE DEF b, c, q
<1>3. ASSUME NEW id \in Ids, NEW k \in 1 .. Len(c[id])
      PROVE  Answers(q[c[id][k]], agents'[id])
  <2>1. c[id] # <<>> BY <1>3, Len(<<>>) = 0
  <2>2. DelsKept(agents[id], agents'[id]) BY <1>1, <2>1 DEF MovesOf
  <2>3. CASE \E l \in 1 .. Len(b[id]) : b[id][l] = c[id][k] /\ q[c[id][k]] = pool[c[id][k]]
    <3>1. Answers(q[c[id][k]], agents[id]) BY <1>2, <2>3 DEF Answered
    <3> QED BY <2>2, <3>1 DEF Answers, DelsKept
  <2> QED BY <1>1, <2>3 DEF MovesOf
<1>4. \A id \in Ids : \A k \in 1 .. Len(c[id]) : Answers(q[c[id][k]], agents'[id])
  BY <1>3
<1> QED BY <1>4 DEF Answered, c, q, Answers

LEMMA ResultsAnswerStep ==
  ASSUME Base, Base', SlotsAgree, PoolOwned, PoolOwned', ResultsAnswer, [Next]_vars
  PROVE  ResultsAnswer'
<1>1. Owned(Boxes, pool) BY PoolOwnedIs
<1>2. Answered(Boxes, pool) BY ResultsAnswerIs
<1>3. Answered(Boxes, pool)' BY <1>1, <1>2, AnsweredStep
<1> QED BY <1>3, ResultsAnswerIs, PTL

LEMMA ResultsAnswerInit == Init => ResultsAnswer
<1> SUFFICES ASSUME Init PROVE ResultsAnswer
  OBVIOUS
<1>1. Base /\ PoolOwned BY BaseInit, PoolOwnedInit
<1>2. \A id \in Ids : Boxes[id] = <<>>
  BY DEF Init, TableInit, FreeSlot, Boxes, BoxesOf
<1>3. Answered(Boxes, pool) BY <1>2, Len(<<>>) = 0 DEF Answered
<1> QED BY <1>1, <1>3, ResultsAnswerIs

\* A RESULT waits only at an agent that delegated its task and whose record of
\* it is closed (flux_a2a_delegate_result), whatever ends and is reused.
THEOREM ResultsAnswerHolds == Spec => []ResultsAnswer
  BY ResultsAnswerInit, ResultsAnswerStep, BaseHolds, SlotsAgreeHolds, PoolOwnedHolds,
     PTL DEF Spec

-----------------------------------------------------------------------------
(* Types.                                                                   *)

\* A receive returns a message, never an empty slot of the pool: what waits
\* in an inbox is allocated.
LEMMA GotStep ==
  ASSUME Base, PoolOwned, got \subseteq MsgType, [Next]_vars
  PROVE  (got \subseteq MsgType)'
<1>1. ASSUME NEW id \in Ids, Take(id) PROVE got' \subseteq MsgType
  <2> DEFINE b == Boxes
             r == Head(agents[id].inbox)
  <2>1. Owned(b, pool) BY PoolOwnedIs
  <2>2. b \in BoxesType /\ b[id] = agents[id].inbox BY BoxTypesNow
  <2>3. b[id] # <<>> /\ got' = got \cup {pool[r]} BY <1>1, <2>2 DEF Take
  <2>4. r = b[id][1] BY <2>2
  <2> HIDE DEF b, r
  <2>5. b[id] \in Seq(Refs) BY <2>2 DEF BoxesType
  <2>6. 1 \in 1 .. Len(b[id]) /\ b[id][1] \in Refs BY <2>3, <2>5
  <2>7. pool[r] # NoMsg BY <2>1, <2>4, <2>6 DEF Owned
  <2>8. pool[r] \in MsgType BY <2>4, <2>6, <2>7 DEF Base, MailTypes
  <2> QED BY <2>3, <2>8
<1>2. CASE MailNext
  <2>1. CASE Sending BY <2>1, SendingIs
  <2>2. CASE \/ \E id \in Ids : RecvNow(id)
             \/ \E t \in Threads : PollTake(t)
    BY <1>1, <2>2 DEF RecvNow, PollTake, Live
  <2> QED
    BY <1>2, <2>1, <2>2
    DEF MailNext, Sending, Poll, Terminate, ResultNoMem, OthersOfPost, CastSkip,
        Broadcast, PollGone, PollMiss, Mark, RecvWait, mailVars
<1>3. CASE UNCHANGED got BY <1>3
<1> QED BY <1>2, <1>3 DEF Next, Shutdown, Restart, vars, mailVars

\* The type invariant of g_agent_rt; what a receive returns is a message.
THEOREM AgentTypeOKHolds == Spec => []AgentTypeOK
<1>1. Init => got \subseteq MsgType BY DEF Init, MailInit
<1>2. Base /\ PoolOwned /\ got \subseteq MsgType /\ [Next]_vars => (got \subseteq MsgType)'
  BY GotStep
<1>3. Base /\ got \subseteq MsgType => AgentTypeOK
  BY DEF Base, TableTypes, FrameType, DiscTypes, PubType, MailTypes, SchedTypes,
         SchedType, AgentTypeOK
<1> QED BY <1>1, <1>2, <1>3, BaseHolds, PoolOwnedHolds, PTL DEF Spec

-----------------------------------------------------------------------------
(* The boxes the inboxes stand for.                                         *)

Reads(b, p) == [id \in Ids |-> [k \in DOMAIN b[id] |-> p[b[id][k]]]]

LEMMA ReadsOk ==
  ASSUME NEW b \in BoxesType, NEW p \in PoolType, Owned(b, p), NEW id \in Ids
  PROVE  /\ Reads(b, p)[id] \in Seq(MsgType)
         /\ Reads(b, p)[id] = [k \in 1 .. Len(b[id]) |-> p[b[id][k]]]
         /\ Len(Reads(b, p)[id]) = Len(b[id]) /\ Len(b[id]) \in Nat
         /\ \A k \in 1 .. Len(b[id]) : Reads(b, p)[id][k] = p[b[id][k]]
<1>1. /\ b[id] \in Seq(Refs) /\ DOMAIN b[id] = 1 .. Len(b[id]) /\ Len(b[id]) \in Nat
      /\ \A k \in 1 .. Len(b[id]) : b[id][k] \in Refs
  BY ElementsOf DEF BoxesType
<1>2. \A k \in 1 .. Len(b[id]) : p[b[id][k]] \in MsgType
  BY <1>1 DEF PoolType, Owned
<1>3. Reads(b, p)[id] = [k \in 1 .. Len(b[id]) |-> p[b[id][k]]]
  BY <1>1 DEF Reads
<1>4. Reads(b, p)[id] \in Seq(MsgType) /\ Len(Reads(b, p)[id]) = Len(b[id])
  BY <1>1, <1>2, <1>3
<1> QED BY <1>1, <1>3, <1>4

\* Two functions of the agents with the same sequences of messages.
LEMMA SameReads ==
  ASSUME NEW b, NEW p, NEW f, DOMAIN f = Ids, f = [id \in Ids |-> f[id]],
         \A id \in Ids : Reads(b, p)[id] = f[id]
  PROVE  Reads(b, p) = f
  BY DEF Reads

LEMMA PutReads ==
  ASSUME NEW b \in BoxesType, NEW p \in PoolType, Owned(b, p),
         NEW m \in MsgType, m.to \in Ids, NEW r \in Refs,
         NEW c \in BoxesType, NEW q \in PoolType, Puts(b, p, c, q, m, r), Owned(c, q)
  PROVE  Reads(c, q) = [Reads(b, p) EXCEPT ![m.to] = Append(@, m)]
<1> DEFINE to == m.to
           x == Reads(b, p)
           y == Reads(c, q)
           f == [x EXCEPT ![to] = Append(@, m)]
<1>1. q[r] = m /\ \A s \in Refs : s # r => q[s] = p[s] BY DEF PoolType, Puts
<1>2. \A id \in Ids : \A k \in 1 .. Len(b[id]) : b[id][k] \in Refs /\ b[id][k] # r
  <2>1. \A id \in Ids : \A k \in 1 .. Len(b[id]) : b[id][k] \in Refs
    BY ElementsOf DEF BoxesType
  <2> QED BY <2>1 DEF Puts, Owned
<1>9. m \in MsgType OBVIOUS
<1>3. y[to] = Append(x[to], m)
  <2> DEFINE n == Len(b[to])
  <2>0. to \in Ids OBVIOUS
  <2> HIDE DEF to
  <2>1. /\ x[to] \in Seq(MsgType) /\ Len(x[to]) = n /\ n \in Nat
        /\ \A k \in 1 .. n : x[to][k] = p[b[to][k]]
    BY <2>0, ReadsOk
  <2>2. b[to] \in Seq(Refs) /\ c[to] = Append(b[to], r) BY <2>0 DEF BoxesType, Puts, to
  <2>3. /\ Len(c[to]) = n + 1 /\ c[to][n + 1] = r
        /\ \A k \in 1 .. n : c[to][k] = b[to][k]
    BY <2>2
  <2>4. /\ y[to] \in Seq(MsgType) /\ Len(y[to]) = n + 1
        /\ \A k \in 1 .. n + 1 : y[to][k] = q[c[to][k]]
    <3>1. /\ y[to] \in Seq(MsgType) /\ Len(y[to]) = Len(c[to])
          /\ \A k \in 1 .. Len(c[to]) : y[to][k] = q[c[to][k]]
      BY <2>0, ReadsOk
    <3> HIDE DEF y
    <3> QED BY <2>3, <3>1
  <2>9. \A k \in 1 .. n : b[to][k] \in Refs /\ b[to][k] # r BY <1>2, <2>0
  <2> HIDE DEF n, x, y, f
  <2>5. ASSUME NEW k \in 1 .. n PROVE y[to][k] = x[to][k]
    <3>1. k \in 1 .. n + 1 BY <2>1
    <3>2. q[b[to][k]] = p[b[to][k]] BY <1>1, <2>9
    <3> QED BY <2>1, <2>3, <2>4, <3>1, <3>2
  <2>6. y[to][n + 1] = m BY <1>1, <2>1, <2>3, <2>4
  <2>10. /\ Append(x[to], m)[n + 1] = m
         /\ \A k \in 1 .. n : Append(x[to], m)[k] = x[to][k]
    BY <2>1
  <2>7. ASSUME NEW k \in 1 .. Len(y[to]) PROVE y[to][k] = Append(x[to], m)[k]
    <3>1. k \in 1 .. n \/ k = n + 1 BY <2>1, <2>4
    <3> QED BY <2>5, <2>6, <2>10, <3>1
  <2>8. Append(x[to], m) \in Seq(MsgType) /\ Len(Append(x[to], m)) = Len(y[to])
    BY <2>1, <2>4
  <2> QED BY <2>4, <2>7, <2>8, SeqEqual
<1>4. ASSUME NEW id \in Ids \ {to} PROVE y[id] = x[id]
  <2>1. c[id] = b[id] BY DEF Puts
  <2>2. y[id] = [k \in 1 .. Len(b[id]) |-> q[b[id][k]]] BY <2>1, ReadsOk
  <2>3. x[id] = [k \in 1 .. Len(b[id]) |-> p[b[id][k]]] BY ReadsOk
  <2>4. \A k \in 1 .. Len(b[id]) : q[b[id][k]] = p[b[id][k]] BY <1>1, <1>2
  <2> HIDE DEF x, y
  <2> QED BY <2>2, <2>3, <2>4
<1>5. DOMAIN x = Ids /\ DOMAIN f = Ids /\ f = [id \in Ids |-> f[id]] BY DEF Reads
<1>6. \A id \in Ids : y[id] = f[id] BY <1>3, <1>4, <1>5
<1> HIDE DEF f
<1>7. y = f BY <1>5, <1>6, SameReads
<1> QED BY <1>7 DEF f

LEMMA ShiftReads ==
  ASSUME NEW b \in BoxesType, NEW p \in PoolType, Owned(b, p), NEW a \in Ids,
         NEW c \in BoxesType, NEW q \in PoolType, Shifts(b, p, c, q, a), Owned(c, q)
  PROVE  /\ Reads(c, q) = [Reads(b, p) EXCEPT ![a] = Tail(@)]
         /\ Reads(b, p)[a] # <<>> /\ Head(Reads(b, p)[a]) = p[Head(b[a])]
<1> DEFINE x == Reads(b, p)
           y == Reads(c, q)
           n == Len(b[a])
           r == Head(b[a])
           f == [x EXCEPT ![a] = Tail(@)]
<1>1. \A id \in Ids : \A k \in 1 .. Len(b[id]) : b[id][k] \in Refs
  BY ElementsOf DEF BoxesType
<1>2. /\ n \in Nat /\ n > 0 /\ r = b[a][1] /\ c[a] = Tail(b[a])
      /\ Len(c[a]) = n - 1 /\ \A k \in 1 .. n - 1 : c[a][k] = b[a][k + 1]
  <2>1. b[a] \in Seq(Refs) /\ b[a] # <<>> /\ c[a] = Tail(b[a]) BY DEF BoxesType, Shifts
  <2> QED BY <2>1
<1>3. r \in Refs /\ 1 \in 1 .. n BY <1>1, <1>2
<1>4. \A s \in Refs : s # r => q[s] = p[s] BY DEF PoolType, Shifts
<1>5. \A id \in Ids : \A k \in 1 .. Len(b[id]) : b[id][k] = b[a][1] => id = a /\ k = 1
  BY <1>2, <1>3 DEF Owned
<1>6. /\ x[a] \in Seq(MsgType) /\ Len(x[a]) = n /\ \A k \in 1 .. n : x[a][k] = p[b[a][k]]
  BY ReadsOk
<1>7. /\ y[a] \in Seq(MsgType) /\ Len(y[a]) = n - 1
      /\ \A k \in 1 .. n - 1 : y[a][k] = q[c[a][k]]
  <2>1. /\ y[a] \in Seq(MsgType) /\ Len(y[a]) = Len(c[a])
        /\ \A k \in 1 .. Len(c[a]) : y[a][k] = q[c[a][k]]
    BY ReadsOk
  <2> HIDE DEF y
  <2> QED BY <1>2, <2>1
<1>8. DOMAIN x = Ids /\ DOMAIN f = Ids /\ f = [id \in Ids |-> f[id]] BY DEF Reads
<1>9. ASSUME NEW id \in Ids \ {a} PROVE y[id] = x[id]
  <2>1. c[id] = b[id] BY DEF Shifts
  <2>2. y[id] = [k \in 1 .. Len(b[id]) |-> q[b[id][k]]] BY <2>1, ReadsOk
  <2>3. x[id] = [k \in 1 .. Len(b[id]) |-> p[b[id][k]]] BY ReadsOk
  <2>4. \A k \in 1 .. Len(b[id]) : q[b[id][k]] = p[b[id][k]]
    BY <1>1, <1>2, <1>4, <1>5
  <2> QED BY <2>2, <2>3, <2>4
<1> HIDE DEF x, y, n, r
<1>10. y[a] = Tail(x[a])
  <2>1. ASSUME NEW k \in 1 .. n - 1 PROVE y[a][k] = x[a][k + 1]
    <3>1. k + 1 \in 1 .. n /\ k + 1 # 1 BY <1>2
    <3>2. c[a][k] = b[a][k + 1] BY <1>2
    <3>3. b[a][k + 1] # r /\ b[a][k + 1] \in Refs BY <1>1, <1>2, <1>5, <3>1 DEF n
    <3> QED BY <1>4, <1>6, <1>7, <3>1, <3>2, <3>3
  <2>2. /\ Tail(x[a]) \in Seq(MsgType) /\ Len(Tail(x[a])) = n - 1
        /\ \A k \in 1 .. n - 1 : Tail(x[a])[k] = x[a][k + 1]
    BY <1>2, <1>6
  <2>3. \A k \in 1 .. Len(y[a]) : y[a][k] = Tail(x[a])[k] BY <1>7, <2>1, <2>2
  <2> QED BY <1>7, <2>2, <2>3, SeqEqual
<1>11. \A id \in Ids : y[id] = f[id] BY <1>8, <1>9, <1>10
<1>12. x[a] # <<>> /\ Head(x[a]) = p[r] BY <1>2, <1>3, <1>6, Len(<<>>) = 0
<1> HIDE DEF f
<1>13. y = f BY <1>8, <1>11, SameReads DEF y
<1> QED BY <1>12, <1>13 DEF f, x, y, r

LEMMA DrainReads ==
  ASSUME NEW b \in BoxesType, NEW p \in PoolType, Owned(b, p), NEW ids \in SUBSET Ids,
         NEW c \in BoxesType, NEW q \in PoolType, Drains(b, p, c, q, ids), Owned(c, q)
  PROVE  Reads(c, q) = [id \in Ids |-> IF id \in ids THEN <<>> ELSE Reads(b, p)[id]]
<1> DEFINE x == Reads(b, p)
           y == Reads(c, q)
           f == [id \in Ids |-> IF id \in ids THEN <<>> ELSE x[id]]
<1>1. ASSUME NEW id \in Ids PROVE y[id] = f[id]
  <2>1. CASE id \in ids
    <3>1. c[id] = <<>> /\ Len(<<>>) = 0 BY <2>1 DEF Drains
    <3>2. y[id] \in Seq(MsgType) /\ Len(y[id]) = 0 BY <3>1, ReadsOk
    <3> HIDE DEF y
    <3>3. y[id] = <<>> BY <3>2
    <3> QED BY <2>1, <3>3
  <2>2. CASE id \notin ids
    <3>1. c[id] = b[id] BY <2>2 DEF Drains
    <3>2. y[id] = [k \in 1 .. Len(b[id]) |-> q[b[id][k]]] BY <3>1, ReadsOk
    <3>3. x[id] = [k \in 1 .. Len(b[id]) |-> p[b[id][k]]] BY ReadsOk
    <3>4. ASSUME NEW k \in 1 .. Len(b[id]) PROVE q[b[id][k]] = p[b[id][k]]
      <4>1. b[id][k] \in Refs BY ElementsOf DEF BoxesType
      <4>2. \A jd \in ids : \A l \in 1 .. Len(b[jd]) : b[jd][l] # b[id][k]
        BY <2>2 DEF Owned
      <4> QED BY <4>1, <4>2 DEF Drains
    <3> QED BY <2>2, <3>2, <3>3, <3>4
  <2> QED BY <2>1, <2>2
<1>2. DOMAIN f = Ids /\ f = [id \in Ids |-> f[id]] OBVIOUS
<1> HIDE DEF f
<1>3. y = f BY <1>1, <1>2, SameReads
<1> QED BY <1>3 DEF f

\* Unread is that reading of the inboxes and the pool.
LEMMA UnreadIs == Base => Unread = Reads(Boxes, pool)
<1> SUFFICES ASSUME Base PROVE Unread = Reads(Boxes, pool)
  OBVIOUS
<1>1. \A id \in Ids : Boxes[id] = agents[id].inbox BY BoxTypesNow
<1> QED BY <1>1 DEF Unread, Reads

LEMMA OfficeInit == Init => Office!Init
<1> SUFFICES ASSUME Init PROVE Office!Init
  OBVIOUS
<1>1. Unread = [id \in Ids |-> <<>>]
  <2>1. ASSUME NEW id \in Ids
        PROVE  [k \in DOMAIN agents[id].inbox |-> pool[agents[id].inbox[k]]] = <<>>
    <3>1. agents[id].inbox = <<>> BY DEF Init, TableInit, FreeSlot
    <3> QED BY <3>1
  <2> QED BY <2>1 DEF Unread
<1> QED BY <1>1 DEF Init, MailInit, Office!Init, Office!Empty

OfficeMoves ==
    \/ \E m \in MsgType :
          /\ m.to \in Ids /\ m.id = nextMsg /\ nextMsg' = nextMsg + 1 /\ UNCHANGED got
          /\ \/ \E r \in Refs : Puts(Boxes, pool, Boxes', pool', m, r)
             \/ ~HasRoom(m.to) /\ UNCHANGED <<pool, Boxes>>
    \/ \E a \in Ids :
          /\ Shifts(Boxes, pool, Boxes', pool', a)
          /\ got' = got \cup {pool[Head(Boxes[a])]} /\ UNCHANGED nextMsg
    \/ \E ids \in SUBSET Ids :
          Drains(Boxes, pool, Boxes', pool', ids) /\ UNCHANGED <<nextMsg, got>>
    \/ UNCHANGED <<Boxes, pool, nextMsg, got>>
    \/ (\A id \in Ids : Boxes'[id] = <<>>) /\ nextMsg' = 1 /\ UNCHANGED got

\* What each step does to the messages.
LEMMA OfficeMovesNext ==
  ASSUME Base, Base', SlotsAgree, [Next]_vars
  PROVE  OfficeMoves
<1>1. CASE UNCHANGED vars
  <2>1. UNCHANGED <<agents, pool, nextMsg, got>> BY <1>1 DEF vars, tableVars, mailVars
  <2>2. UNCHANGED Boxes BY <2>1, SameBoxes
  <2> QED BY <2>1, <2>2 DEF OfficeMoves
<1>2. CASE (TableNext \/ DiscNext \/ SandboxNext) /\ UNCHANGED mailVars
  <2>1. \A id \in Ids : agents'[id].inbox = agents[id].inbox BY <1>2, OthersKeep
  <2>2. UNCHANGED Boxes BY <2>1, SameBoxes
  <2> QED BY <1>2, <2>2 DEF OfficeMoves, mailVars
<1>3. CASE Sending BY <1>3, SendingPuts DEF OfficeMoves
<1>4. CASE (\E a \in Ids : RecvNow(a)) \/ (\E t \in Threads : PollTake(t))
  <2>1. PICK a \in Ids : Take(a) /\ UNCHANGED nextMsg
    BY <1>4 DEF RecvNow, PollTake, Live
  <2> QED BY <2>1, TakeShifts DEF OfficeMoves
<1>5. CASE \E a \in Ids : Terminate(a)
  <2>1. PICK a \in Ids : Terminate(a) BY <1>5
  <2>2. /\ pool' = Drained({a})
        /\ \A id \in Ids : agents'[id] = IF id \in {a} THEN FreeSlot ELSE agents[id]
    BY <2>1, OneSlot DEF Terminate
  <2>3. Drains(Boxes, pool, Boxes', pool', {a}) BY <2>2, EndDrains
  <2> QED BY <2>1, <2>3 DEF OfficeMoves, Terminate
<1>6. CASE \E a \in Ids, m \in got : ResultNoMem(m, a)
  <2>1. PICK a \in Ids, m \in got : ResultNoMem(m, a) BY <1>6
  <2>2. a \in LiveIds /\ HasDel(a, m.id) BY <2>1 DEF ResultNoMem, Delegator, Live, LiveIds
  <2>3. Prepared(agents') BY <2>1, <2>2, ClosedOk DEF ResultNoMem
  <2>4. UNCHANGED Boxes BY <2>3, PreparedKeeps, SameBoxes
  <2> QED BY <2>1, <2>4 DEF OfficeMoves, ResultNoMem, OthersOfPost
<1>7. CASE \/ CastSkip \/ \E a \in Ids, topic \in Topics : Broadcast(a, topic)
           \/ \E t \in Threads : PollGone(t) \/ PollMiss(t)
           \/ \E t \in Threads, a \in Ids : RecvWait(t, a)
  <2>1. UNCHANGED <<agents, pool, nextMsg, got>>
    BY <1>7 DEF CastSkip, Broadcast, PollGone, PollMiss, RecvWait, mailVars
  <2>2. UNCHANGED Boxes BY <2>1, SameBoxes
  <2> QED BY <2>1, <2>2 DEF OfficeMoves
<1>8. CASE \E t \in Threads : Mark(t)
  <2>1. UNCHANGED mailVars /\ \A id \in Ids : agents'[id].inbox = agents[id].inbox
    BY <1>8, MarkKeeps
  <2>2. UNCHANGED Boxes BY <2>1, SameBoxes
  <2> QED BY <2>1, <2>2 DEF OfficeMoves, mailVars
<1>9. CASE Shutdown
  <2>1. LiveIds \in SUBSET Ids BY DEF LiveIds
  <2>2. /\ pool' = Drained(LiveIds)
        /\ \A id \in Ids : agents'[id] = IF id \in LiveIds THEN FreeSlot ELSE agents[id]
    BY <1>9 DEF Shutdown, Live, LiveIds
  <2>3. Drains(Boxes, pool, Boxes', pool', LiveIds) BY <2>1, <2>2, EndDrains
  <2> QED BY <1>9, <2>1, <2>3 DEF OfficeMoves, Shutdown
<1>10. CASE Restart
  <2>1. \A id \in Ids : Boxes'[id] = <<>>
    BY <1>10, BoxTypes DEF Restart, FreeSlot
  <2> QED BY <1>10, <2>1 DEF OfficeMoves, Restart
<1>11. CASE MailNext
  BY <1>3, <1>4, <1>5, <1>6, <1>7, <1>8, <1>11 DEF MailNext, Sending, Poll
<1> QED BY <1>1, <1>2, <1>9, <1>10, <1>11 DEF Next

LEMMA OfficeStep ==
  ASSUME Base, Base', SlotsAgree, PoolOwned, PoolOwned', [Next]_vars
  PROVE  Office!Next \/ UNCHANGED <<Unread, nextMsg, got>>
<1> DEFINE b == Boxes
           c == Boxes'
           q == pool'
<1>1. /\ b \in BoxesType /\ c \in BoxesType /\ pool \in PoolType /\ q \in PoolType
      /\ \A id \in Ids : b[id] = agents[id].inbox
  BY BoxTypes
<1>2. Owned(b, pool) BY PoolOwnedIs
<1>3. Owned(Boxes, pool)' BY PoolOwnedIs, PTL
<1>4. Owned(c, q) BY <1>3 DEF Owned
<1>5. Unread = Reads(b, pool) BY UnreadIs
<1>6. (Unread = Reads(Boxes, pool))' BY UnreadIs, PTL
<1>7. Unread' = Reads(c, q) BY <1>6 DEF Reads
<1> DEFINE x == Unread
           y == Unread'
<1>8. OfficeMoves BY OfficeMovesNext
<1>9. DOMAIN x = Ids /\ \A id \in Ids : Len(x[id]) = Len(b[id])
  BY <1>1, <1>2, <1>5, ReadsOk DEF Unread
<1> HIDE DEF b, c, q, x, y
<1>10. CASE UNCHANGED <<Boxes, pool, nextMsg, got>>
  <2>1. c = b /\ q = pool BY <1>10 DEF b, c, q
  <2>2. y = x BY <1>5, <1>7, <2>1 DEF x, y
  <2> QED BY <1>10, <2>2 DEF x, y
<1>11. ASSUME NEW m \in MsgType, NEW r \in Refs,
              m.to \in Ids, m.id = nextMsg, nextMsg' = nextMsg + 1, UNCHANGED got,
              Puts(b, pool, c, q, m, r)
       PROVE  Office!Next
  <2>1. y = [x EXCEPT ![m.to] = Append(@, m)]
    <3>1. Reads(c, q) = [Reads(b, pool) EXCEPT ![m.to] = Append(@, m)]
      BY <1>1, <1>2, <1>4, <1>11, PutReads
    <3> QED BY <1>5, <1>7, <3>1 DEF x, y
  <2>2. Len(x[m.to]) < InboxSize BY <1>9, <1>11 DEF Puts
  <2>3. Office!Post(m.to, m) BY <1>11, <2>1, <2>2 DEF Office!Post, Office!Numbered, x, y
  <2>4. Len(y[m.to]) \in DOMAIN y[m.to] /\ y[m.to][Len(y[m.to])] = m
    <3>1. x[m.to] \in Seq(MsgType) BY <1>1, <1>2, <1>5, <1>11, ReadsOk DEF x
    <3>2. y[m.to] = Append(x[m.to], m) BY <1>9, <1>11, <2>1
    <3> QED BY <3>1, <3>2
  <2> QED BY <1>11, <2>3, <2>4 DEF Office!Next, y
<1>12. ASSUME NEW m \in MsgType,
              m.to \in Ids, nextMsg' = nextMsg + 1, UNCHANGED <<got, Boxes, pool>>,
              ~HasRoom(m.to)
       PROVE  Office!Next
  <2>1. y = x
    <3>1. c = b /\ q = pool BY <1>12 DEF b, c, q
    <3> QED BY <1>5, <1>7, <3>1 DEF x, y
  <2>2. Len(x[m.to]) >= InboxSize
    <3>1. Len(b[m.to]) \in Nat BY <1>1, <1>12 DEF BoxesType
    <3> QED BY <1>1, <1>9, <1>12, <3>1, MailAssumption DEF HasRoom
  <2>3. Office!Lose(m.to)
    BY <1>12, <2>1, <2>2 DEF Office!Lose, Office!Numbered, x, y
  <2> QED BY <1>12, <2>3 DEF Office!Next
<1>13. ASSUME NEW a \in Ids, Shifts(b, pool, c, q, a),
              got' = got \cup {pool[Head(b[a])]}, UNCHANGED nextMsg
       PROVE  Office!Next
  <2>1. /\ y = [x EXCEPT ![a] = Tail(@)]
        /\ x[a] # <<>> /\ Head(x[a]) = pool[Head(b[a])]
    <3>1. /\ Reads(c, q) = [Reads(b, pool) EXCEPT ![a] = Tail(@)]
          /\ Reads(b, pool)[a] # <<>> /\ Head(Reads(b, pool)[a]) = pool[Head(b[a])]
      BY <1>1, <1>2, <1>4, <1>13, ShiftReads
    <3> QED BY <1>5, <1>7, <3>1 DEF x, y
  <2>2. Office!Collect(a) BY <1>13, <2>1 DEF Office!Collect, x, y
  <2> QED BY <2>2 DEF Office!Next
<1>14. ASSUME NEW ids \in SUBSET Ids, Drains(b, pool, c, q, ids), UNCHANGED <<nextMsg, got>>
       PROVE  Office!Next
  <2>1. y = [id \in Ids |-> IF id \in ids THEN <<>> ELSE x[id]]
    <3>1. Reads(c, q) = [id \in Ids |-> IF id \in ids THEN <<>> ELSE Reads(b, pool)[id]]
      BY <1>1, <1>2, <1>4, <1>14, DrainReads
    <3> QED BY <1>5, <1>7, <3>1 DEF x, y
  <2>2. Office!Close(ids) BY <1>14, <2>1 DEF Office!Close, x, y
  <2> QED BY <2>2 DEF Office!Next
<1>15. ASSUME \A id \in Ids : c[id] = <<>>, nextMsg' = 1, UNCHANGED got
       PROVE  Office!Next
  <2>1. y = [id \in Ids |-> <<>>]
    <3>1. ASSUME NEW id \in Ids PROVE Reads(c, q)[id] = <<>>
      <4>1. Reads(c, q)[id] \in Seq(MsgType) /\ Len(Reads(c, q)[id]) = Len(c[id])
        BY <1>1, <1>4, ReadsOk
      <4> QED BY <1>15, <4>1, Len(<<>>) = 0
    <3>2. Reads(c, q) = [id \in Ids |-> <<>>] BY <3>1 DEF Reads
    <3> QED BY <1>7, <3>2 DEF y
  <2>2. Office!Reopen BY <1>15, <2>1 DEF Office!Reopen, Office!Empty, x, y
  <2> QED BY <2>2 DEF Office!Next
<1> QED BY <1>8, <1>10, <1>11, <1>12, <1>13, <1>14, <1>15 DEF OfficeMoves, b, c, q

\* Inboxes of pointers into a pool act as boxes of messages, whatever is sent,
\* cast, delegated, received and ended (agent/a2a.c).
THEOREM MailIsPostedHolds == Spec => MailIsPosted
  BY OfficeInit, OfficeStep, BaseHolds, SlotsAgreeHolds, PoolOwnedHolds, PTL
        DEF Spec, MailIsPosted, Office!Spec

LEMMA InOrderInit == Init => Office!InOrder
<1> SUFFICES ASSUME Init PROVE Office!InOrder
  OBVIOUS
<1>1. \A id \in Ids : Unread[id] = <<>> BY OfficeInit DEF Office!Init, Office!Empty
<1>2. DOMAIN <<>> = {} OBVIOUS
<1> QED BY <1>1, <1>2 DEF Office!InOrder

\* A box before and after a step; the numbers handed out before are below n.
BoxSteps(x, y, a, n, l) ==
    \/ y = x \/ y = <<>>
    \/ x # <<>> /\ y = Tail(x)
    \/ \E m \in MsgType : m.to = a /\ m.id = n /\ n < l /\ y = Append(x, m)

LEMMA BoxInOrder ==
  ASSUME NEW x \in Seq(MsgType), NEW y, NEW a \in Ids, NEW n \in Nat, NEW l \in Nat, n <= l,
         \A k \in DOMAIN x : /\ x[k].to = a /\ x[k].id < n
                            /\ \A j \in 1 .. k - 1 : x[j].id < x[k].id,
         BoxSteps(x, y, a, n, l),
         NEW k \in DOMAIN y
  PROVE  /\ y[k].to = a /\ y[k].id < l
         /\ \A j \in 1 .. k - 1 : y[j].id < y[k].id
<1>1. DOMAIN x = 1 .. Len(x) /\ Len(x) \in Nat /\ \A i \in 1 .. Len(x) : x[i].id \in Nat
  <2>1. \A i \in 1 .. Len(x) : x[i] \in MsgType BY ElementsOf
  <2>2. \A m \in MsgType : m.id \in Nat BY DEF MsgType
  <2> QED BY <2>1, <2>2
<1>6. \A i \in DOMAIN x : /\ x[i].to = a /\ x[i].id < n
                         /\ \A j \in 1 .. i - 1 : x[j].id < x[i].id
  OBVIOUS
<1>7. n \in Nat /\ l \in Nat /\ n <= l OBVIOUS
<1>2. CASE y = x
  <2>1. k \in DOMAIN x BY <1>2
  <2>2. x[k].to = a /\ x[k].id < n /\ \A j \in 1 .. k - 1 : x[j].id < x[k].id
    BY <1>6, <2>1
  <2>3. x[k].id < l BY <1>1, <1>7, <2>1, <2>2
  <2> QED BY <1>2, <2>2, <2>3
<1>3. CASE y = <<>> BY <1>3
<1>4. CASE x # <<>> /\ y = Tail(x)
  <2>1. /\ DOMAIN y = 1 .. Len(x) - 1
        /\ \A i \in 1 .. Len(x) - 1 : y[i] = x[i + 1] /\ i + 1 \in 1 .. Len(x)
    BY <1>4
  <2>2. k \in 1 .. Len(x) - 1 /\ y[k] = x[k + 1] /\ k + 1 \in DOMAIN x BY <1>1, <2>1
  <2>3. ASSUME NEW j \in 1 .. k - 1 PROVE y[j].id < y[k].id
    <3>1. j \in 1 .. Len(x) - 1 /\ j + 1 \in 1 .. (k + 1) - 1 BY <1>1, <2>2
    <3>2. y[j] = x[j + 1] BY <2>1, <3>1
    <3> QED BY <2>2, <3>1, <3>2
  <2> QED BY <1>1, <2>2, <2>3
<1>5. CASE \E m \in MsgType : m.to = a /\ m.id = n /\ n < l /\ y = Append(x, m)
  <2>1. PICK m \in MsgType : m.to = a /\ m.id = n /\ n < l /\ y = Append(x, m) BY <1>5
  <2>2. /\ DOMAIN y = 1 .. Len(x) + 1 /\ y[Len(x) + 1] = m
        /\ \A i \in 1 .. Len(x) : y[i] = x[i]
    BY <2>1
  <2>3. CASE k = Len(x) + 1
    <3>1. \A j \in 1 .. k - 1 : j \in DOMAIN x /\ y[j] = x[j] BY <1>1, <2>2, <2>3
    <3>2. \A j \in 1 .. k - 1 : y[j].id < n BY <1>6, <3>1
    <3>3. y[k] = m BY <2>2, <2>3
    <3> QED BY <2>1, <3>2, <3>3
  <2>4. CASE k \in 1 .. Len(x)
    <3>1. \A j \in 1 .. k - 1 : y[j] = x[j] BY <1>1, <2>2, <2>4
    <3>2. y[k] = x[k] /\ k \in DOMAIN x /\ x[k].id \in Nat BY <1>1, <2>2, <2>4
    <3>3. x[k].to = a /\ x[k].id < n /\ \A j \in 1 .. k - 1 : x[j].id < x[k].id
      BY <1>6, <3>2
    <3>4. x[k].id < l BY <1>7, <3>2, <3>3
    <3> QED BY <3>1, <3>2, <3>3, <3>4
  <2> QED BY <1>1, <2>2, <2>3, <2>4
<1> QED BY <1>2, <1>3, <1>4, <1>5 DEF BoxSteps

LEMMA InOrderStep ==
  ASSUME Base, Base', PoolOwned, Office!InOrder,
         Office!Next \/ UNCHANGED <<Unread, nextMsg, got>>
  PROVE  Office!InOrder'
<1> DEFINE x == Unread
           y == Unread'
<1>1. nextMsg \in Nat /\ nextMsg' \in Nat BY DEF Base, MailTypes
<1>2. DOMAIN x = Ids /\ \A id \in Ids : x[id] \in Seq(MsgType)
  BY BoxTypes, PoolOwnedIs, UnreadIs, ReadsOk DEF Unread
<1>3. \A id \in Ids : \A k \in DOMAIN x[id] :
         /\ x[id][k].to = id /\ x[id][k].id < nextMsg
         /\ \A j \in 1 .. k - 1 : x[id][j].id < x[id][k].id
  BY DEF Office!InOrder
<1> HIDE DEF x, y
<1>4. ASSUME NEW id \in Ids
      PROVE  \/ y[id] = <<>>
             \/ nextMsg <= nextMsg' /\ BoxSteps(x[id], y[id], id, nextMsg, nextMsg')
  <2>1. CASE UNCHANGED <<Unread, nextMsg, got>> BY <1>1, <2>1 DEF BoxSteps, x, y
  <2>2. CASE \E a \in Ids : \E m : Office!Post(a, m)
    <3>1. PICK a, m : a \in Ids /\ Office!Post(a, m) BY <2>2
    <3>2. /\ m \in MsgType /\ m.id = nextMsg /\ m.to = a /\ nextMsg' = nextMsg + 1
          /\ y = [x EXCEPT ![a] = Append(@, m)]
      BY <3>1 DEF Office!Post, Office!Numbered, x, y
    <3>3. CASE id = a
      <4>1. y[id] = Append(x[id], m) BY <1>2, <3>2, <3>3
      <4>2. nextMsg < nextMsg' BY <1>1, <3>2
      <4> QED BY <1>1, <3>2, <3>3, <4>1, <4>2 DEF BoxSteps
    <3>4. CASE id # a
      <4>1. y[id] = x[id] BY <1>2, <3>2, <3>4
      <4> QED BY <1>1, <3>2, <4>1 DEF BoxSteps
    <3> QED BY <3>3, <3>4
  <2>3. CASE \E a \in Ids : Office!Lose(a)
    BY <1>1, <2>3 DEF Office!Lose, Office!Numbered, BoxSteps, x, y
  <2>4. CASE \E a \in Ids : Office!Collect(a)
    <3>1. PICK a \in Ids : /\ x[a] # <<>> /\ y = [x EXCEPT ![a] = Tail(@)]
                           /\ nextMsg' = nextMsg
      BY <2>4 DEF Office!Collect, x, y
    <3> QED BY <1>1, <1>2, <3>1 DEF BoxSteps
  <2>5. CASE \E ended \in SUBSET Ids : Office!Close(ended)
    <3>1. PICK ended \in SUBSET Ids :
             /\ y = [a \in Ids |-> IF a \in ended THEN <<>> ELSE x[a]]
             /\ nextMsg' = nextMsg
      BY <2>5 DEF Office!Close, x, y
    <3> QED BY <1>1, <3>1 DEF BoxSteps
  <2>6. CASE Office!Reopen BY <2>6 DEF Office!Reopen, Office!Empty, y
  <2> QED BY <2>1, <2>2, <2>3, <2>4, <2>5, <2>6 DEF Office!Next
<1>5. ASSUME NEW id \in Ids, NEW k \in DOMAIN y[id]
      PROVE  /\ y[id][k].to = id /\ y[id][k].id < nextMsg'
             /\ \A j \in 1 .. k - 1 : y[id][j].id < y[id][k].id
  <2>1. CASE y[id] = <<>> BY <2>1
  <2>2. CASE y[id] # <<>>
    <3>1. nextMsg <= nextMsg' /\ BoxSteps(x[id], y[id], id, nextMsg, nextMsg')
      BY <1>4, <2>2
    <3>2. x[id] \in Seq(MsgType) BY <1>2
    <3>3. \A i \in DOMAIN x[id] : /\ x[id][i].to = id /\ x[id][i].id < nextMsg
                                 /\ \A j \in 1 .. i - 1 : x[id][j].id < x[id][i].id
      BY <1>3
    <3> QED BY <1>1, <3>1, <3>2, <3>3, BoxInOrder
  <2> QED BY <2>1, <2>2
<1> QED BY <1>5 DEF Office!InOrder, y

\* The messages that wait for an agent are addressed to it, stand in the order
\* in which they were numbered, whoever sent them, and none waits twice
\* (inbox_enqueue, inbox_dequeue).
THEOREM MailInOrder == Spec => []Office!InOrder
  BY InOrderInit, InOrderStep, MailIsPostedHolds, BaseHolds, PoolOwnedHolds, PTL
     DEF Spec, MailIsPosted, Office!Spec
=============================================================================
