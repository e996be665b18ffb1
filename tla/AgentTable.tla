----------------------------- MODULE AgentTable -----------------------------
(***************************************************************************)
(* The agent table of agent/agent.c with the rights of agent/capability.c: *)
(* slots keyed by agent ID, the ID bitmap, and the calls that act on one   *)
(* slot.                                                                   *)
(*                                                                         *)
(* Every call runs under the global spinlock g_agent_lock, so it is one    *)
(* step; a call that gives the lock back and takes it again is several     *)
(* steps, and what it remembers in between is a frame of its thread.  A    *)
(* slice of an agent's program (flux_agent_run) keeps the lock while it    *)
(* executes, and so does a broadcast from its first subscriber to its last;*)
(* each iteration of their loops is a step.  The lock is taken exactly when*)
(* `slice' or `cast' says so.                                              *)
(***************************************************************************)
EXTENDS Integers, Sequences, FiniteSets

CONSTANTS AgentMax,   \* FLUX_AGENT_MAX
          MaxAgents,  \* config.max_agents
          Rights,     \* the rights that are told apart in a run
          Threads,    \* threads that can be in a call of several sections
          SpawnCaps,  \* the rights flux_agent_spawn is given in a run
          ApiCalls    \* the calls that are made in a run

ASSUME AgentAssumption ==
    /\ AgentMax \in Nat \ {0}
    /\ MaxAgents \in 0 .. AgentMax    \* flux_agent_init clamps it
    /\ Rights \subseteq {"COMMUNICATE", "IO", "SUPERVISOR"}
    /\ SpawnCaps \subseteq SUBSET Rights

NoId == 0                             \* FLUX_AGENT_ID_INVALID
FirstId == 4                          \* 0 to 3 are reserved
Ids == FirstId .. FirstId + AgentMax - 1

AgentStates == {"CREATED", "IDLE", "THINKING", "WAITING", "DELEGATING",
                "TERMINATED", "FAILED"}
Final == {"TERMINATED", "FAILED"}

VmStates == {"IDLE", "RUNNING", "HALTED", "TRAPPED", "ERROR", "WAITING"}

\* What agent_slot_cleanup leaves behind.
FreeSlot ==
    [active |-> FALSE, state |-> "CREATED", paused |-> FALSE, caps |-> {},
     vm |-> "IDLE", cpu |-> 0, io |-> 0, over |-> FALSE,
     inbox |-> <<>>, dels |-> <<>>, names |-> {}]

\* The slot of a new agent: its VM is loaded, its one memory region is as
\* large as its limit, its inbox and its lists are empty.
SpawnedSlot(caps) == [FreeSlot EXCEPT !.active = TRUE, !.caps = caps]

NoSlice == [id |-> NoId, left |-> 0, sched |-> FALSE]
NoCast == [from |-> NoId, rest |-> <<>>]
NoFrame == [pc |-> "idle", id |-> NoId, caps |-> {}]

VARIABLES
    initialized,   \* g_agent_rt.initialized
    agents,        \* g_agent_rt.agents
    bitmap,        \* IDs whose bit is set in g_agent_rt.agent_bitmap
    frame,         \* per thread: the call it is in between lock sections
    slice,         \* the locals of the flux_agent_run that holds the lock
    cast           \* those of the flux_a2a_broadcast that holds it

held == <<slice, cast>>

tableVars == <<initialized, agents, bitmap, frame, held>>

\* Variant: no ID is kept back.
NothingReserved == {}

\* The bitmap of flux_agent_init, with the bit of the first ID set.
Reserved == {FirstId}

TableInit ==
    /\ initialized = TRUE
    /\ agents = [id \in Ids |-> FreeSlot]
    /\ bitmap = Reserved
    /\ frame = [t \in Threads |-> NoFrame]
    /\ slice = NoSlice
    /\ cast = NoCast

Unlocked == slice = NoSlice /\ cast = NoCast

\* agent_slot_by_id: only active slots are found.
Live(id) == id \in Ids /\ agents[id].active

LiveIds == {id \in Ids : agents[id].active}

\* A call is made by some thread that is in no other call, and gets the lock.
Api(call) == call \in ApiCalls /\ initialized /\ Unlocked

-----------------------------------------------------------------------------
(* Lifecycle.                                                               *)

\* flux_agent_spawn reads the number of agents before it takes the lock.
SpawnCheck(t, caps) ==
    /\ "spawn" \in ApiCalls /\ initialized
    /\ frame[t] = NoFrame
    /\ Cardinality(LiveIds) < MaxAgents
    /\ frame' = [frame EXCEPT ![t] = [pc |-> "spawn", id |-> NoId, caps |-> caps]]
    /\ UNCHANGED <<initialized, agents, bitmap, held>>

FreeIds == Ids \ bitmap

\* agent_alloc_id takes the first zero bit.
FirstFree(id) == id \in FreeIds /\ \A other \in FreeIds : id <= other

\* The locked part of flux_agent_spawn, when an ID is free ...
SpawnDo(t, id) ==
    /\ frame[t].pc = "spawn" /\ Unlocked
    /\ FirstFree(id)
    /\ bitmap' = bitmap \cup {id}
    /\ agents' = [agents EXCEPT ![id] = SpawnedSlot(frame[t].caps)]
    /\ frame' = [frame EXCEPT ![t] = NoFrame]
    /\ UNCHANGED <<initialized, held>>

\* ... and when none is, or there is no memory for the program.
SpawnFailed(t) ==
    /\ frame[t].pc = "spawn" /\ Unlocked
    /\ frame' = [frame EXCEPT ![t] = NoFrame]
    /\ UNCHANGED <<initialized, agents, bitmap, held>>

\* flux_agent_pause: a running VM is halted.
Pause(id) ==
    /\ Api("pause")
    /\ Live(id) /\ agents[id].state \notin Final /\ ~agents[id].paused
    /\ agents' = [agents EXCEPT ![id].paused = TRUE,
                                ![id].vm = IF @ = "RUNNING" THEN "HALTED" ELSE @]
    /\ UNCHANGED <<initialized, bitmap, frame, held>>

\* flux_agent_resume: only of a THINKING agent is the VM made ready again.
Resume(id) ==
    /\ Api("pause")
    /\ Live(id) /\ agents[id].paused
    /\ agents' = [agents EXCEPT ![id].paused = FALSE,
                                ![id].vm = IF agents[id].state = "THINKING"
                                           THEN "IDLE" ELSE @]
    /\ UNCHANGED <<initialized, bitmap, frame, held>>

\* agent_free_id.
Freed(id) == bitmap \ {id}

-----------------------------------------------------------------------------
(* Rights.                                                                  *)

SetCaps(id, caps) ==
    /\ agents' = [agents EXCEPT ![id].caps = caps]
    /\ UNCHANGED <<initialized, bitmap, frame, held>>

\* flux_agent_grant_cap; the caller is trusted.
Grant(id, right) ==
    /\ Api("grant") /\ Live(id)
    /\ SetCaps(id, agents[id].caps \cup {right})

\* flux_agent_revoke_cap.
Revoke(id, right) ==
    /\ Api("revoke") /\ Live(id)
    /\ SetCaps(id, agents[id].caps \ {right})

\* Variant: the right is copied, not moved.
MovedCopies(from, to, rights) ==
    [agents EXCEPT ![to].caps = @ \cup rights]

\* The two sides of flux_agent_transfer_cap.
Moved(from, to, rights) ==
    [agents EXCEPT ![from].caps = @ \ rights, ![to].caps = @ \cup rights]

\* flux_agent_transfer_cap.
Transfer(from, to, rights) ==
    /\ Api("transfer")
    /\ rights # {} /\ "SUPERVISOR" \notin rights
    /\ Live(from) /\ Live(to) /\ from # to
    /\ rights \subseteq agents[from].caps
    /\ agents' = Moved(from, to, rights)
    /\ UNCHANGED <<initialized, bitmap, frame, held>>

\* flux_agent_inherit_caps.
Inherit(parent, child) ==
    /\ Api("inherit")
    /\ Live(parent) /\ Live(child)
    /\ SetCaps(child, agents[parent].caps)

TableNext ==
    \/ \E t \in Threads :
          \/ \E caps \in SpawnCaps : SpawnCheck(t, caps)
          \/ \E id \in Ids : SpawnDo(t, id)
          \/ SpawnFailed(t)
    \/ \E id \in Ids :
          \/ Pause(id) \/ Resume(id)
          \/ \E right \in Rights : Grant(id, right) \/ Revoke(id, right)
          \/ \E other \in Ids :
                \/ \E rights \in SUBSET Rights : Transfer(id, other, rights)
                \/ Inherit(id, other)
=============================================================================
