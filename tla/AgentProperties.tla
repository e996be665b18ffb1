-------------------------- MODULE AgentProperties --------------------------
(***************************************************************************)
(* What the agent runtime is supposed to keep: properties of AgentRuntime. *)
(***************************************************************************)
EXTENDS AgentRuntime

MsgType == [id: Nat \ {0}, kind: Kinds, from: Ids, to: Ids, re: Nat]

SlotType ==
    [active: BOOLEAN, state: AgentStates, paused: BOOLEAN, caps: SUBSET Rights,
     vm: VmStates, cpu: Nat, io: Nat, over: BOOLEAN, inbox: Seq(Refs),
     dels: Seq([msg: Nat, to: Ids, open: BOOLEAN]), names: SUBSET Names]

\* The type invariant of the runtime state (g_agent_rt) and of the frames of
\* the calls under way.
AgentTypeOK ==
    /\ initialized \in BOOLEAN
    /\ agents \in [Ids -> SlotType]
    /\ bitmap \subseteq Ids
    /\ frame \in [Threads -> [pc: {"idle", "spawn", "poll", "mark"},
                              id: Ids \cup {NoId}, caps: SUBSET Rights]]
    /\ slice \in [id: Ids \cup {NoId}, left: Nat, sched: BOOLEAN]
    /\ cast \in [from: Ids \cup {NoId}, rest: Seq(Ids)]
    /\ pool \in [Refs -> MsgType \cup {NoMsg}]
    /\ nextMsg \in Nat
    /\ got \subseteq MsgType
    /\ pubs \in [1 .. PubMax -> [active: BOOLEAN, name: Names \cup {""},
                                 id: Ids \cup {NoId}]]
    /\ numPubs \in 0 .. PubMax
    /\ DOMAIN topics \subseteq Topics
    /\ \A topic \in DOMAIN topics : topics[topic] \in Seq(Ids)
    /\ sched \in [pc: {"idle", "scan", "fetch", "run", "slice"},
                  round: Nat, i: 0 .. AgentMax, found: BOOLEAN,
                  pick: Ids \cup {NoId}]
    /\ cursor \in 0 .. AgentMax - 1

-----------------------------------------------------------------------------
(* Table.                                                                   *)

\* Through spawns that check before they lock, terminations, shutdowns and
\* restarts: an agent has the bit of its ID, so the ID is not handed out while
\* the agent lives; a bit that is set has an agent, or is the reserved one;
\* a free slot carries nothing of its last agent (agent_slot_cleanup).
SlotsAgree ==
    /\ LiveIds \subseteq bitmap
    /\ bitmap \subseteq LiveIds \cup {FirstId}
    /\ initialized => FirstId \in bitmap \ LiveIds
    /\ \A id \in Ids \ LiveIds : agents[id] = FreeSlot

\* Regime: no grants.  A right that a live agent gains comes from another agent
\* that has it: either the agent now has all the rights of that agent, who
\* keeps them (flux_agent_inherit_caps), or the other one loses the right, which
\* then is not SUPERVISOR (flux_agent_transfer_cap: "Moves the specified
\* capability bits").  Nothing is invented, whatever agents end and IDs are
\* reused in between.
RightsMove ==
    [][\A right \in Rights, to \in Ids :
          /\ agents[to].active
          /\ right \in agents'[to].caps \ agents[to].caps
          => \E from \in Ids \ {to} :
                /\ right \in agents[from].caps
                /\ \/ agents'[to].caps = agents[from].caps
                         /\ agents'[from] = agents[from]
                   \/ right \notin agents'[from].caps /\ right # "SUPERVISOR"]_vars

-----------------------------------------------------------------------------
(* Messages.                                                                *)

\* The places in inboxes.
Places == {p \in Ids \X (1 .. InboxSize) : p[2] <= Len(agents[p[1]].inbox)}

RefAt(p) == agents[p[1]].inbox[p[2]]

\* A message that is allocated is in exactly one place of one inbox, that of
\* its target: on no path through a send, a broadcast, a delegation that does
\* not fit, a receive or the end of an agent is a message leaked, freed while
\* it is queued, or queued twice.
PoolOwned ==
    /\ \A id \in Ids : Len(agents[id].inbox) <= InboxSize
    /\ \A p \in Places : pool[RefAt(p)] # NoMsg /\ pool[RefAt(p)].to = p[1]
    /\ \A p, q \in Places : RefAt(p) = RefAt(q) => p = q
    /\ \A r \in Refs : pool[r] # NoMsg => \E p \in Places : RefAt(p) = r

\* The unread messages of each agent, as the references in its inbox lead to
\* them.
Unread == [id \in Ids |-> [k \in DOMAIN agents[id].inbox |-> pool[agents[id].inbox[k]]]]

Office == INSTANCE PostOffice
          WITH Agents <- Ids, Depth <- InboxSize, Messages <- MsgType,
               boxes <- Unread, number <- nextMsg, read <- got

\* Inboxes of pointers into a pool whose slots are used again (msg_pool_alloc,
\* inbox_enqueue, msg_pool_free) act as boxes of messages: whatever is sent,
\* cast, delegated, received and ended in between, a message that waits is
\* never overwritten, and a receive returns the oldest one as it was sent.
MailIsPosted == Office!Spec

\* A RESULT waits only in the inbox of an agent that delegated the task it
\* answers, and that task's record is closed: neither a record that is cleared
\* when its agent ends nor a reused ID lets a result reach somebody else.
ResultsAnswer ==
    \A p \in Places :
        pool[RefAt(p)].kind = "RESULT" =>
            \E k \in DOMAIN agents[p[1]].dels :
                /\ agents[p[1]].dels[k].msg = pool[RefAt(p)].re
                /\ ~agents[p[1]].dels[k].open

\* Mail does not lie unread while a receive waits for it: the waiting loop
\* takes it, or somebody else does.
MailIsRead ==
    \A t \in Threads, id \in Ids :
        /\ frame[t].pc \in {"poll", "mark"} /\ frame[t].id = id
        /\ agents[id].inbox # <<>>
        ~> frame[t] = NoFrame \/ agents[id].inbox = <<>>

-----------------------------------------------------------------------------
(* Registry.                                                                *)

\* A name is published once; a search, which looks below num_pub_caps, sees
\* every entry; what an agent has in its own list is published under its ID,
\* also after another agent had that ID; and nobody is subscribed to a topic
\* twice, so a broadcast reaches each subscriber once.
RegistryConsistent ==
    /\ \A i, j \in 1 .. PubMax :
          pubs[i].active /\ pubs[j].active /\ pubs[i].name = pubs[j].name => i = j
    /\ initialized => \A i \in 1 .. PubMax : pubs[i].active => i <= numPubs
    /\ \A id \in Ids : \A name \in agents[id].names :
          \E i \in 1 .. PubMax : pubs[i] = [active |-> TRUE, name |-> name, id |-> id]
    /\ \A topic \in DOMAIN topics : IsInjective(topics[topic])

-----------------------------------------------------------------------------
(* Execution.                                                               *)

\* No agent uses more ticks or more I/O operations than its limits, whoever
\* runs it, by slices or by single steps.
LimitsKept ==
    \A id \in Ids :
        /\ MaxCpu # 0 => agents[id].cpu <= MaxCpu
        /\ MaxIo # 0 => agents[id].io <= MaxIo

\* While an agent is paused nothing of its execution changes, although the
\* scheduler picks an agent before, and runs it after, the lock was free.
PausedFrozen ==
    [][\A id \in Ids :
          agents[id].paused /\ agents'[id].paused =>
             /\ agents'[id].vm = agents[id].vm
             /\ agents'[id].cpu = agents[id].cpu /\ agents'[id].io = agents[id].io]_vars

\* Regime: no delegation.  An agent that has terminated or failed stays so
\* until its slot is freed; the scheduler, which picked it before, a message
\* to it or a receive that waits in its name do not revive it.
FinalStays ==
    [][\A id \in Ids :
          agents[id].state \in Final /\ agents'[id].active
          => agents'[id].state = agents[id].state]_vars

\* flux_agent_schedule returns, whatever the agents do meanwhile (its comment:
\* "Prevent infinite scheduling").
ScheduleReturns == sched # NoSched ~> sched = NoSched
=============================================================================
