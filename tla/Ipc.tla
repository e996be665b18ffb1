-------------------------------- MODULE Ipc --------------------------------
(***************************************************************************)
(* The A2A messaging of kernel/ipc.c over the scheduler: one inbox per PID *)
(* of the table, the message sequence counter and the receivers that wait. *)
(*                                                                         *)
(* An inbox is the sequence of its pending messages; InboxRing shows that  *)
(* the circular buffer the code keeps implements that sequence.  A message *)
(* carries its sequence number, sender and target; its payload is not      *)
(* modelled.                                                               *)
(*                                                                         *)
(* flux_a2a_recv waits in a loop inside the call.  waiter[i] is the part   *)
(* of the frame of that call which the loop reads, for the process in slot *)
(* i.  The loop runs when its process has the CPU.                         *)
(***************************************************************************)
EXTENDS Sched, SequencesExt

CONSTANTS QueueDepth,  \* FLUX_IPC_QUEUE_DEPTH
          MaxMsgs,     \* bound: messages sent in a run
          Timeouts     \* the timeouts receivers pass, in ticks

ASSUME IpcAssumption ==
    /\ QueueDepth \in Nat \ {0}
    /\ MaxMsgs \in Nat
    /\ Timeouts \in SUBSET Nat

VARIABLES
    inbox,   \* s_queues, by PID
    msgId,   \* s_global_msg_id
    waiter   \* blocked flux_a2a_recv calls, by slot

ipcVars == <<inbox, msgId, waiter>>

FOREVER == -1     \* FLUX_IPC_TIMEOUT_INFINITE

Inboxes == 1 .. MaxProcs

MsgType == [id: Nat, from: Nat, to: Nat]

WaiterType == [pid: Nat, filter: Nat, left: Nat \cup {FOREVER}]

NoWaiter == [pid |-> INVALID, filter |-> INVALID, left |-> 0]

\* flux_ipc_init.
IpcInit ==
    /\ inbox = [p \in Inboxes |-> <<>>]
    /\ msgId = 0
    /\ waiter = [i \in Slots |-> NoWaiter]

-----------------------------------------------------------------------------

\* ipc_get_queue(pid) # NULL.
HasInbox(pid) == pid \in Inboxes

\* Variant: the capacity check is off by one.
IsFullLate(q) == Len(q) > QueueDepth

\* ipc_queue_is_full.
IsFull(q) == Len(q) >= QueueDepth

Msg(from, to) == [id |-> msgId, from |-> from, to |-> to]

Matches(m, filter) == filter = INVALID \/ m.from = filter

\* A receive finds a message.
HasMatch(q, filter) == \E k \in DOMAIN q : Matches(q[k], filter)

\* Variant: the newest matching message is taken.
IsNewestMatch(q, filter, k) ==
    /\ Matches(q[k], filter)
    /\ \A j \in DOMAIN q : Matches(q[j], filter) => j <= k

\* Message k is the oldest one that matches.
IsFirstMatch(q, filter, k) ==
    /\ Matches(q[k], filter)
    /\ \A j \in DOMAIN q : Matches(q[j], filter) => k <= j

\* Process pid takes its first match; ipc_remove_message closes the gap.
TakeMatch(pid, filter) ==
    \E k \in DOMAIN inbox[pid] :
        /\ IsFirstMatch(inbox[pid], filter, k)
        /\ inbox' = [inbox EXCEPT ![pid] = RemoveAt(@, k)]

\* One tick of every waiting call's clock.
Elapsed(w) ==
    [i \in Slots |-> [w[i] EXCEPT !.left = IF @ > 0 THEN @ - 1 ELSE @]]

\* The process leaves its call: it returned, or it is gone.
Forget(i) == waiter' = [waiter EXCEPT ![i] = NoWaiter]

\* Variant: a send leaves a blocked receiver asleep.
WokenBySendNever(p) == FALSE

\* flux_a2a_send wakes a target in one of these states.
WokenBySend(p) == p.state \in {"BLOCKED", "AGENT_IDLE"}

Woken(p) == [p EXCEPT !.state = "READY", !.waiting = INVALID]

-----------------------------------------------------------------------------
(* flux_a2a_broadcast visits the PIDs in ascending order.                   *)

BroadcastTargets(sender) ==
    {p \in Inboxes \ {INVALID, KERNEL} :
        /\ Exists(pcb, p)
        /\ pcb[SlotOf(p)].agent
        /\ p # sender
        /\ ~IsFull(inbox[p])}

\* Only idle agents are woken, and waiting_for is left as it was.
BroadcastWoken(sender) ==
    {p \in BroadcastTargets(sender) : pcb[SlotOf(p)].state = "AGENT_IDLE"}

BroadcastPcb(sender) ==
    [i \in Slots |-> IF \E p \in BroadcastWoken(sender) : SlotOf(p) = i
                     THEN [pcb[i] EXCEPT !.state = "READY"] ELSE pcb[i]]

\* Variant: the woken agents are not given to the scheduler.
BroadcastRingForgets(sender) == ring

\* The woken agents pushed in ascending order while the ring has room.
BroadcastRing(sender) ==
    LET new     == BroadcastWoken(sender) \ QueuedPids(ring)
        rank(p) == Cardinality({q \in new : q < p})
        added   == {p \in new : ring.count + rank(p) < QueueSize}
        place(p) == (ring.tail + rank(p)) % QueueSize
    IN  [slots |-> [i \in RingIdx |->
                       IF \E p \in added : place(p) = i
                       THEN LET p == CHOOSE p \in added : place(p) = i
                            IN  EntryFor(BroadcastPcb(sender)[SlotOf(p)], p)
                       ELSE ring.slots[i]],
         head  |-> ring.head,
         tail  |-> (ring.tail + Cardinality(added)) % QueueSize,
         count |-> ring.count + Cardinality(added)]
=============================================================================
