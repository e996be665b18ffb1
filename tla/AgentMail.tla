----------------------------- MODULE AgentMail -----------------------------
(***************************************************************************)
(* Agent-to-agent messaging of agent/a2a.c: the message pool, the inboxes  *)
(* of message pointers, delegation, and the receive that waits.            *)
(*                                                                         *)
(* A pointer is a reference: 1 .. PoolSize are the slots of the pool, the  *)
(* next HeapSize are the heap it falls back to.  An inbox is the sequence  *)
(* of references its ring holds.  Time is not modelled: a poll of a        *)
(* waiting receive that finds nothing may be the last one.                 *)
(***************************************************************************)
EXTENDS Discovery

CONSTANTS PoolSize,   \* FLUX_MSG_POOL_SIZE
          HeapSize,   \* messages that calloc has room for
          InboxSize,  \* FLUX_INBOX_SIZE
          MaxDels,    \* the limit of delegations of an agent (16)
          MaxMsgs     \* bound: message numbers handed out in a behaviour

ASSUME MailAssumption ==
    PoolSize \in Nat /\ HeapSize \in Nat /\ InboxSize \in Nat /\ MaxDels \in Nat
    /\ MaxMsgs \in Nat

Refs == 1 .. PoolSize + HeapSize

Kinds == {"TELL", "EVENT", "REPLY", "DELEGATE", "RESULT"}
NoMsg == [id |-> 0, kind |-> "NONE", from |-> NoId, to |-> NoId, re |-> 0]

VARIABLES
    pool,      \* the messages references lead to, NoMsg when free
    nextMsg,   \* g_agent_rt.next_msg_id
    got        \* copies of messages that receives have returned

mailVars == <<pool, nextMsg, got>>

MailInit ==
    /\ pool = [r \in Refs |-> NoMsg]
    /\ nextMsg = 1
    /\ got = {}

MayPost(call) == Api(call) /\ nextMsg <= MaxMsgs

-----------------------------------------------------------------------------
(* Pool and inboxes.                                                        *)

\* Variant: nobody looks whether a slot is in use.
AllocatesFirst(r) == r \in Refs /\ \A q \in Refs : r <= q

\* msg_pool_alloc: the first free slot of the pool, then the heap.
Allocates(r) ==
    /\ r \in Refs /\ pool[r] = NoMsg
    /\ \A q \in Refs : q < r => pool[q] # NoMsg

Exhausted == \A r \in Refs : pool[r] # NoMsg

Message(kind, from, to, re) ==
    [id |-> nextMsg, kind |-> kind, from |-> from, to |-> to, re |-> re]

HasRoom(to) == Len(agents[to].inbox) < InboxSize

\* The inbox takes the reference, and an agent that sleeps in one of the
\* given states becomes IDLE.
Delivered(table, to, r, asleep) ==
    [table EXCEPT ![to].inbox = Append(@, r),
                  ![to].state = IF @ \in asleep THEN "IDLE" ELSE @]

\* Variant: a message that does not fit is not given back.
PooledLeaks(r, m) == [pool EXCEPT ![r] = m]

\* The pool after a message was filled in and offered to its inbox: a
\* message that does not fit is freed at once.
Pooled(r, m) == IF HasRoom(m.to) THEN [pool EXCEPT ![r] = m] ELSE pool

\* Fill in, enqueue, or free again; the number is used up either way.
\* `done' is the table the call makes on success before the delivery,
\* `failed' the one it leaves when the inbox is full.
Post(m, done, failed, asleep) ==
    \E r \in Refs :
       /\ Allocates(r)
       /\ nextMsg' = nextMsg + 1
       /\ pool' = Pooled(r, m)
       /\ agents' = IF HasRoom(m.to) THEN Delivered(done, m.to, r, asleep)
                                     ELSE failed

CanSpeak(id) == Live(id) /\ "COMMUNICATE" \in agents[id].caps

OthersOfPost == <<initialized, bitmap, frame, slice, discVars, got>>

\* flux_a2a_send.
Send(from, to) ==
    /\ MayPost("send")
    /\ CanSpeak(from) /\ Live(to) /\ from # to
    /\ Post(Message("TELL", from, to, 0), agents, agents, {"WAITING"})
    /\ UNCHANGED <<OthersOfPost, cast>>

\* flux_a2a_reply to a message some receive returned.
Reply(m) ==
    /\ MayPost("reply")
    /\ CanSpeak(m.to) /\ Live(m.from)
    /\ Post(Message("REPLY", m.to, m.from, m.id), agents, agents, {"WAITING"})
    /\ UNCHANGED <<OthersOfPost, cast>>

-----------------------------------------------------------------------------
(* Broadcast.                                                               *)

\* flux_a2a_broadcast up to its loop.
Broadcast(from, topic) ==
    /\ MayPost("broadcast")
    /\ CanSpeak(from)
    /\ Subscribers(topic) # <<>>
    /\ cast' = [from |-> from, rest |-> Subscribers(topic)]
    /\ UNCHANGED <<initialized, agents, bitmap, frame, slice, discVars, mailVars>>

NextSub == Head(cast.rest)

CastOn == cast' = IF Tail(cast.rest) = <<>> THEN NoCast
                  ELSE [cast EXCEPT !.rest = Tail(@)]

\* One iteration: the sender, agents that are gone and subscribers for whom
\* no message can be allocated are passed over.
CastSkip ==
    /\ cast # NoCast
    /\ NextSub = cast.from \/ ~Live(NextSub) \/ Exhausted
    /\ CastOn
    /\ UNCHANGED <<initialized, agents, bitmap, frame, slice, discVars, mailVars>>

CastPost ==
    /\ cast # NoCast
    /\ NextSub # cast.from /\ Live(NextSub)
    /\ Post(Message("EVENT", cast.from, NextSub, 0), agents, agents, {"WAITING"})
    /\ CastOn
    /\ UNCHANGED OthersOfPost

-----------------------------------------------------------------------------
(* Delegation.                                                              *)

\* The table after a delegation was recorded: records are only appended.
Recorded(from, to) ==
    [agents EXCEPT
        ![from].dels = Append(@, [msg |-> nextMsg, to |-> to, open |-> TRUE]),
        ![from].state = "DELEGATING"]

\* flux_a2a_delegate.
Delegate(from, to) ==
    /\ MayPost("delegate")
    /\ CanSpeak(from) /\ Live(to) /\ from # to
    /\ Len(agents[from].dels) < MaxDels
    /\ Post(Message("DELEGATE", from, to, 0), Recorded(from, to), agents, {"WAITING"})
    /\ UNCHANGED <<OthersOfPost, cast>>

HasDel(id, msg) == \E k \in DOMAIN agents[id].dels : agents[id].dels[k].msg = msg

\* The agent flux_a2a_delegate_result takes for the delegator: the first that
\* has a record of the message, open or not.
Delegator(id, msg) ==
    /\ Live(id) /\ HasDel(id, msg)
    /\ \A other \in Ids : Live(other) /\ HasDel(other, msg) => id <= other

\* Variant: the record is left open.
ClosedNot(id, msg) == agents

\* The table with the record marked complete.
Closed(id, msg) ==
    [agents EXCEPT ![id].dels =
        [k \in DOMAIN @ |-> IF @[k].msg = msg THEN [@[k] EXCEPT !.open = FALSE]
                                              ELSE @[k]]]

\* flux_a2a_delegate_result by the worker that received the task m.  The
\* record is closed before the message is allocated and enqueued.
Result(m, id) ==
    /\ MayPost("delegate")
    /\ m.kind = "DELEGATE" /\ CanSpeak(m.to)
    /\ Delegator(id, m.id)
    /\ Post(Message("RESULT", m.to, id, m.id), Closed(id, m.id), Closed(id, m.id),
            {"WAITING", "DELEGATING"})
    /\ UNCHANGED <<OthersOfPost, cast>>

\* The same when no message can be allocated.
ResultNoMem(m, id) ==
    /\ Api("delegate")
    /\ m.kind = "DELEGATE" /\ CanSpeak(m.to)
    /\ Delegator(id, m.id)
    /\ Exhausted
    /\ agents' = Closed(id, m.id)
    /\ UNCHANGED <<OthersOfPost, pool, nextMsg, cast>>

-----------------------------------------------------------------------------
(* Receive.                                                                 *)

\* inbox_dequeue, the copy to the caller and msg_pool_free.
Take(id) ==
    /\ agents[id].inbox # <<>>
    /\ LET r == Head(agents[id].inbox)
       IN  /\ got' = got \cup {pool[r]}
           /\ pool' = [pool EXCEPT ![r] = NoMsg]
    /\ agents' = [agents EXCEPT ![id].inbox = Tail(@)]

\* flux_a2a_recv that finds a message at once.
RecvNow(id) ==
    /\ Api("recv")
    /\ Live(id) /\ Take(id)
    /\ UNCHANGED <<initialized, bitmap, frame, held, discVars, nextMsg>>

Goto(t, pc) == frame' = [frame EXCEPT ![t].pc = pc]
Return(t) == frame' = [frame EXCEPT ![t] = NoFrame]

\* flux_a2a_recv that does not, and waits.
RecvWait(t, id) ==
    /\ Api("wait")
    /\ frame[t] = NoFrame
    /\ Live(id) /\ agents[id].inbox = <<>>
    /\ frame' = [frame EXCEPT ![t] = [pc |-> "poll", id |-> id, caps |-> {}]]
    /\ UNCHANGED <<initialized, agents, bitmap, held, discVars, mailVars>>

\* Variant: a receive looks again only when a send has made its agent IDLE.
AtAwake(t, pc) ==
    /\ frame[t].pc = pc /\ Unlocked
    /\ pc = "poll" => agents[frame[t].id].state # "WAITING"

\* The thread is at the given place of the waiting loop and gets the lock.
At(t, pc) == frame[t].pc = pc /\ Unlocked

PollTake(t) ==
    /\ At(t, "poll") /\ Live(frame[t].id) /\ Take(frame[t].id)
    /\ Return(t)
    /\ UNCHANGED <<initialized, bitmap, held, discVars, nextMsg>>

PollGone(t) ==
    /\ At(t, "poll") /\ ~Live(frame[t].id)
    /\ Return(t)
    /\ UNCHANGED <<initialized, agents, bitmap, held, discVars, mailVars>>

\* Nothing there: the loop gives up, or goes on to mark the agent.
PollMiss(t) ==
    /\ At(t, "poll") /\ Live(frame[t].id) /\ agents[frame[t].id].inbox = <<>>
    /\ Goto(t, "mark") \/ Return(t)
    /\ UNCHANGED <<initialized, agents, bitmap, held, discVars, mailVars>>

\* A section of its own marks the agent WAITING, whatever arrived meanwhile.
Mark(t) ==
    /\ At(t, "mark")
    /\ agents' = IF Live(frame[t].id) /\ agents[frame[t].id].state \notin Final
                 THEN [agents EXCEPT ![frame[t].id].state = "WAITING"] ELSE agents
    /\ Goto(t, "poll")
    /\ UNCHANGED <<initialized, bitmap, held, discVars, mailVars>>

Poll(t) == PollTake(t) \/ PollGone(t) \/ PollMiss(t) \/ Mark(t)

-----------------------------------------------------------------------------
(* The end of agents.                                                       *)

\* The pool after agent_slot_cleanup of some agents.
Drained(ids) ==
    [r \in Refs |-> IF \E id \in ids : r \in ToSet(agents[id].inbox)
                    THEN NoMsg ELSE pool[r]]

\* flux_agent_terminate.  Registry and topics keep the agent's entries.
Terminate(id) ==
    /\ Api("terminate")
    /\ Live(id)
    /\ pool' = Drained({id})
    /\ agents' = [agents EXCEPT ![id] = FreeSlot]
    /\ bitmap' = Freed(id)
    /\ UNCHANGED <<initialized, frame, held, discVars, nextMsg, got>>

MailNext ==
    \/ \E from \in Ids :
          \/ \E to \in Ids : Send(from, to) \/ Delegate(from, to)
          \/ \E topic \in Topics : Broadcast(from, topic)
          \/ RecvNow(from) \/ Terminate(from)
          \/ \E m \in got : Result(m, from) \/ ResultNoMem(m, from)
    \/ \E m \in got : Reply(m)
    \/ CastSkip \/ CastPost
    \/ \E t \in Threads : Poll(t) \/ \E id \in Ids : RecvWait(t, id)
=============================================================================
