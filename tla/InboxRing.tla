------------------------------ MODULE InboxRing ------------------------------
(***************************************************************************)
(* One inbox of kernel/ipc.c as the code keeps it: the circular buffer     *)
(* ipc_queue_t with its head, tail and count.  Messages are put in at the  *)
(* tail; a receive searches the window and closes the gap by shifting.     *)
(* Ipc works with the sequence of pending messages instead; that it may is *)
(* the refinement of Mailbox stated at the end.                            *)
(*                                                                         *)
(* ipc_dequeue_message, the only function that moves the head, is never    *)
(* called and is left out.                                                 *)
(***************************************************************************)
EXTENDS Integers, Sequences

CONSTANTS Depth,     \* FLUX_IPC_QUEUE_DEPTH
          Messages,  \* the messages that may arrive, records with field "from"
          None       \* what a slot holds before its first message

ASSUME DepthAssumption == Depth \in Nat \ {0}
ASSUME NoneAssumption == None \notin Messages

VARIABLES messages, head, tail, count

vars == <<messages, head, tail, count>>

Idx == 0 .. Depth - 1

\* flux_ipc_init.
Init ==
    /\ messages = [i \in Idx |-> None]
    /\ head = 0 /\ tail = 0 /\ count = 0

\* The i-th oldest pending message, counting from 0.
At(i) == messages[(head + i) % Depth]

\* ~ipc_queue_is_full.
HasRoom == count < Depth

\* ipc_enqueue_message when there is room.
Enqueue(m) ==
    /\ HasRoom
    /\ messages' = [messages EXCEPT ![tail] = m]
    /\ tail' = (tail + 1) % Depth
    /\ count' = count + 1
    /\ UNCHANGED head

\* Variant: the gap is not closed.
ShiftedFromNever(i) == messages

\* The slots after the loop of ipc_remove_message closed the gap at i: each
\* later message moves one place towards the head.
ShiftedFrom(i) ==
    [s \in Idx |->
        LET j == (s - head) % Depth
        IN  IF i <= j /\ j < count - 1 THEN At(j + 1) ELSE messages[s]]

\* ipc_remove_message.
RemoveMessage(i) ==
    /\ messages' = ShiftedFrom(i)
    /\ tail' = (tail - 1) % Depth
    /\ count' = count - 1
    /\ UNCHANGED head

\* flux_a2a_recv without a filter: the oldest message is message 0.
RecvAny == count > 0 /\ RemoveMessage(0)

\* flux_a2a_recv and ipc_peek_message with a filter: the first message in the
\* window that the sender sent.
RecvFrom(sender) ==
    \E i \in 0 .. count - 1 :
        /\ At(i).from = sender
        /\ \A j \in 0 .. i - 1 : At(j).from # sender
        /\ RemoveMessage(i)

Senders == {m.from : m \in Messages}

Next ==
    \/ \E m \in Messages : Enqueue(m)
    \/ RecvAny
    \/ \E sender \in Senders : RecvFrom(sender)

Spec == Init /\ [][Next]_vars

-----------------------------------------------------------------------------

\* The inductive invariant: the head never moves, the tail is where the count
\* says, and every slot of the window holds a message.
RingInv ==
    /\ messages \in [Idx -> Messages \cup {None}]
    /\ head = 0
    /\ count \in 0 .. Depth
    /\ tail = count % Depth
    /\ \A i \in 0 .. count - 1 : messages[i] \in Messages

\* The mailbox the buffer stands for.
mailOf == [k \in 1 .. count |-> At(k - 1)]

\* The buffer of ipc.c implements the mailbox: enqueueing, the filtered search
\* and the removal by shifting neither lose nor repeat nor reorder a message.
MB == INSTANCE Mailbox WITH mail <- mailOf

Implements == MB!Spec
=============================================================================
