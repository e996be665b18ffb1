----------------------------- MODULE PostOffice -----------------------------
(***************************************************************************)
(* What messaging between agents promises.  Every agent has a box that     *)
(* holds up to Depth messages.  A message gets the next number and goes to *)
(* the end of the box of its target, or is lost when that box is full; the *)
(* oldest message of a box is taken out and from then on is known to its   *)
(* reader; boxes are emptied as a whole when their agents end.  While it   *)
(* is in a box a message stays what it was when it was posted.             *)
(***************************************************************************)
EXTENDS Naturals, Sequences

CONSTANTS Agents,    \* who has a box
          Depth,     \* capacity of a box
          Messages   \* records with fields "id", a number, and "to", an agent

VARIABLES boxes,     \* the messages in each agent's box
          number,    \* of the next message
          read       \* the messages that were taken out

Empty == [a \in Agents |-> <<>>]

Init == boxes = Empty /\ number = 1 /\ read = {}

Numbered == number' = number + 1 /\ UNCHANGED read

Post(a, m) ==
    /\ Len(boxes[a]) < Depth
    /\ m \in Messages /\ m.id = number /\ m.to = a
    /\ boxes' = [boxes EXCEPT ![a] = Append(@, m)]
    /\ Numbered

\* A message to an agent whose box is full.
Lose(a) == Len(boxes[a]) >= Depth /\ UNCHANGED boxes /\ Numbered

\* The oldest message in the box of an agent is taken out.
Collect(a) ==
    /\ boxes[a] # <<>>
    /\ boxes' = [boxes EXCEPT ![a] = Tail(@)]
    /\ read' = read \cup {Head(boxes[a])}
    /\ UNCHANGED number

\* The boxes of some agents are emptied.
Close(ended) ==
    /\ boxes' = [a \in Agents |-> IF a \in ended THEN <<>> ELSE boxes[a]]
    /\ UNCHANGED <<number, read>>

\* A new beginning; what was read stays with its readers.
Reopen == boxes' = Empty /\ number' = 1 /\ UNCHANGED read

Next ==
    \/ \E a \in Agents :
          \/ \E k \in DOMAIN boxes'[a] : Post(a, boxes'[a][k])
          \/ Lose(a) \/ Collect(a)
    \/ \E ended \in SUBSET Agents : Close(ended)
    \/ Reopen

Spec == Init /\ [][Next]_<<boxes, number, read>>

\* The messages of a box are in the order in which they were posted, and none
\* is there twice.
InOrder ==
    \A a \in Agents : \A k \in DOMAIN boxes[a] :
       /\ boxes[a][k].to = a /\ boxes[a][k].id < number
       /\ \A j \in 1 .. k - 1 : boxes[a][j].id < boxes[a][k].id
=============================================================================
