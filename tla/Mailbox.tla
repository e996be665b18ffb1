------------------------------- MODULE Mailbox -------------------------------
(***************************************************************************)
(* What the inbox of a process promises: a bounded sequence of messages.   *)
(* A message is delivered at the end while there is room and dropped       *)
(* otherwise; a receive takes the oldest message, or the oldest one from a *)
(* given sender, and leaves the rest in order.                             *)
(***************************************************************************)
EXTENDS Naturals, Sequences

CONSTANTS Depth,     \* capacity
          Messages   \* records with a field "from"

VARIABLE mail

Sender == {m.from : m \in Messages}

Init == mail = <<>>

Deliver(m) == Len(mail) < Depth /\ mail' = Append(mail, m)

\* Message k leaves the mailbox.
Without(k) == [j \in 1 .. Len(mail) - 1 |-> IF j < k THEN mail[j] ELSE mail[j + 1]]

TakeOldest == Len(mail) > 0 /\ mail' = Without(1)

TakeFrom(s) ==
    \E k \in 1 .. Len(mail) :
        /\ mail[k].from = s
        /\ \A j \in 1 .. k - 1 : mail[j].from # s
        /\ mail' = Without(k)

Next ==
    \/ \E m \in Messages : Deliver(m)
    \/ TakeOldest
    \/ \E s \in Sender : TakeFrom(s)

Spec == Init /\ [][Next]_mail
=============================================================================
