----------------------------- MODULE WaitingLine -----------------------------
(***************************************************************************)
(* What the scheduler promises when all processes have one priority: those *)
(* who are able to run stand in one line and take turns, first come, first *)
(* served.  Who has the turn and is still able at its end goes to the end  *)
(* of the line, unless it stands there already; the first one in line has  *)
(* the next turn; the idler has it when nobody wants it.  A task that is   *)
(* not able any more keeps its place, and is passed a turn that it may or  *)
(* may not be able to use.                                                 *)
(***************************************************************************)
EXTENDS Naturals, Sequences

CONSTANTS Tasks,    \* who may stand in line
          Idler     \* has the turn when nobody wants it

VARIABLES line,     \* who waits for a turn
          turn,     \* whose turn it is
          able      \* who can run

Members(s) == {s[k] : k \in DOMAIN s}

\* Nobody stands in line twice.
Lines == {s \in Seq(Tasks) : \A j, k \in DOMAIN s : s[j] = s[k] => j = k}

\* t is s, with newcomers behind.
Behind(s, t) == \A k \in DOMAIN s : k \in DOMAIN t /\ t[k] = s[k]

Init == line = <<>> /\ turn = Idler /\ able = {}

\* Some go to the end of the line: those who became able, and who has the turn.
\* Others may cease to be able.  The idler wants nothing.
Join ==
    /\ line' \in Lines /\ Behind(line, line')
    /\ Members(line') \subseteq Members(line) \cup able' \cup {turn}
    /\ able' \subseteq (able \cup Members(line') \cup {turn}) \ {Idler}
    /\ UNCHANGED turn

\* The line when a turn is over.
Waiting == IF turn \in able /\ turn \notin Members(line) THEN Append(line, turn) ELSE line

Serve ==
    /\ Waiting # <<>>
    /\ turn' = Head(Waiting)
    /\ line' = Tail(Waiting)
    /\ able' \in {able, able \cup {turn'}}

Rest ==
    /\ Waiting = <<>>
    /\ turn' = Idler
    /\ UNCHANGED <<line, able>>

Next == Join \/ Serve \/ Rest

Spec == Init /\ [][Next]_<<line, turn, able>>

-----------------------------------------------------------------------------

\* Who is able has the turn or waits for it.
NobodyForgotten == able \subseteq Members(line) \cup {turn}

\* Who stays in line keeps its place or moves up, and moves up when somebody is
\* served.
NobodyOvertaken ==
    \A j \in DOMAIN line, k \in DOMAIN line' :
        line'[k] = line[j] => k <= j /\ (Serve => k < j)
=============================================================================
