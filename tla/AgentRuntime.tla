---------------------------- MODULE AgentRuntime ----------------------------
(***************************************************************************)
(* The agent runtime: table, registry, messaging and sandbox composed.     *)
(* Any number of threads call it; what a thread keeps between two lock     *)
(* sections of a call is in `frame' (spawning and waiting receives) and in *)
(* `sched' (the one thread that schedules).                                *)
(***************************************************************************)
EXTENDS AgentMail, Sandbox

vars == <<tableVars, discVars, mailVars, schedVars>>

Init == TableInit /\ DiscInit /\ MailInit /\ SandboxInit

\* flux_agent_shutdown: the bit of the first ID is cleared too.
Shutdown ==
    /\ Api("shutdown")
    /\ initialized' = FALSE
    /\ pool' = Drained(LiveIds)
    /\ agents' = [id \in Ids |-> IF Live(id) THEN FreeSlot ELSE agents[id]]
    /\ bitmap' = {}
    /\ numPubs' = 0
    /\ topics' = NoTopics
    /\ cursor' = 0
    /\ UNCHANGED <<frame, held, pubs, nextMsg, got, sched>>

\* flux_agent_init after a shutdown.  An agent spawned in between (by a call
\* that checked `initialized' before) is overwritten.
Restart ==
    /\ "shutdown" \in ApiCalls /\ ~initialized /\ Unlocked
    /\ initialized' = TRUE
    /\ agents' = [id \in Ids |-> FreeSlot]
    /\ bitmap' = Reserved
    /\ pool' = [r \in Refs |-> NoMsg]
    /\ nextMsg' = 1
    /\ pubs' = NoPubs /\ numPubs' = 0 /\ topics' = NoTopics
    /\ cursor' = 0
    /\ UNCHANGED <<frame, held, got, sched>>

Next ==
    \/ TableNext /\ UNCHANGED <<discVars, mailVars, schedVars>>
    \/ DiscNext /\ UNCHANGED <<mailVars, schedVars>>
    \/ MailNext /\ UNCHANGED schedVars
    \/ SandboxNext /\ UNCHANGED <<discVars, mailVars>>
    \/ Shutdown \/ Restart

Spec == Init /\ [][Next]_vars

(* A thread that holds the lock goes on.  A thread that waits for the      *)
(* spinlock gets it some time, which a test-and-set lock does not promise  *)
(* but for unbounded contention: hence strong fairness.                    *)
Fairness ==
    /\ WF_vars(Slicing /\ UNCHANGED <<discVars, mailVars>>)
    /\ WF_vars((CastSkip \/ CastPost) /\ UNCHANGED schedVars)
    /\ SF_vars(Scheduling /\ UNCHANGED <<discVars, mailVars>>)
    /\ \A t \in Threads : SF_vars(Poll(t) /\ UNCHANGED schedVars)

FairSpec == Spec /\ Fairness
=============================================================================
