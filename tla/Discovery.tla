----------------------------- MODULE Discovery -----------------------------
(***************************************************************************)
(* agent/discovery.c: the registry of published capabilities and the       *)
(* topics agents subscribe to.  A capability's description and the prefix  *)
(* match of a search are left out.                                         *)
(***************************************************************************)
EXTENDS AgentTable, SequencesExt

CONSTANTS Names,      \* capability names
          Topics,     \* topic names
          PubMax,     \* FLUX_PUB_CAPS_MAX
          OwnMax,     \* FLUX_AGENT_MAX_CAPS
          TopicMax,   \* FLUX_TOPIC_MAX
          SubsMax     \* FLUX_TOPIC_SUBS_MAX

ASSUME DiscoveryAssumption ==
    /\ PubMax \in Nat /\ OwnMax \in Nat /\ TopicMax \in Nat /\ SubsMax \in Nat

NoPub == [active |-> FALSE, name |-> "", id |-> NoId]

VARIABLES
    pubs,      \* g_agent_rt.pub_caps
    numPubs,   \* g_agent_rt.num_pub_caps
    topics     \* g_agent_rt.topics: the subscribers of the topics created

discVars == <<pubs, numPubs, topics>>

NoPubs == [i \in 1 .. PubMax |-> NoPub]

\* The function with an empty domain.
NoTopics == <<>>

DiscInit == pubs = NoPubs /\ numPubs = 0 /\ topics = NoTopics

-----------------------------------------------------------------------------
(* Published capabilities.                                                  *)

\* find_pub_cap looks at the entries below num_pub_caps.
Matches(name) == {i \in 1 .. numPubs : pubs[i].active /\ pubs[i].name = name}

Found(i, name) == i \in Matches(name) /\ \A j \in Matches(name) : i <= j

FreePub(i) == ~pubs[i].active /\ \A j \in 1 .. i - 1 : pubs[j].active

\* flux_agent_publish_cap of a name that nobody has published.  Otherwise the
\* call changes nothing modelled here.
Publish(id, name) ==
    /\ Api("publish") /\ Live(id)
    /\ Matches(name) = {}
    /\ Cardinality(agents[id].names) < OwnMax
    /\ \E i \in 1 .. PubMax :
          /\ FreePub(i)
          /\ pubs' = [pubs EXCEPT ![i] = [active |-> TRUE, name |-> name, id |-> id]]
          /\ numPubs' = IF i > numPubs THEN i ELSE numPubs
    /\ agents' = [agents EXCEPT ![id].names = @ \cup {name}]
    /\ UNCHANGED <<initialized, bitmap, frame, held, topics>>

\* Variant: the entry is taken from the registry only.
WithoutNameKept(id, name) == agents

\* The removal from the agent's own list, of an agent that may be gone.
WithoutName(id, name) ==
    IF Live(id) THEN [agents EXCEPT ![id].names = @ \ {name}] ELSE agents

\* flux_agent_unpublish_cap.
Unpublish(id, name) ==
    /\ Api("publish")
    /\ \E i \in 1 .. PubMax :
          /\ Found(i, name) /\ pubs[i].id = id
          /\ pubs' = [pubs EXCEPT ![i] = NoPub]
    /\ agents' = WithoutName(id, name)
    /\ UNCHANGED <<initialized, bitmap, frame, held, numPubs, topics>>

-----------------------------------------------------------------------------
(* Topics.  A topic is never removed.                                       *)

Created == DOMAIN topics

Subscribers(topic) == IF topic \in Created THEN topics[topic] ELSE <<>>

CanHave(topic) == topic \in Created \/ Cardinality(Created) < TopicMax

\* The subscribers after flux_agent_subscribe.
Subscribed(id, topic) ==
    LET subs == Subscribers(topic)
    IN  IF id \in ToSet(subs) \/ Len(subs) >= SubsMax THEN subs ELSE Append(subs, id)

\* flux_agent_subscribe; find_or_create_topic creates the topic even when
\* the subscription itself is then refused.
Subscribe(id, topic) ==
    /\ Api("subscribe") /\ Live(id) /\ CanHave(topic)
    /\ topics' = [tp \in Created \cup {topic} |->
                     IF tp = topic THEN Subscribed(id, topic) ELSE topics[tp]]
    /\ UNCHANGED <<tableVars, pubs, numPubs>>

\* flux_agent_unsubscribe, which asks for no agent.
Unsubscribe(id, topic) ==
    /\ Api("subscribe")
    /\ topic \in Created /\ id \in ToSet(topics[topic])
    /\ topics' = [topics EXCEPT ![topic] = RemoveFirst(@, id)]
    /\ UNCHANGED <<tableVars, pubs, numPubs>>

DiscNext ==
    \E id \in Ids :
       \/ \E name \in Names : Publish(id, name) \/ Unpublish(id, name)
       \/ \E topic \in Topics : Subscribe(id, topic) \/ Unsubscribe(id, topic)
=============================================================================
