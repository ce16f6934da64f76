-------------------------- MODULE BrokerRefinement --------------------------
(***************************************************************************)
(* The broker implements PubSub, and each of its sessions BrokerEnd.       *)
(***************************************************************************)
EXTENDS Broker

Links == [s \in Sessions |->
            IF socket[s] = "unaccepted" THEN "unaccepted"
            ELSE IF socket[s] = "open" THEN "up" ELSE "down"]

\* The request that is being served when the chain of a session is at x, by the
\* answer that is still to be sent.
ServiceAt(x) ==
  CASE x = "connecting" -> "CONNACK"
    [] x \in {"registering", "purging_old", "storing"} -> "registration"
    [] x = "suback" -> "SUBACK"
    [] x = "unsuback" -> "UNSUBACK"
    [] x = "fanout" -> "PUBACK"
    [] OTHER -> "nothing"

Service == [s \in Sessions |-> ServiceAt(step[s])]

Subscriptions == {x \in Sessions \X Topics : topic_subscribers[x[2]][x[1]] > 0}

Recipients == [s \in Sessions |-> {r \in Sessions : left[s][r] > 0}]

PS == INSTANCE PubSub WITH link <- Links, subs <- Subscriptions, doing <- Service,
                           recipients <- Recipients, requests <- received

\* Whatever the registry, the two mutexes and the removal handlers do between
\* them, the peers see the broker of PubSub: a message goes once to everyone
\* subscribed when it was taken, before PUBACK, and no subscription is lost but
\* by UNSUB, a CONN with the same client id or a broken connection.
ImplementsPubSub == PS!Spec

-----------------------------------------------------------------------------
\* What the peer of s sees of it.
TopicsOf(s) == {t \in Topics : <<s, t>> \in Subscriptions}
CopiedFor(s) == {topic[r] : r \in {q \in Sessions \ {s} : s \in Recipients[q]}}
OwedTo(s) == IF s \in Recipients[s] THEN topic[s] ELSE NoTopic
Strip(p) == [type |-> p.type, topic |-> IF p.type = "PUB" THEN p.topic ELSE NoTopic]
SentTo(s) == [i \in DOMAIN out[s] |-> Strip(out[s][i])]

\* No other connection presents an id of s.
AloneWithId(s) == \A r \in Sessions \ {s} : Identity[s] \cap Identity[r] = {}

End(s) == INSTANCE BrokerEnd WITH
            Alone <- AloneWithId(s), link <- Links[s], subscribed <- TopicsOf(s),
            copied <- CopiedFor(s), serving <- Service[s], owed <- OwedTo(s),
            sent <- SentTo(s)

\* Each session is to its peer the broker that Client is modelled with, as long as
\* the connection is up: requests are served one at a time and answered in order, the
\* peer's own message comes before PUBACK, a message of somebody else at any moment,
\* an UNSUBACK before it included, and nobody else touches the subscriptions of a
\* connection that is alone with its client id.
ServesEachPeer ==
  /\ \A s \in Sessions : End(s)!Init
  /\ [][\A s \in Sessions : [End(s)!Next]_(End(s)!vars)]_vars
=============================================================================
