----------------------------- MODULE BrokerEnd ------------------------------
(***************************************************************************)
(* The broker as the client at the other end of one connection sees it:    *)
(* which of the client's requests is being served, what it is subscribed   *)
(* to, and what it is sent.  Client runs against this broker, and          *)
(* BrokerRefinement maps every session of Broker to it.                    *)
(***************************************************************************)
EXTENDS Sequences

CONSTANTS
  Topics, NoTopic,
  Alone      \* no other connection presents the same client id

VARIABLES
  link,        \* "unaccepted", "up" or "down"
  subscribed,  \* the topics that the client is subscribed to
  copied,      \* topics of the messages that others may still have for it
  serving,     \* the request that is being served, by its answer
  owed,        \* the topic of a message of its own that it has still to get
  sent         \* what the client was sent

vars == <<link, subscribed, copied, serving, owed, sent>>

P(type, topic) == [type |-> type, topic |-> topic]

AnswerTo ==
  [CONN |-> "CONNACK", SUB |-> "SUBACK", UNSUB |-> "UNSUBACK", PUB |-> "PUBACK"]

Init ==
  /\ link = "unaccepted" /\ subscribed = {} /\ copied = {}
  /\ serving = "nothing" /\ owed = NoTopic /\ sent = <<>>

Opens ==
  /\ link = "unaccepted" /\ link' = "up"
  /\ UNCHANGED <<subscribed, copied, serving, owed, sent>>

Breaks ==
  /\ link = "up" /\ link' = "down"
  /\ UNCHANGED <<subscribed, copied, serving, owed, sent>>

\* Nobody hears any more what the broker does.
Unheard == link = "down" /\ link' = "down"

\* The subscriptions s after the request p.
Apply(s, p) ==
  CASE p.type = "SUB" -> s \cup {p.topic}
    [] p.type = "UNSUB" -> s \ {p.topic}
    [] OTHER -> s

\* A request takes effect, and is answered later.
Take(p) ==
  /\ link = "up" /\ serving = "nothing"
  /\ serving' = AnswerTo[p.type]
  /\ subscribed' = Apply(subscribed, p)
  /\ owed' = IF p.type = "PUB" /\ p.topic \in subscribed THEN p.topic ELSE NoTopic
  /\ UNCHANGED <<link, copied, sent>>

\* A request that is dropped without an answer.
Ignore == link = "up" /\ serving = "nothing" /\ UNCHANGED vars

\* Another client publishes, and the client is among the subscribers copied.
Accept(t) ==
  /\ link = "up" /\ t \in subscribed
  /\ copied' = copied \cup {t}
  /\ UNCHANGED <<link, subscribed, serving, owed, sent>>

Send(p) == sent' = Append(sent, p)

\* The message is sent whatever became of the subscription since, and may be the
\* last of its topic or not.
Deliver(t) ==
  /\ link = "up" /\ t \in copied
  /\ Send(P("PUB", t))
  /\ copied' \in {copied, copied \ {t}}
  /\ UNCHANGED <<link, subscribed, serving, owed>>

DeliverOwn ==
  /\ link = "up" /\ owed # NoTopic
  /\ Send(P("PUB", owed))
  /\ owed' = NoTopic
  /\ UNCHANGED <<link, subscribed, copied, serving>>

Answer ==
  /\ link = "up" /\ serving \notin {"nothing", "registration"} /\ owed = NoTopic
  /\ Send(P(serving, NoTopic))
  /\ serving' = IF serving = "CONNACK" THEN "registration" ELSE "nothing"
  /\ UNCHANGED <<link, subscribed, copied, owed>>

\* A client that had sent CONN before loses its subscriptions.
TakeOver ==
  /\ link = "up" /\ (serving = "registration" \/ ~Alone)
  /\ subscribed' = {}
  /\ UNCHANGED <<link, copied, serving, owed, sent>>

Registered ==
  /\ link = "up" /\ serving = "registration"
  /\ serving' = "nothing"
  /\ UNCHANGED <<link, subscribed, copied, owed, sent>>

Request == [type : {"CONN"}, topic : {NoTopic}] \cup
           [type : {"SUB", "UNSUB", "PUB"}, topic : Topics]

Next ==
  \/ Opens \/ Breaks \/ Unheard
  \/ \E p \in Request : Take(p)
  \/ Ignore
  \/ \E t \in Topics : Accept(t) \/ Deliver(t)
  \/ DeliverOwn \/ Answer \/ TakeOver \/ Registered

Spec == Init /\ [][Next]_vars
=============================================================================
