------------------------------- MODULE PubSub -------------------------------
(***************************************************************************)
(* What the broker promises its peers, without registry, mutexes, threads  *)
(* or removal handlers: subscriptions are a relation between sessions and  *)
(* topics, and a message goes exactly once to each session subscribed at   *)
(* the moment it was accepted, before its publisher gets PUBACK.  A        *)
(* subscription ends for one of three reasons only: UNSUB, a CONN with the *)
(* same client id, or the loss of the connection.                          *)
(***************************************************************************)
EXTENDS Integers, Sequences

CONSTANTS
  Sessions, ClientIds, Topics,
  Identity,   \* the client ids that the peer of a session presents
  NoTopic

VARIABLES
  link,        \* the connection of a session
  subs,        \* who is subscribed to what
  doing,       \* the request of a session that is being served, by its answer
  topic,       \* ... the topic it names
  recipients,  \* ... and the sessions its message has yet to go to
  requests,    \* requests taken from a session so far
  out          \* what was sent to a session

vars == <<link, subs, doing, topic, recipients, requests, out>>

Doing == {"nothing", "CONNACK", "registration", "SUBACK", "UNSUBACK", "PUBACK"}

Init ==
  /\ link = [s \in Sessions |-> "unaccepted"]
  /\ subs = {}
  /\ doing = [s \in Sessions |-> "nothing"]
  /\ topic = [s \in Sessions |-> NoTopic]
  /\ recipients = [s \in Sessions |-> {}]
  /\ requests = [s \in Sessions |-> 0]
  /\ out = [s \in Sessions |-> <<>>]

Opens(s) ==
  /\ link[s] = "unaccepted"
  /\ link' = [link EXCEPT ![s] = "up"]
  /\ UNCHANGED <<subs, doing, topic, recipients, requests, out>>

Breaks(s) ==
  /\ link[s] = "up"
  /\ link' = [link EXCEPT ![s] = "down"]
  /\ UNCHANGED <<subs, doing, topic, recipients, requests, out>>

\* A request is taken; the session waits for `answer'.
Request(s, answer, t) ==
  /\ link[s] # "unaccepted"
  /\ doing[s] = "nothing"
  /\ doing' = [doing EXCEPT ![s] = answer]
  /\ topic' = [topic EXCEPT ![s] = t]
  /\ requests' = [requests EXCEPT ![s] = @ + 1]

\* A request that gets no answer; an invalid CONN also ends the connection.
Refuse(s) ==
  /\ Request(s, "nothing", NoTopic)
  /\ link' \in {link, [link EXCEPT ![s] = "down"]}
  /\ UNCHANGED <<subs, recipients, out>>

Connect(s) ==
  /\ Request(s, "CONNACK", NoTopic)
  /\ UNCHANGED <<link, subs, recipients, out>>

Subscribe(s, t) ==
  /\ Request(s, "SUBACK", t)
  /\ subs' = subs \cup {<<s, t>>}
  /\ UNCHANGED <<link, recipients, out>>

Unsubscribe(s, t) ==
  /\ Request(s, "UNSUBACK", t)
  /\ subs' = subs \ {<<s, t>>}
  /\ UNCHANGED <<link, recipients, out>>

Publish(s, t) ==
  /\ Request(s, "PUBACK", t)
  /\ recipients' = [recipients EXCEPT ![s] = {r \in Sessions : <<r, t>> \in subs}]
  /\ UNCHANGED <<link, subs, out>>

Send(r, type, s) ==
  out' = [out EXCEPT ![r] = Append(@, [type |-> type, from |-> s,
                                       seq |-> requests[s], topic |-> topic[s]])]

Deliver(s, r) ==
  /\ r \in recipients[s]
  /\ recipients' = [recipients EXCEPT ![s] = @ \ {r}]
  /\ Send(r, "PUB", s)
  /\ UNCHANGED <<link, subs, doing, topic, requests>>

Answer(s) ==
  /\ doing[s] \in Doing \ {"nothing", "registration"}
  /\ recipients[s] = {}
  /\ Send(s, doing[s], s)
  /\ doing' = [doing EXCEPT ![s] = IF @ = "CONNACK" THEN "registration" ELSE "nothing"]
  /\ topic' = [topic EXCEPT ![s] = NoTopic]
  /\ UNCHANGED <<link, subs, recipients, requests>>

\* A session's subscriptions end, all at once.
Without(r) == {x \in subs : x[1] # r}

\* While s is being registered, a session with the same client id (s itself,
\* when it sent CONN before) loses its subscriptions.
TakeOver(s, r) ==
  /\ doing[s] = "registration"
  /\ Identity[s] \cap Identity[r] # {}
  /\ subs' = Without(r)
  /\ UNCHANGED <<link, doing, topic, recipients, requests, out>>

Registered(s) ==
  /\ doing[s] = "registration"
  /\ doing' = [doing EXCEPT ![s] = "nothing"]
  /\ UNCHANGED <<link, subs, topic, recipients, requests, out>>

Forget(r) ==
  /\ link[r] = "down"
  /\ subs' = Without(r)
  /\ UNCHANGED <<link, doing, topic, recipients, requests, out>>

Next ==
  \E s \in Sessions :
    \/ Opens(s) \/ Breaks(s)
    \/ Refuse(s) \/ Connect(s)
    \/ \E t \in Topics : Subscribe(s, t) \/ Unsubscribe(s, t) \/ Publish(s, t)
    \/ \E r \in Sessions : Deliver(s, r) \/ TakeOver(s, r)
    \/ Answer(s) \/ Registered(s) \/ Forget(s)

Spec == Init /\ [][Next]_vars
=============================================================================
