-------------------------- MODULE RefinementProofs --------------------------
(***************************************************************************)
(* Broker implements PubSub, and each session of it BrokerEnd: every       *)
(* initial state of the broker maps to one of theirs, and every step to a  *)
(* step or to no change.                                                   *)
(***************************************************************************)
EXTENDS BrokerRefinement, TableProofs, SequenceTheorems

-----------------------------------------------------------------------------
(* How the parts of the mapping change.                                    *)

LEMMA SameLinks == socket' = socket => Links' = Links
  BY DEF Links

LEMMA SameService == step' = step => Service' = Service
  BY DEF Service

LEMMA SameSubscriptions ==
  topic_subscribers' = topic_subscribers => Subscriptions' = Subscriptions
  BY DEF Subscriptions

LEMMA SameRecipients == left' = left => Recipients' = Recipients
  BY DEF Recipients

\* The chain of s moves to x.
LEMMA ServiceMoves ==
  ASSUME TypeOK, NEW s \in Sessions, NEW x, step' = [step EXCEPT ![s] = x]
  PROVE  Service' = [Service EXCEPT ![s] = ServiceAt(x)]
  BY DEF TypeOK, Service

\* A move between two points where no request is being served.
LEMMA ServiceStays ==
  ASSUME TypeOK, NEW s \in Sessions, NEW x, step' = [step EXCEPT ![s] = x],
         ServiceAt(x) = ServiceAt(step[s])
  PROVE  Service' = Service
  BY ServiceMoves DEF Service

\* Purging the topic table of r takes away all of r's subscriptions.
LEMMA PurgeSubscriptions ==
  ASSUME TypeOK, NEW r \in Sessions, topic_subscribers' = RemoveEverywhere(r)
  PROVE  Subscriptions' = PS!Without(r)
<1>1. ASSUME NEW t \in Topics, NEW s \in Sessions
      PROVE  topic_subscribers'[t][s] = IF s = r THEN 0 ELSE topic_subscribers[t][s]
  BY DEF TypeOK, RemoveEverywhere
<1> QED
  BY <1>1 DEF Subscriptions, PS!Without

\* What is left of the copy when a handler is not in publish().
LEMMA NoRecipients ==
  ASSUME TypeOK, NEW s \in Sessions, left[s] = EmptyBag
  PROVE  Recipients[s] = {}
  BY DEF Recipients, EmptyBag

-----------------------------------------------------------------------------
(* Steps.                                                                  *)

LEMMA InitMaps == Init => PS!Init
<1> SUFFICES ASSUME Init PROVE PS!Init
  OBVIOUS
<1>1. Links = [s \in Sessions |-> "unaccepted"]
  BY DEF Init, Links
<1>2. Service = [s \in Sessions |-> "nothing"]
  BY DEF Init, Service, ServiceAt
<1>3. Subscriptions = {}
  BY DEF Init, Subscriptions, EmptyBag
<1>4. Recipients = [s \in Sessions |-> {}]
  BY DEF Init, Recipients, EmptyBag
<1> QED
  BY <1>1, <1>2, <1>3, <1>4 DEF Init, PS!Init

\* An answer that leaves the session at x.
LEMMA AnswerMaps ==
  ASSUME TypeOK, LocalsInv, NEW s \in Sessions, NEW x,
         NEW type \in Acks, Send(s, type, s),
         ServiceAt(step[s]) = type, left[s] = EmptyBag,
         step' = [step EXCEPT ![s] = x],
         ServiceAt(x) = IF type = "CONNACK" THEN "registration" ELSE "nothing",
         topic' = [topic EXCEPT ![s] = NoTopic],
         UNCHANGED <<socket, topic_subscribers, left, received>>
  PROVE  PS!Answer(s)
<1>1. Service[s] = type
  BY DEF Service
<1>2. Service' = [Service EXCEPT ![s] = IF @ = "CONNACK" THEN "registration" ELSE "nothing"]
  BY <1>1, ServiceMoves
<1>3. type \in PS!Doing \ {"nothing", "registration"}
  BY DEF Acks, PS!Doing
<1>4. PS!Send(s, type, s)
  BY DEF Send, PS!Send
<1>5. Links' = Links /\ Subscriptions' = Subscriptions /\ Recipients' = Recipients
  BY SameLinks, SameSubscriptions, SameRecipients
<1>6. Recipients[s] = {}
  BY NoRecipients
<1> QED
  BY <1>1, <1>2, <1>3, <1>4, <1>5, <1>6 DEF PS!Answer

LEMMA HandlerMaps ==
  ASSUME TypeOK, TablesInv, NEW s \in Sessions, HandlerStep(s)
  PROVE  PS!Next \/ UNCHANGED PS!vars
<1>0. LocalsInv /\ MutexInv /\ IdentityInv /\ LinkInv /\ TopicInv
  BY DEF TablesInv
<1>1. CASE AssignIdentity(s)
  <2>1. topic' = [topic EXCEPT ![s] = NoTopic] /\ left[s] = EmptyBag
    BY <1>0, <1>1 DEF AssignIdentity, LocalsInv, TypeOK
  <2>2. ServiceAt(step[s]) = "CONNACK" /\ ServiceAt("registering") = "registration"
    BY <1>1 DEF AssignIdentity, ServiceAt
  <2>3. PS!Answer(s)
    BY <1>0, <1>1, <2>1, <2>2, AnswerMaps DEF AssignIdentity, Acks
  <2> QED
    BY <2>3 DEF PS!Next
<1>2. CASE LookUpClient(s)
  <2>1. PICK x \in {"storing", "purging_old"} : step' = [step EXCEPT ![s] = x]
    BY <1>2 DEF LookUpClient
  <2>2. ServiceAt(x) = ServiceAt(step[s])
    BY <1>2 DEF LookUpClient, ServiceAt
  <2>3. Service' = Service
    BY <2>1, <2>2, ServiceStays
  <2> QED
    BY <1>2, <2>3, SameLinks, SameSubscriptions, SameRecipients
    DEF LookUpClient, PS!vars
<1>3. CASE PurgeOld(s)
  <2> DEFINE r == old[s]
  <2>1. r \in Sessions /\ client_id[s] \in Identity[s] \cap Identity[r]
    <3>1. client_id[s] \in ClientIds /\ client_id[s] \in Identity[s]
      BY <1>0, <1>3 DEF PurgeOld, IdentityInv, TypeOK, Resting
    <3>2. sessions[client_id[s]] = r /\ r \in Sessions
      BY <1>0, <1>3 DEF PurgeOld, MutexInv, TypeOK
    <3> QED
      BY <1>0, <3>1, <3>2 DEF IdentityInv
  <2>2. ServiceAt("storing") = ServiceAt(step[s]) /\ ServiceAt(step[s]) = "registration"
    BY <1>3 DEF PurgeOld, ServiceAt
  <2>3. Service' = Service /\ Service[s] = "registration"
    BY <1>3, <2>2, ServiceStays DEF PurgeOld, Service
  <2>4. Subscriptions' = PS!Without(r)
    BY <1>3, <2>1, PurgeSubscriptions DEF PurgeOld
  <2>5. PS!TakeOver(s, r)
    BY <1>3, <2>1, <2>3, <2>4, SameLinks, SameRecipients
    DEF PurgeOld, PS!TakeOver, chainVars
  <2> QED
    BY <2>1, <2>5 DEF PS!Next
<1>4. CASE StoreSession(s)
  <2>1. ServiceAt("reading") = "nothing" /\ ServiceAt(step[s]) = "registration"
    BY <1>4 DEF StoreSession, ServiceAt
  <2>2. Service' = [Service EXCEPT ![s] = "nothing"] /\ Service[s] = "registration"
    BY <1>4, <2>1, ServiceMoves DEF StoreSession, ReadNext, Service
  <2>3. topic' = topic
    BY <1>0, <1>4 DEF StoreSession, ReadNext, LocalsInv, TypeOK
  <2>4. PS!Registered(s)
    BY <1>4, <2>2, <2>3, SameLinks, SameSubscriptions, SameRecipients
    DEF StoreSession, PS!Registered
  <2> QED
    BY <2>4 DEF PS!Next
<1>5. CASE SendSuback(s)
  <2>1. ServiceAt(step[s]) = "SUBACK" /\ ServiceAt("reading") = "nothing" /\ left[s] = EmptyBag
    BY <1>0, <1>5 DEF SendSuback, ServiceAt, LocalsInv
  <2>2. PS!Answer(s)
    BY <1>0, <1>5, <2>1, AnswerMaps DEF SendSuback, ReadNext, Acks
  <2> QED
    BY <2>2 DEF PS!Next
<1>6. CASE SendUnsuback(s)
  <2>1. ServiceAt(step[s]) = "UNSUBACK" /\ ServiceAt("reading") = "nothing" /\ left[s] = EmptyBag
    BY <1>0, <1>6 DEF SendUnsuback, ServiceAt, LocalsInv
  <2>2. PS!Answer(s)
    BY <1>0, <1>6, <2>1, AnswerMaps DEF SendUnsuback, ReadNext, Acks
  <2> QED
    BY <2>2 DEF PS!Next
<1>7. ASSUME NEW r \in Sessions, FanOut(s, r) PROVE PS!Next
  <2>1. r \in Recipients[s] /\ Recipients' = [Recipients EXCEPT ![s] = @ \ {r}]
    <3>1. left[s][r] = 1
      BY <1>0, <1>7 DEF FanOut, TypeOK, TopicInv
    <3>2. ASSUME NEW p \in Sessions, NEW q \in Sessions
          PROVE  left'[p][q] = IF p = s /\ q = r THEN 0 ELSE left[p][q]
      <4>1. left' = [left EXCEPT ![s][r] = 0]
        BY <1>7, <3>1 DEF FanOut
      <4> QED
        BY <4>1 DEF TypeOK
    <3>3. ASSUME NEW p \in Sessions
          PROVE  Recipients'[p] = IF p = s THEN Recipients[s] \ {r} ELSE Recipients[p]
      BY <3>2 DEF Recipients
    <3>4. r \in Recipients[s]
      BY <3>1 DEF Recipients
    <3>5. Recipients' = [Recipients EXCEPT ![s] = @ \ {r}]
      <4>1. Recipients' = [p \in Sessions |-> Recipients'[p]]
        BY DEF Recipients
      <4>2. Recipients = [p \in Sessions |-> Recipients[p]]
        BY DEF Recipients
      <4> QED
        BY <3>3, <4>1, <4>2
    <3> QED
      BY <3>4, <3>5
  <2>2. PS!Send(r, "PUB", s)
    BY <1>7 DEF FanOut, Send, PS!Send
  <2>3. PS!Deliver(s, r)
    BY <1>7, <2>1, <2>2, SameLinks, SameSubscriptions, SameService
    DEF FanOut, PS!Deliver
  <2> QED
    BY <2>3 DEF PS!Next
<1>8. CASE SendPuback(s)
  <2>1. ServiceAt(step[s]) = "PUBACK" /\ ServiceAt("reading") = "nothing" /\ left[s] = EmptyBag
    BY <1>8 DEF SendPuback, ServiceAt
  <2>2. PS!Answer(s)
    BY <1>0, <1>8, <2>1, AnswerMaps DEF SendPuback, ReadNext, Acks
  <2> QED
    BY <2>2 DEF PS!Next
<1>9. CASE EraseSession(s)
  <2>1. ServiceAt("purging") = ServiceAt(step[s])
    BY <1>9 DEF EraseSession, ServiceAt
  <2>2. Service' = Service
    BY <1>9, <2>1, ServiceStays DEF EraseSession
  <2> QED
    BY <1>9, <2>2, SameLinks, SameSubscriptions, SameRecipients
    DEF EraseSession, chainVars, PS!vars
<1>10. CASE PurgeSession(s)
  <2>1. ServiceAt("ended") = ServiceAt(step[s])
    BY <1>10 DEF PurgeSession, ServiceAt
  <2>2. Service' = Service
    BY <1>10, <2>1, ServiceStays DEF PurgeSession
  <2>3. Links[s] = "down"
    BY <1>0, <1>10 DEF PurgeSession, LinkInv, Leaving, Links
  <2>4. PS!Forget(s)
    BY <1>10, <2>2, <2>3, PurgeSubscriptions, SameLinks, SameRecipients
    DEF PurgeSession, PS!Forget, chainVars
  <2> QED
    BY <2>4 DEF PS!Next
<1> QED
  BY <1>1, <1>2, <1>3, <1>4, <1>5, <1>6, <1>7, <1>8, <1>9, <1>10 DEF HandlerStep

LEMMA CompletionMaps ==
  ASSUME TypeOK, TablesInv, NEW s \in Sessions, CompletionStep(s)
  PROVE  PS!Next \/ UNCHANGED PS!vars
<1>1. CASE CompletionErase(s)
  BY <1>1, SameLinks, SameSubscriptions, SameRecipients, SameService
  DEF CompletionErase, chainVars, PS!vars
<1>2. CASE CompletionPurge(s)
  <2>1. Links[s] = "down"
    BY <1>2 DEF CompletionPurge, TablesInv, LinkInv, Links
  <2>2. PS!Forget(s)
    BY <1>2, <2>1, PurgeSubscriptions, SameLinks, SameRecipients, SameService
    DEF CompletionPurge, PS!Forget, chainVars
  <2> QED
    BY <2>2 DEF PS!Next
<1> QED
  BY <1>1, <1>2 DEF CompletionStep

\* Taking a request that is to be answered with x.
LEMMA RequestMaps ==
  ASSUME TypeOK, LinkInv, NEW s \in Sessions, NEW x, NEW t, Dispatch(s),
         step' = [step EXCEPT ![s] = x], topic' = [topic EXCEPT ![s] = t]
  PROVE  PS!Request(s, ServiceAt(x), t)
<1>1. Links[s] # "unaccepted"
  BY DEF Dispatch, Links
<1>2. Service[s] = "nothing"
  BY DEF Dispatch, Service, ServiceAt
<1>3. Service' = [Service EXCEPT ![s] = ServiceAt(x)]
  BY ServiceMoves
<1> QED
  BY <1>1, <1>2, <1>3 DEF Dispatch, PS!Request

LEMMA StartMaps ==
  ASSUME TypeOK, TablesInv, NEW s \in Sessions, Start(s)
  PROVE  PS!Next \/ UNCHANGED PS!vars
<1>0. LocalsInv /\ LinkInv
  BY DEF TablesInv
<1>1. CASE Accept(s)
  <2>1. ServiceAt("reading") = ServiceAt(step[s])
    BY <1>1 DEF Accept, ServiceAt
  <2>2. Service' = Service
    BY <1>1, <2>1, ServiceStays DEF Accept
  <2>3. Links[s] = "unaccepted" /\ Links' = [Links EXCEPT ![s] = "up"]
    BY <1>0, <1>1 DEF Accept, LinkInv, Links, TypeOK
  <2>4. PS!Opens(s)
    BY <1>1, <2>2, <2>3, SameSubscriptions, SameRecipients DEF Accept, PS!Opens, chainVars
  <2> QED
    BY <2>4 DEF PS!Next
<1>2. CASE IgnorePacket(s)
  <2>1. step' = [step EXCEPT ![s] = "reading"] /\ topic' = [topic EXCEPT ![s] = NoTopic]
    BY <1>0, <1>2 DEF IgnorePacket, Dispatch, LocalsInv, TypeOK, chainVars
  <2>2. PS!Request(s, "nothing", NoTopic)
    BY <1>0, <1>2, <2>1, RequestMaps DEF IgnorePacket, ServiceAt
  <2>3. PS!Refuse(s)
    BY <1>2, <2>2, SameLinks, SameSubscriptions, SameRecipients
    DEF IgnorePacket, PS!Refuse, chainVars
  <2> QED
    BY <2>3 DEF PS!Next
<1>3. CASE RejectConnect(s)
  <2>1. step' = [step EXCEPT ![s] = "reading"] /\ topic' = [topic EXCEPT ![s] = NoTopic]
    BY <1>0, <1>3 DEF RejectConnect, Dispatch, LocalsInv, TypeOK, chainVars
  <2>2. PS!Request(s, "nothing", NoTopic)
    BY <1>0, <1>3, <2>1, RequestMaps DEF RejectConnect, ServiceAt
  <2>3. Links' = [Links EXCEPT ![s] = "down"]
    BY <1>3 DEF RejectConnect, Links, TypeOK
  <2>4. PS!Refuse(s)
    BY <1>3, <2>2, <2>3, SameSubscriptions, SameRecipients
    DEF RejectConnect, PS!Refuse, chainVars
  <2> QED
    BY <2>4 DEF PS!Next
<1>4. ASSUME NEW c \in Identity[s], ReceiveConnect(s, c) PROVE PS!Next
  <2>1. topic' = [topic EXCEPT ![s] = NoTopic]
    BY <1>0, <1>4 DEF ReceiveConnect, Dispatch, LocalsInv, TypeOK
  <2>2. PS!Request(s, "CONNACK", NoTopic)
    BY <1>0, <1>4, <2>1, RequestMaps DEF ReceiveConnect, ServiceAt
  <2>3. PS!Connect(s)
    BY <1>4, <2>2, SameLinks, SameSubscriptions, SameRecipients
    DEF ReceiveConnect, PS!Connect
  <2> QED
    BY <2>3 DEF PS!Next
<1>5. ASSUME NEW t \in Topics, ReceiveSubscribe(s, t) PROVE PS!Next
  <2>1. PS!Request(s, "SUBACK", t)
    BY <1>0, <1>5, RequestMaps DEF ReceiveSubscribe, ServiceAt
  <2>2. Subscriptions' = Subscriptions \cup {<<s, t>>}
    <3>1. ASSUME NEW q \in Sessions, NEW w \in Topics
          PROVE  (topic_subscribers'[w][q] > 0)
                   <=> (topic_subscribers[w][q] > 0 \/ (w = t /\ q = s))
      BY <1>5 DEF ReceiveSubscribe, AddSubscriber, TypeOK
    <3> QED
      BY <3>1 DEF Subscriptions
  <2>3. PS!Subscribe(s, t)
    BY <1>5, <2>1, <2>2, SameLinks, SameRecipients DEF ReceiveSubscribe, PS!Subscribe
  <2> QED
    BY <2>3 DEF PS!Next
<1>6. ASSUME NEW t \in Topics, ReceiveUnsubscribe(s, t) PROVE PS!Next
  <2>1. PS!Request(s, "UNSUBACK", t)
    BY <1>0, <1>6, RequestMaps DEF ReceiveUnsubscribe, ServiceAt
  <2>2. Subscriptions' = Subscriptions \ {<<s, t>>}
    <3>1. ASSUME NEW q \in Sessions, NEW w \in Topics
          PROVE  topic_subscribers'[w][q] =
                   IF w = t /\ q = s THEN 0 ELSE topic_subscribers[w][q]
      BY <1>6 DEF ReceiveUnsubscribe, RemoveSubscriber, TypeOK
    <3> QED
      BY <3>1 DEF Subscriptions
  <2>3. PS!Unsubscribe(s, t)
    BY <1>6, <2>1, <2>2, SameLinks, SameRecipients DEF ReceiveUnsubscribe, PS!Unsubscribe
  <2> QED
    BY <2>3 DEF PS!Next
<1>7. ASSUME NEW t \in Topics, ReceivePublish(s, t) PROVE PS!Next
  <2>1. PS!Request(s, "PUBACK", t)
    BY <1>0, <1>7, RequestMaps DEF ReceivePublish, ServiceAt
  <2>2. Recipients' = [Recipients EXCEPT ![s] = {r \in Sessions : <<r, t>> \in Subscriptions}]
    BY <1>7 DEF ReceivePublish, Recipients, Subscriptions, TypeOK
  <2>3. PS!Publish(s, t)
    BY <1>7, <2>1, <2>2, SameLinks, SameSubscriptions DEF ReceivePublish, PS!Publish
  <2> QED
    BY <2>3 DEF PS!Next
<1>8. CASE ReadError(s)
  <2>1. PICK x \in {"ended", "erasing"} : step' = [step EXCEPT ![s] = x]
    BY <1>8 DEF ReadError
  <2>2. ServiceAt(x) = ServiceAt(step[s])
    BY <1>8 DEF ReadError, ServiceAt
  <2>3. Service' = Service
    BY <2>1, <2>2, ServiceStays
  <2> QED
    BY <1>8, <2>3, SameLinks, SameSubscriptions, SameRecipients
    DEF ReadError, chainVars, PS!vars
<1>9. CASE WriteFails(s)
  BY <1>9, SameLinks, SameSubscriptions, SameRecipients, SameService
  DEF WriteFails, chainVars, PS!vars
<1> QED
  BY <1>1, <1>2, <1>3, <1>4, <1>5, <1>6, <1>7, <1>8, <1>9 DEF Start

LEMMA StepMaps == TypeOK /\ TablesInv /\ [Next]_vars => [PS!Next]_(PS!vars)
<1> SUFFICES ASSUME TypeOK, TablesInv, [Next]_vars PROVE PS!Next \/ UNCHANGED PS!vars
  OBVIOUS
<1>1. ASSUME NEW s \in Sessions, PeerCloses(s) PROVE PS!Next
  <2>1. Links[s] = "up" /\ Links' = [Links EXCEPT ![s] = "down"]
    BY <1>1 DEF PeerCloses, Links, TypeOK
  <2>2. PS!Breaks(s)
    BY <1>1, <2>1, SameSubscriptions, SameRecipients, SameService
    DEF PeerCloses, PS!Breaks, chainVars
  <2> QED
    BY <2>2 DEF PS!Next
<1>2. CASE Idle \/ UNCHANGED vars
  BY <1>2, SameLinks, SameSubscriptions, SameRecipients, SameService
  DEF Idle, vars, PS!vars
<1> QED
  BY <1>1, <1>2, HandlerMaps, CompletionMaps, StartMaps DEF Next

\* The broker implements PubSub for any number of sessions, clients, topics and
\* threads: no message is lost or doubled in the fan-out, PUBACK comes after it,
\* and subscriptions end only for the three reasons that PubSub gives.
THEOREM Implements == Spec => ImplementsPubSub
<1>1. Init => PS!Init
  BY InitMaps
<1>2. TypeOK /\ TablesInv /\ [Next]_vars => [PS!Next]_(PS!vars)
  BY StepMaps
<1> QED
  BY <1>1, <1>2, Tables, PTL DEF Spec, ImplementsPubSub, PS!Spec

-----------------------------------------------------------------------------
(* What the peer of one session sees: the mapping to BrokerEnd.             *)

\* A request that is being served names a topic if it needs one, and the copies of the
\* subscribers are of sessions that were accepted.
TopicKnown(s) == step[s] \in {"suback", "unsuback", "fanout"} => topic[s] \in Topics
CopyKnown(s) == \A q \in Sessions : left[q][s] > 0 => step[s] # "none"
RequestInv == \A s \in Sessions : TopicKnown(s) /\ CopyKnown(s)

LEMMA RequestsKnown == Spec => []RequestInv
<1>1. Init => RequestInv
  BY DEF Init, RequestInv, TopicKnown, CopyKnown, EmptyBag
<1>2. TypeOK /\ TablesInv /\ RequestInv /\ [Next]_vars => RequestInv'
  <2> SUFFICES ASSUME TypeOK, TablesInv, RequestInv, [Next]_vars PROVE RequestInv'
    OBVIOUS
  <2> USE DEF RequestInv, TopicKnown, CopyKnown, TypeOK
  <2>1. ASSUME NEW q \in Sessions, HandlerStep(q) PROVE RequestInv'
    <3>1. CASE AssignIdentity(q) \/ LookUpClient(q) \/ PurgeOld(q) \/ StoreSession(q)
      BY <3>1 DEF AssignIdentity, LookUpClient, PurgeOld, StoreSession, ReadNext, chainVars
    <3>2. CASE SendSuback(q) \/ SendUnsuback(q) \/ SendPuback(q)
      BY <3>2 DEF SendSuback, SendUnsuback, SendPuback, ReadNext, chainVars
    <3>3. ASSUME NEW r \in Sessions, FanOut(q, r) PROVE RequestInv'
      <4>1. \A x, y \in Sessions : left'[x][y] > 0 => left[x][y] > 0
        BY <3>3 DEF FanOut
      <4> QED BY <3>3, <4>1 DEF FanOut
    <3>4. CASE EraseSession(q) \/ PurgeSession(q)
      BY <3>4 DEF EraseSession, PurgeSession, chainVars
    <3> QED BY <2>1, <3>1, <3>2, <3>3, <3>4 DEF HandlerStep
  <2>2. ASSUME NEW q \in Sessions, CompletionStep(q) PROVE RequestInv'
    BY <2>2 DEF CompletionStep, CompletionErase, CompletionPurge, chainVars
  <2>3. ASSUME NEW q \in Sessions, Start(q) PROVE RequestInv'
    <3>1. CASE Accept(q) \/ IgnorePacket(q) \/ RejectConnect(q)
      BY <3>1 DEF Accept, IgnorePacket, RejectConnect, Dispatch, chainVars
    <3>2. ASSUME NEW c \in Identity[q], ReceiveConnect(q, c) PROVE RequestInv'
      BY <3>2 DEF ReceiveConnect, Dispatch
    <3>3. ASSUME NEW t \in Topics, ReceiveSubscribe(q, t) \/ ReceiveUnsubscribe(q, t)
          PROVE  RequestInv'
      BY <3>3 DEF ReceiveSubscribe, ReceiveUnsubscribe, Dispatch
    <3>4. ASSUME NEW t \in Topics, ReceivePublish(q, t) PROVE RequestInv'
      <4>1. ASSUME NEW y \in Sessions, topic_subscribers[t][y] > 0 PROVE step[y] # "none"
        BY <4>1 DEF TablesInv, IdentityInv
      <4>2. left' = [left EXCEPT ![q] = topic_subscribers[t]]
            /\ step' = [step EXCEPT ![q] = "fanout"] /\ topic' = [topic EXCEPT ![q] = t]
        BY <3>4 DEF ReceivePublish
      <4> QED BY <4>1, <4>2
    <3>5. CASE ReadError(q) \/ WriteFails(q)
      BY <3>5 DEF ReadError, WriteFails, chainVars
    <3> QED BY <2>3, <3>1, <3>2, <3>3, <3>4, <3>5 DEF Start
  <2>4. ASSUME NEW q \in Sessions, PeerCloses(q) PROVE RequestInv'
    BY <2>4 DEF PeerCloses, chainVars
  <2>5. CASE Idle \/ UNCHANGED vars
    BY <2>5 DEF Idle, vars, chainVars
  <2> QED BY <2>1, <2>2, <2>3, <2>4, <2>5 DEF Next
<1> QED BY <1>1, <1>2, Tables, PTL DEF Spec

LEMMA EndInit == Init => \A s \in Sessions : End(s)!Init
<1> SUFFICES ASSUME Init, NEW s \in Sessions PROVE End(s)!Init
  OBVIOUS
<1>1. Links[s] = "unaccepted"
  BY DEF Init, Links
<1>2. Service[s] = "nothing"
  BY DEF Init, Service, ServiceAt
<1>3. Subscriptions = {}
  BY DEF Init, Subscriptions, EmptyBag
<1>4. \A r \in Sessions : Recipients[r] = {}
  BY DEF Init, Recipients, EmptyBag
<1>5. TopicsOf(s) = {} /\ CopiedFor(s) = {} /\ OwedTo(s) = NoTopic
  BY <1>3, <1>4 DEF TopicsOf, CopiedFor, OwedTo
<1>6. SentTo(s) = <<>>
  BY DEF SentTo, Init
<1> QED
  BY <1>1, <1>2, <1>5, <1>6 DEF End!Init

\* What holds of the mapped state, whatever the registry and the threads do.
ViewInv ==
  /\ Links \in [Sessions -> {"unaccepted", "up", "down"}]
  /\ Service \in [Sessions -> PS!Doing]
  /\ Recipients \in [Sessions -> SUBSET Sessions]
  /\ topic \in [Sessions -> Topics \cup {NoTopic}]
  /\ out \in [Sessions -> Seq(Packet)]
  /\ \A s \in Sessions : Recipients[s] # {} => Service[s] = "PUBACK" /\ topic[s] \in Topics
  /\ \A s \in Sessions : Links[s] = "unaccepted" =>
       /\ Service[s] = "nothing" /\ TopicsOf(s) = {}
       /\ \A q \in Sessions : s \notin Recipients[q]

LEMMA ViewHolds == TypeOK /\ TablesInv /\ RequestInv => ViewInv
<1> SUFFICES ASSUME TypeOK, TablesInv, RequestInv PROVE ViewInv
  OBVIOUS
<1>1. Links \in [Sessions -> {"unaccepted", "up", "down"}]
  BY DEF Links
<1>2. Service \in [Sessions -> PS!Doing]
  <2>1. \A x : ServiceAt(x) \in PS!Doing
    BY DEF ServiceAt, PS!Doing
  <2> QED BY <2>1 DEF Service
<1>3. Recipients \in [Sessions -> SUBSET Sessions]
  BY DEF Recipients
<1>4. ASSUME NEW s \in Sessions, Recipients[s] # {}
      PROVE  Service[s] = "PUBACK" /\ topic[s] \in Topics
  <2>1. left[s] # EmptyBag
    BY <1>4, NoRecipients
  <2>2. step[s] = "fanout"
    BY <2>1 DEF TablesInv, LocalsInv
  <2> QED BY <2>2 DEF Service, ServiceAt, RequestInv, TopicKnown
<1>5. ASSUME NEW s \in Sessions, Links[s] = "unaccepted"
      PROVE  /\ Service[s] = "nothing" /\ TopicsOf(s) = {}
             /\ \A q \in Sessions : s \notin Recipients[q]
  <2>1. step[s] = "none"
    BY <1>5 DEF Links, TablesInv, LinkInv
  <2>2. Service[s] = "nothing"
    BY <2>1 DEF Service, ServiceAt
  <2>3. \A t \in Topics : ~(topic_subscribers[t][s] > 0)
    BY <2>1 DEF TablesInv, IdentityInv
  <2>4. \A q \in Sessions : ~(left[q][s] > 0)
    BY <2>1 DEF RequestInv, CopyKnown
  <2> QED BY <2>2, <2>3, <2>4 DEF TopicsOf, Subscriptions, Recipients
<1> QED BY <1>1, <1>2, <1>3, <1>4, <1>5 DEF ViewInv, TypeOK

\* q sends a packet to r.
LEMMA SendSeen ==
  ASSUME ViewInv, NEW s \in Sessions, NEW q \in Sessions, NEW r \in Sessions, NEW type,
         PS!Send(r, type, q)
  PROVE  SentTo(s)' = IF s = r THEN Append(SentTo(s), [type |-> type, topic |->
                                       IF type = "PUB" THEN topic[q] ELSE NoTopic])
                      ELSE SentTo(s)
<1> DEFINE m == [type |-> type, from |-> q, seq |-> received[q], topic |-> topic[q]]
<1>1. out' = [out EXCEPT ![r] = Append(@, m)]
  BY DEF PS!Send
<1>2. CASE s # r
  BY <1>1, <1>2 DEF ViewInv, SentTo
<1>3. CASE s = r
  <2> DEFINE N == Len(out[s])
  <2>1. out'[s] = Append(out[s], m) /\ out[s] \in Seq(Packet)
    BY <1>1, <1>3 DEF ViewInv
  <2>2. N \in Nat /\ DOMAIN out[s] = 1 .. N
    BY <2>1, LenProperties
  <2>3. DOMAIN out'[s] = 1 .. N + 1 /\ \A i \in 1 .. N : out'[s][i] = out[s][i]
    BY <2>1, <2>2
  <2>4. out'[s][N + 1] = m
    BY <2>1, <2>2
  <2> DEFINE e == [type |-> type, topic |-> IF type = "PUB" THEN topic[q] ELSE NoTopic]
  <2>5. Strip(m) = e
    BY DEF Strip
  <2>6. SentTo(s) = [i \in 1 .. N |-> Strip(out[s][i])]
    BY <2>2 DEF SentTo
  <2>7. SentTo(s)' = [i \in 1 .. N + 1 |-> Strip(out'[s][i])]
    BY <2>3 DEF SentTo, Strip
  <2>8. SentTo(s)' = Append(SentTo(s), e)
    <3> HIDE DEF m, e, N
    <3>1. Append(SentTo(s), e) = [i \in 1 .. N + 1 |-> IF i = N + 1 THEN e ELSE SentTo(s)[i]]
      BY <2>2, <2>6
    <3>2. \A i \in 1 .. N : Strip(out'[s][i]) = SentTo(s)[i]
      BY <2>2, <2>3, <2>6
    <3>3. Strip(out'[s][N + 1]) = e
      BY <2>4, <2>5
    <3> QED BY <2>2, <2>7, <3>1, <3>2, <3>3
  <2> QED BY <1>3, <2>8
<1> QED BY <1>2, <1>3

LEMMA SameSent ==
  ASSUME NEW s \in Sessions, out' = out
  PROVE  SentTo(s)' = SentTo(s)
BY DEF SentTo, Strip

LEMMA SameTopicsOf ==
  ASSUME NEW s \in Sessions, Subscriptions' = Subscriptions
  PROVE  TopicsOf(s)' = TopicsOf(s)
BY DEF TopicsOf

\* A request that is not a PUB, or an answer: no copy of the subscribers is concerned.
LEMMA SameCopies ==
  ASSUME ViewInv, NEW s \in Sessions, NEW q \in Sessions, NEW t,
         Recipients' = Recipients, Recipients[q] = {},
         topic' = [topic EXCEPT ![q] = t] \/ topic' = topic
  PROVE  CopiedFor(s)' = CopiedFor(s) /\ OwedTo(s)' = OwedTo(s)
<1>1. \A r \in Sessions : s \in Recipients[r] => topic'[r] = topic[r]
  BY DEF ViewInv
<1> QED BY <1>1 DEF CopiedFor, OwedTo

\* Purging r's subscriptions.
LEMMA WithoutSeen ==
  ASSUME NEW s \in Sessions, NEW r \in Sessions, Subscriptions' = PS!Without(r)
  PROVE  TopicsOf(s)' = IF s = r THEN {} ELSE TopicsOf(s)
BY DEF TopicsOf, PS!Without

\* Every step of PubSub is one of BrokerEnd for s, or one that its peer does not see.
LEMMA EndStep ==
  ASSUME ViewInv, NEW s \in Sessions, PS!Next
  PROVE  End(s)!Next \/ UNCHANGED End(s)!vars
<1> USE DEF PS!Doing
<1> DEFINE Unnoticed == /\ TopicsOf(s)' = TopicsOf(s) /\ CopiedFor(s)' = CopiedFor(s)
                        /\ OwedTo(s)' = OwedTo(s) /\ SentTo(s)' = SentTo(s)
<1>a. Links[s] \in {"unaccepted", "up", "down"} /\ Service[s] \in PS!Doing
  BY DEF ViewInv
<1>b. CASE Links[s] = "down"
  <2>1. Links'[s] = "down"
    BY <1>b DEF PS!Next, PS!Opens, PS!Breaks, PS!Refuse, PS!Connect, PS!Subscribe,
      PS!Unsubscribe, PS!Publish, PS!Deliver, PS!TakeOver, PS!Answer, PS!Registered,
      PS!Forget, ViewInv
  <2> QED BY <1>b, <2>1 DEF End!Next, End!Unheard
<1>1. ASSUME NEW q \in Sessions, PS!Opens(q) PROVE End(s)!Next \/ UNCHANGED End(s)!vars
  <2>1. Unnoticed /\ Service'[s] = Service[s]
    BY <1>1, SameTopicsOf, SameSent DEF PS!Opens, CopiedFor, OwedTo
  <2>2. CASE q = s
    <3>1. Links[s] = "unaccepted" /\ Links'[s] = "up"
      BY <1>1, <2>2 DEF PS!Opens, ViewInv
    <3> QED BY <2>1, <3>1 DEF End!Next, End!Opens
  <2>3. CASE q # s
    <3>1. Links'[s] = Links[s]
      BY <1>1, <2>3 DEF PS!Opens, ViewInv
    <3> QED BY <2>1, <3>1 DEF End!vars
  <2> QED BY <2>2, <2>3
<1>2. ASSUME NEW q \in Sessions, PS!Breaks(q) PROVE End(s)!Next \/ UNCHANGED End(s)!vars
  <2>1. Unnoticed /\ Service'[s] = Service[s]
    BY <1>2, SameTopicsOf, SameSent DEF PS!Breaks, CopiedFor, OwedTo
  <2>2. CASE q = s
    <3>1. Links[s] = "up" /\ Links'[s] = "down"
      BY <1>2, <2>2 DEF PS!Breaks, ViewInv
    <3> QED BY <2>1, <3>1 DEF End!Next, End!Breaks
  <2>3. CASE q # s
    <3>1. Links'[s] = Links[s]
      BY <1>2, <2>3 DEF PS!Breaks, ViewInv
    <3> QED BY <2>1, <3>1 DEF End!vars
  <2> QED BY <2>2, <2>3
<1>c. ASSUME NEW q \in Sessions, NEW answer, NEW t, PS!Request(q, answer, t)
      PROVE  /\ Service'[s] = IF s = q THEN answer ELSE Service[s]
             /\ topic' = [topic EXCEPT ![q] = t] /\ Recipients[q] = {}
             /\ s = q => Service[s] = "nothing" /\ Links[s] # "unaccepted"
             /\ s = q => OwedTo(s) = NoTopic
  BY <1>c DEF PS!Request, ViewInv, OwedTo
<1>3. ASSUME NEW q \in Sessions, PS!Refuse(q) PROVE End(s)!Next \/ UNCHANGED End(s)!vars
  <2>1. Unnoticed /\ Service'[s] = Service[s]
    BY <1>3, <1>c, SameTopicsOf, SameSent, SameCopies DEF PS!Refuse
  <2>2. Links'[s] = Links[s] \/ Links'[s] = "down"
    BY <1>3 DEF PS!Refuse, ViewInv
  <2>3. CASE Links'[s] = Links[s]
    BY <2>1, <2>3 DEF End!vars
  <2>4. CASE Links[s] = "up" /\ Links'[s] = "down"
    BY <2>1, <2>4 DEF End!Next, End!Breaks
  <2>5. ASSUME Links[s] = "unaccepted" PROVE Links'[s] = Links[s]
    BY <1>3, <1>c, <2>5 DEF PS!Refuse, ViewInv
  <2> QED BY <1>a, <1>b, <2>2, <2>3, <2>4, <2>5
\* A request of s is taken with what it does to its subscriptions and its own message.
<1>d. ASSUME NEW p \in End(s)!Request, Links' = Links, out' = out,
             Links[s] # "unaccepted", Service[s] = "nothing",
             Service'[s] = End(s)!AnswerTo[p.type],
             TopicsOf(s)' = End(s)!Apply(TopicsOf(s), p),
             OwedTo(s)' = IF p.type = "PUB" /\ p.topic \in TopicsOf(s) THEN p.topic ELSE NoTopic,
             CopiedFor(s)' = CopiedFor(s)
      PROVE  End(s)!Next
  <2>1. CASE Links[s] = "up"
    <3>1. End(s)!Take(p)
      BY <1>d, <2>1, SameSent DEF End!Take
    <3> QED BY <3>1 DEF End!Next
  <2> QED BY <1>a, <1>b, <1>d, <2>1 DEF End!Next, End!Unheard
<1>4. ASSUME NEW q \in Sessions, PS!Connect(q) PROVE End(s)!Next \/ UNCHANGED End(s)!vars
  <2>1. Unnoticed /\ Links' = Links /\ out' = out
    BY <1>4, <1>c, SameTopicsOf, SameSent, SameCopies DEF PS!Connect
  <2>2. CASE q = s
    <3> DEFINE p == [type |-> "CONN", topic |-> NoTopic]
    <3>1. p \in End(s)!Request /\ End(s)!AnswerTo[p.type] = "CONNACK"
      BY DEF End!Request, End!AnswerTo
    <3>2. End(s)!Apply(TopicsOf(s), p) = TopicsOf(s)
      BY DEF End!Apply
    <3>3. Service'[s] = "CONNACK" /\ Service[s] = "nothing" /\ Links[s] # "unaccepted"
          /\ OwedTo(s) = NoTopic
      BY <1>4, <1>c, <2>2 DEF PS!Connect
    <3>4. p.type # "PUB"
      OBVIOUS
    <3> HIDE DEF p
    <3> QED BY <1>d, <2>1, <3>1, <3>2, <3>3, <3>4
  <2>3. CASE q # s
    BY <1>4, <1>c, <2>1, <2>3 DEF PS!Connect, End!vars
  <2> QED BY <2>2, <2>3
<1>5. ASSUME NEW q \in Sessions, NEW t \in Topics, PS!Subscribe(q, t)
      PROVE  End(s)!Next \/ UNCHANGED End(s)!vars
  <2>1. CopiedFor(s)' = CopiedFor(s) /\ OwedTo(s)' = OwedTo(s) /\ Links' = Links /\ out' = out
    BY <1>5, <1>c, SameCopies DEF PS!Subscribe
  <2>2. CASE q = s
    <3> DEFINE p == [type |-> "SUB", topic |-> t]
    <3>1. p \in End(s)!Request /\ End(s)!AnswerTo[p.type] = "SUBACK"
      BY DEF End!Request, End!AnswerTo
    <3>2. End(s)!Apply(TopicsOf(s), p) = TopicsOf(s) \cup {t}
      BY DEF End!Apply
    <3>3. TopicsOf(s)' = TopicsOf(s) \cup {t}
      BY <1>5, <2>2 DEF PS!Subscribe, TopicsOf
    <3>4. Service'[s] = "SUBACK" /\ Service[s] = "nothing" /\ Links[s] # "unaccepted"
          /\ OwedTo(s) = NoTopic
      BY <1>5, <1>c, <2>2 DEF PS!Subscribe
    <3>5. p.type # "PUB"
      OBVIOUS
    <3> HIDE DEF p
    <3> QED BY <1>d, <2>1, <3>1, <3>2, <3>3, <3>4, <3>5
  <2>3. CASE q # s
    <3>1. TopicsOf(s)' = TopicsOf(s)
      BY <1>5, <2>3 DEF PS!Subscribe, TopicsOf
    <3> QED BY <1>5, <1>c, <2>1, <2>3, <3>1, SameSent DEF PS!Subscribe, End!vars
  <2> QED BY <2>2, <2>3
<1>6. ASSUME NEW q \in Sessions, NEW t \in Topics, PS!Unsubscribe(q, t)
      PROVE  End(s)!Next \/ UNCHANGED End(s)!vars
  <2>1. CopiedFor(s)' = CopiedFor(s) /\ OwedTo(s)' = OwedTo(s) /\ Links' = Links /\ out' = out
    BY <1>6, <1>c, SameCopies DEF PS!Unsubscribe
  <2>2. CASE q = s
    <3> DEFINE p == [type |-> "UNSUB", topic |-> t]
    <3>1. p \in End(s)!Request /\ End(s)!AnswerTo[p.type] = "UNSUBACK"
      BY DEF End!Request, End!AnswerTo
    <3>2. End(s)!Apply(TopicsOf(s), p) = TopicsOf(s) \ {t}
      BY DEF End!Apply
    <3>3. TopicsOf(s)' = TopicsOf(s) \ {t}
      BY <1>6, <2>2 DEF PS!Unsubscribe, TopicsOf
    <3>4. Service'[s] = "UNSUBACK" /\ Service[s] = "nothing" /\ Links[s] # "unaccepted"
          /\ OwedTo(s) = NoTopic
      BY <1>6, <1>c, <2>2 DEF PS!Unsubscribe
    <3>5. p.type # "PUB"
      OBVIOUS
    <3> HIDE DEF p
    <3> QED BY <1>d, <2>1, <3>1, <3>2, <3>3, <3>4, <3>5
  <2>3. CASE q # s
    <3>1. TopicsOf(s)' = TopicsOf(s)
      BY <1>6, <2>3 DEF PS!Unsubscribe, TopicsOf
    <3> QED BY <1>6, <1>c, <2>1, <2>3, <3>1, SameSent DEF PS!Unsubscribe, End!vars
  <2> QED BY <2>2, <2>3
<1>7. ASSUME NEW q \in Sessions, NEW t \in Topics, PS!Publish(q, t)
      PROVE  End(s)!Next \/ UNCHANGED End(s)!vars
  <2>1. Links' = Links /\ out' = out /\ TopicsOf(s)' = TopicsOf(s)
        /\ Recipients' = [Recipients EXCEPT ![q] = {r \in Sessions : <<r, t>> \in Subscriptions}]
        /\ topic' = [topic EXCEPT ![q] = t] /\ Recipients[q] = {}
    BY <1>7, <1>c, SameTopicsOf DEF PS!Publish
  <2>2. \A r \in Sessions : r # q => Recipients'[r] = Recipients[r] /\ topic'[r] = topic[r]
    BY <2>1 DEF ViewInv
  <2>3. topic'[q] = t /\ (s \in Recipients'[q] <=> t \in TopicsOf(s))
    BY <2>1 DEF ViewInv, TopicsOf
  <2>4. CASE q = s
    <3> DEFINE p == [type |-> "PUB", topic |-> t]
    <3>1. p \in End(s)!Request /\ End(s)!AnswerTo[p.type] = "PUBACK"
      BY DEF End!Request, End!AnswerTo
    <3>2. End(s)!Apply(TopicsOf(s), p) = TopicsOf(s)
      BY DEF End!Apply
    <3>3. CopiedFor(s)' = CopiedFor(s)
      BY <2>2, <2>4 DEF CopiedFor
    <3>4. OwedTo(s)' = IF t \in TopicsOf(s) THEN t ELSE NoTopic
      BY <2>3, <2>4 DEF OwedTo
    <3>5. Service'[s] = "PUBACK" /\ Service[s] = "nothing" /\ Links[s] # "unaccepted"
      BY <1>7, <1>c, <2>4 DEF PS!Publish
    <3>6. p.type = "PUB" /\ p.topic = t
      OBVIOUS
    <3> HIDE DEF p
    <3> QED BY <1>d, <2>1, <3>1, <3>2, <3>3, <3>4, <3>5, <3>6
  <2>5. CASE q # s
    <3>1. Service'[s] = Service[s] /\ OwedTo(s)' = OwedTo(s) /\ SentTo(s)' = SentTo(s)
      BY <1>7, <1>c, <2>1, <2>2, <2>5, SameSent DEF PS!Publish, OwedTo
    <3>2. CASE t \in TopicsOf(s)
      <4>1. CopiedFor(s)' = CopiedFor(s) \cup {t}
        BY <2>1, <2>2, <2>3, <2>5, <3>2 DEF CopiedFor
      <4>2. CASE Links[s] = "up"
        <5>1. End(s)!Accept(t)
          BY <2>1, <3>1, <3>2, <4>1, <4>2 DEF End!Accept
        <5> QED BY <5>1 DEF End!Next
      <4>3. CASE Links[s] = "unaccepted"
        BY <3>2, <4>3 DEF ViewInv
      <4> QED BY <1>a, <1>b, <4>2, <4>3
    <3>3. CASE t \notin TopicsOf(s)
      <4>1. CopiedFor(s)' = CopiedFor(s)
        BY <2>1, <2>2, <2>3, <2>5, <3>3 DEF CopiedFor
      <4> QED BY <2>1, <3>1, <4>1 DEF End!vars
    <3> QED BY <3>2, <3>3
  <2> QED BY <2>4, <2>5
<1>8. ASSUME NEW q \in Sessions, NEW r \in Sessions, PS!Deliver(q, r)
      PROVE  End(s)!Next \/ UNCHANGED End(s)!vars
  <2>1. /\ r \in Recipients[q] /\ Recipients' = [Recipients EXCEPT ![q] = @ \ {r}]
        /\ Links' = Links /\ Service' = Service /\ topic' = topic
        /\ TopicsOf(s)' = TopicsOf(s)
    BY <1>8, SameTopicsOf DEF PS!Deliver
  <2>2. topic[q] \in Topics
    BY <2>1 DEF ViewInv
  <2>3. SentTo(s)' = IF s = r THEN Append(SentTo(s), [type |-> "PUB", topic |-> topic[q]])
                     ELSE SentTo(s)
    <3>1. PS!Send(r, "PUB", q)
      BY <1>8 DEF PS!Deliver
    <3> QED BY <3>1, SendSeen
  <2>4. CASE r # s
    <3>1. \A x \in Sessions : s \in Recipients'[x] <=> s \in Recipients[x]
      BY <2>1, <2>4 DEF ViewInv
    <3>2. CopiedFor(s)' = CopiedFor(s) /\ OwedTo(s)' = OwedTo(s)
      BY <2>1, <3>1 DEF CopiedFor, OwedTo
    <3> QED BY <2>1, <2>3, <2>4, <3>2 DEF End!vars
  <2>5. CASE r = s /\ q = s
    <3>1. \A x \in Sessions : x # s => Recipients'[x] = Recipients[x]
      BY <2>1, <2>5 DEF ViewInv
    <3>2. s \notin Recipients'[s] /\ s \in Recipients[s]
      BY <2>1, <2>5 DEF ViewInv
    <3>3. CopiedFor(s)' = CopiedFor(s) /\ OwedTo(s) = topic[s] /\ OwedTo(s)' = NoTopic
      BY <2>1, <3>1, <3>2 DEF CopiedFor, OwedTo
    <3>4. topic[s] # NoTopic
      BY <2>2, <2>5, BrokerAssumption
    <3>5. CASE Links[s] = "up"
      <4>1. End(s)!DeliverOwn
        BY <2>1, <2>3, <2>5, <3>3, <3>4, <3>5 DEF End!DeliverOwn, End!Send, End!P
      <4> QED BY <4>1 DEF End!Next
    <3> QED BY <1>a, <1>b, <2>1, <2>5, <3>5 DEF ViewInv
  <2>6. CASE r = s /\ q # s
    <3>1. \A x \in Sessions : x # q => Recipients'[x] = Recipients[x]
      BY <2>1 DEF ViewInv
    <3>2. s \notin Recipients'[q] /\ s \in Recipients[q]
      BY <2>1, <2>6 DEF ViewInv
    <3>3. OwedTo(s)' = OwedTo(s)
      BY <2>1, <2>6, <3>1 DEF OwedTo
    <3>4. topic[q] \in CopiedFor(s)
      BY <2>6, <3>2 DEF CopiedFor
    <3>5. CopiedFor(s)' \in {CopiedFor(s), CopiedFor(s) \ {topic[q]}}
      <4>1. CopiedFor(s)' = {topic[x] : x \in {y \in Sessions \ {s, q} : s \in Recipients[y]}}
        BY <2>1, <3>1, <3>2 DEF CopiedFor
      <4>2. CopiedFor(s) = CopiedFor(s)' \cup {topic[q]}
        BY <2>6, <3>2, <4>1 DEF CopiedFor
      <4> QED BY <4>2
    <3>6. CASE Links[s] = "up"
      <4>1. End(s)!Deliver(topic[q])
        BY <2>1, <2>3, <2>6, <3>3, <3>4, <3>5, <3>6 DEF End!Deliver, End!Send, End!P
      <4> QED BY <2>2, <4>1 DEF End!Next
    <3> QED BY <1>a, <1>b, <2>1, <2>6, <3>6 DEF ViewInv
  <2> QED BY <2>4, <2>5, <2>6
<1>9. ASSUME NEW q \in Sessions, PS!Answer(q) PROVE End(s)!Next \/ UNCHANGED End(s)!vars
  <2>1. /\ Service[q] \notin {"nothing", "registration"} /\ Recipients[q] = {}
        /\ Service' = [Service EXCEPT ![q] = IF @ = "CONNACK" THEN "registration" ELSE "nothing"]
        /\ Links' = Links /\ TopicsOf(s)' = TopicsOf(s)
        /\ CopiedFor(s)' = CopiedFor(s) /\ OwedTo(s)' = OwedTo(s)
    BY <1>9, SameTopicsOf, SameCopies DEF PS!Answer
  <2>2. Service[q] # "PUB"
    BY DEF ViewInv
  <2>3. SentTo(s)' = IF s = q THEN Append(SentTo(s), [type |-> Service[q], topic |-> NoTopic])
                     ELSE SentTo(s)
    <3>1. PS!Send(q, Service[q], q)
      BY <1>9 DEF PS!Answer
    <3> QED BY <2>2, <3>1, SendSeen
  <2>4. CASE q # s
    <3>1. Service'[s] = Service[s]
      BY <2>1, <2>4 DEF ViewInv
    <3> QED BY <2>1, <2>3, <2>4, <3>1 DEF End!vars
  <2>5. CASE q = s
    <3>1. OwedTo(s) = NoTopic
      BY <2>1, <2>5 DEF OwedTo
    <3>2. Service'[s] = IF Service[s] = "CONNACK" THEN "registration" ELSE "nothing"
      BY <2>1, <2>5 DEF ViewInv
    <3>3. CASE Links[s] = "up"
      <4>1. End(s)!Answer
        BY <2>1, <2>3, <2>5, <3>1, <3>2, <3>3 DEF End!Answer, End!Send, End!P
      <4> QED BY <4>1 DEF End!Next
    <3> QED BY <1>a, <1>b, <2>1, <2>5, <3>3 DEF ViewInv
  <2> QED BY <2>4, <2>5
<1>10. ASSUME NEW q \in Sessions, NEW r \in Sessions, PS!TakeOver(q, r)
       PROVE  End(s)!Next \/ UNCHANGED End(s)!vars
  <2>1. /\ Links' = Links /\ Service' = Service /\ SentTo(s)' = SentTo(s)
        /\ CopiedFor(s)' = CopiedFor(s) /\ OwedTo(s)' = OwedTo(s)
        /\ Service[q] = "registration" /\ Identity[q] \cap Identity[r] # {}
    BY <1>10, SameSent DEF PS!TakeOver, CopiedFor, OwedTo
  <2>2. TopicsOf(s)' = IF s = r THEN {} ELSE TopicsOf(s)
    BY <1>10, WithoutSeen DEF PS!TakeOver
  <2>3. CASE s # r
    BY <2>1, <2>2, <2>3 DEF End!vars
  <2>4. CASE s = r
    <3>1. Service[s] = "registration" \/ ~AloneWithId(s)
      BY <2>1, <2>4 DEF AloneWithId
    <3>2. CASE Links[s] = "up"
      <4>1. End(s)!TakeOver
        BY <2>1, <2>2, <2>4, <3>1, <3>2 DEF End!TakeOver
      <4> QED BY <4>1 DEF End!Next
    <3>3. CASE Links[s] = "unaccepted"
      <4>1. TopicsOf(s) = {}
        BY <3>3 DEF ViewInv
      <4> QED BY <2>1, <2>2, <2>4, <4>1 DEF End!vars
    <3> QED BY <1>a, <1>b, <3>2, <3>3
  <2> QED BY <2>3, <2>4
<1>11. ASSUME NEW q \in Sessions, PS!Registered(q)
       PROVE  End(s)!Next \/ UNCHANGED End(s)!vars
  <2>1. /\ Service[q] = "registration" /\ Service' = [Service EXCEPT ![q] = "nothing"]
        /\ Links' = Links /\ Unnoticed
    BY <1>11, SameTopicsOf, SameSent DEF PS!Registered, CopiedFor, OwedTo
  <2>2. CASE q # s
    <3>1. Service'[s] = Service[s]
      BY <2>1, <2>2 DEF ViewInv
    <3> QED BY <2>1, <3>1 DEF End!vars
  <2>3. CASE q = s
    <3>1. Service[s] = "registration" /\ Service'[s] = "nothing"
      BY <2>1, <2>3 DEF ViewInv
    <3>2. CASE Links[s] = "up"
      <4>1. End(s)!Registered
        BY <2>1, <3>1, <3>2 DEF End!Registered
      <4> QED BY <4>1 DEF End!Next
    <3> QED BY <1>a, <1>b, <3>1, <3>2 DEF ViewInv
  <2> QED BY <2>2, <2>3
<1>12. ASSUME NEW r \in Sessions, PS!Forget(r) PROVE End(s)!Next \/ UNCHANGED End(s)!vars
  <2>1. /\ Links[r] = "down" /\ Links' = Links /\ Service' = Service
        /\ SentTo(s)' = SentTo(s) /\ CopiedFor(s)' = CopiedFor(s) /\ OwedTo(s)' = OwedTo(s)
    BY <1>12, SameSent DEF PS!Forget, CopiedFor, OwedTo
  <2>2. s # r => TopicsOf(s)' = TopicsOf(s)
    BY <1>12, WithoutSeen DEF PS!Forget
  <2>3. CASE s = r
    BY <1>b, <2>1, <2>3
  <2> QED BY <2>1, <2>2, <2>3 DEF End!vars
<1> QED BY <1>1, <1>2, <1>3, <1>4, <1>5, <1>6, <1>7, <1>8, <1>9, <1>10, <1>11, <1>12 DEF PS!Next

\* Every session of the broker is to its peer the BrokerEnd that Client runs against,
\* whatever other clients do and whichever threads run its handlers: what is proved of
\* the client library holds with this broker at the other end.
THEOREM ServesPeers == Spec => ServesEachPeer
<1>1. ASSUME ViewInv, [PS!Next]_(PS!vars)
      PROVE  \A s \in Sessions : [End(s)!Next]_(End(s)!vars)
  <2> SUFFICES ASSUME NEW s \in Sessions PROVE End(s)!Next \/ UNCHANGED End(s)!vars
    OBVIOUS
  <2>1. CASE PS!Next
    BY <1>1, <2>1, EndStep
  <2>2. CASE UNCHANGED PS!vars
    <3>1. UNCHANGED <<Links, Subscriptions, Service, topic, Recipients, out>>
      BY <2>2 DEF PS!vars
    <3>2. TopicsOf(s)' = TopicsOf(s) /\ SentTo(s)' = SentTo(s)
      BY <3>1, SameTopicsOf, SameSent
    <3> QED BY <3>1, <3>2 DEF End!vars, CopiedFor, OwedTo
  <2> QED BY <1>1, <2>1, <2>2
<1>2. TypeOK /\ TablesInv /\ RequestInv /\ [Next]_vars
        => [\A s \in Sessions : [End(s)!Next]_(End(s)!vars)]_vars
  BY <1>1, StepMaps, ViewHolds
<1> QED BY <1>2, EndInit, Tables, RequestsKnown, PTL DEF Spec, ServesEachPeer
=============================================================================
