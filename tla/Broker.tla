------------------------------- MODULE Broker -------------------------------
(***************************************************************************)
(* The TinyMQ broker: the registry of sessions and the topic table that    *)
(* Broker keeps (src/src/broker.cpp), and the asio handlers of Session     *)
(* that run on its thread pool (src/src/session.cpp).                      *)
(*                                                                         *)
(* A session has ONE chain of read handlers (read_header, read_payload,    *)
(* process_packet, read_header, ...), so its packets are handled one after *)
(* the other; step[s] is where that chain is.  Write completions are       *)
(* handlers of their own and run concurrently with the chain of the same   *)
(* session.  Each action is what one thread does between two points where  *)
(* another thread can get in: the critical section of topics_mutex_ is     *)
(* always part of one action, that of sessions_mutex_ spans several in     *)
(* register_session, so that mutex is a variable.                          *)
(***************************************************************************)
EXTENDS Integers, Sequences, FiniteSets, FiniteSetsExt

CONSTANTS
  Sessions,          \* Session objects, one per accepted connection
  ClientIds,         \* non-empty client ids
  Topics,            \* topic names
  Identity,          \* the client ids that the peer of a session presents
  ThreadPoolSize,    \* thread_pool_size_
  MaxPackets,        \* bound: packets read from each session
  MaxWriteFailures,  \* bound: failed writes reported on one session
  NoSession, NoClient, NoTopic

ASSUME BrokerAssumption ==
  /\ NoSession \notin Sessions
  /\ NoClient \notin ClientIds
  /\ NoTopic \notin Topics
  /\ Identity \in [Sessions -> SUBSET ClientIds]
  /\ ThreadPoolSize \in Nat
  /\ MaxPackets \in [Sessions -> Nat]
  /\ MaxWriteFailures \in Nat

VARIABLES
  socket,             \* socket_ and its peer: see SocketStates
  step,               \* where the chain of read handlers is: see Steps
  client_id,          \* client_id_
  is_authenticated,   \* is_authenticated_
  new_id,             \* the client id of the CONN being handled
  topic,              \* the topic of the packet being handled
  old,                \* old_session, a local of register_session
  left,               \* subscribers, the copy publish() is iterating over
  sessions,           \* sessions_
  topic_subscribers,  \* topic_subscribers_; a vector is the bag of its entries
  sessions_mutex,     \* the session whose handler holds sessions_mutex_
  erasing,            \* failed writes whose handler is about to erase the session
  purging,            \* ... and those about to purge the topic table
  out,                \* history: the packets handed to async_write, per session
  received,           \* packets read so far, per session
  failed              \* failed writes reported so far, per session

vars == <<socket, step, client_id, is_authenticated, new_id, topic, old, left,
          sessions, topic_subscribers, sessions_mutex, erasing, purging, out,
          received, failed>>

chainVars == <<new_id, topic, old, left>>
identityVars == <<client_id, is_authenticated>>
completionVars == <<erasing, purging, failed>>

SocketStates ==
  {"unaccepted",   \* no such connection yet
   "open",         \* both ends up
   "peer_closed",  \* the peer is gone; what it sent before may still be read
   "closed"}       \* socket_.close() was called

Resting == {"none", "reading", "ended"}

Steps == Resting \cup
  {"connecting",   \* handle_connect is assigning client_id_
   "registering",  \* register_session waits for sessions_mutex_
   "purging_old",  \* it holds the mutex and found an old session
   "storing",      \* it holds the mutex and is about to store the session
   "suback", "unsuback",     \* the topic table is updated, the ack is not sent
   "fanout",       \* publish() is sending to its copy of the subscribers
   "erasing",      \* remove_session, before sessions_.erase
   "purging"}      \* remove_session, before the topic table is purged

Acks == {"CONNACK", "PUBACK", "SUBACK", "UNSUBACK"}

(***************************************************************************)
(* A packet handed to async_write.  Acks are empty on the wire: their      *)
(* `from', `seq' and `topic' are history, the request that is answered.    *)
(***************************************************************************)
Packet == [type : Acks \cup {"PUB"}, from : Sessions, seq : Nat,
           topic : Topics \cup {NoTopic}]

EmptyBag == [s \in Sessions |-> 0]

TypeOK ==
  /\ socket \in [Sessions -> SocketStates]
  /\ step \in [Sessions -> Steps]
  /\ client_id \in [Sessions -> ClientIds \cup {NoClient}]
  /\ is_authenticated \in [Sessions -> BOOLEAN]
  /\ new_id \in [Sessions -> ClientIds \cup {NoClient}]
  /\ topic \in [Sessions -> Topics \cup {NoTopic}]
  /\ old \in [Sessions -> Sessions \cup {NoSession}]
  /\ left \in [Sessions -> [Sessions -> Nat]]
  /\ sessions \in [ClientIds -> Sessions \cup {NoSession}]
  /\ topic_subscribers \in [Topics -> [Sessions -> Nat]]
  /\ sessions_mutex \in Sessions \cup {NoSession}
  /\ erasing \in [Sessions -> Nat]
  /\ purging \in [Sessions -> Nat]
  /\ out \in [Sessions -> Seq(Packet)]
  /\ received \in [Sessions -> Nat]
  /\ failed \in [Sessions -> Nat]

Init ==
  /\ socket = [s \in Sessions |-> "unaccepted"]
  /\ step = [s \in Sessions |-> "none"]
  /\ client_id = [s \in Sessions |-> NoClient]
  /\ is_authenticated = [s \in Sessions |-> FALSE]
  /\ new_id = [s \in Sessions |-> NoClient]
  /\ topic = [s \in Sessions |-> NoTopic]
  /\ old = [s \in Sessions |-> NoSession]
  /\ left = [s \in Sessions |-> EmptyBag]
  /\ sessions = [c \in ClientIds |-> NoSession]
  /\ topic_subscribers = [t \in Topics |-> EmptyBag]
  /\ sessions_mutex = NoSession
  /\ erasing = [s \in Sessions |-> 0]
  /\ purging = [s \in Sessions |-> 0]
  /\ out = [s \in Sessions |-> <<>>]
  /\ received = [s \in Sessions |-> 0]
  /\ failed = [s \in Sessions |-> 0]

-----------------------------------------------------------------------------
(* The operations on the broker's tables, and sending.                     *)

\* Mutant of AddSubscriber: push_back without the std::find.
AddSubscriberAgain(t, s) == [topic_subscribers EXCEPT ![t][s] = @ + 1]

\* subscribe(): push_back unless std::find finds the session already there.
AddSubscriber(t, s) ==
  [topic_subscribers EXCEPT ![t][s] = IF @ = 0 THEN 1 ELSE @]

\* Mutant of RemoveSubscriber: std::remove without erase.
RemoveSubscriberNot(t, s) == topic_subscribers

\* unsubscribe(): std::remove drops every entry of the session.
RemoveSubscriber(t, s) == [topic_subscribers EXCEPT ![t][s] = 0]

\* Mutant of RemoveEverywhere: the vectors are cleared.
RemoveEveryone(r) == [t \in Topics |-> EmptyBag]

\* remove_if over every topic, in register_session and in remove_session.
RemoveEverywhere(r) ==
  [t \in Topics |-> [topic_subscribers[t] EXCEPT ![r] = 0]]

\* Mutant of EraseEntry: sessions_.clear().
EraseAllEntries(c) == [d \in ClientIds |-> NoSession]

\* sessions_.erase(client_id), whatever session the entry refers to.
EraseEntry(c) == [d \in ClientIds |-> IF d = c THEN NoSession ELSE sessions[d]]

\* send_packet(): the write is initiated, its outcome comes later.
Send(r, type, s) ==
  out' = [out EXCEPT ![r] = Append(@, [type |-> type, from |-> s,
                                       seq |-> received[s], topic |-> topic[s]])]

\* The tail of process_packet(): the locals go and read_header() is called.
ReadNext(s) ==
  /\ step' = [step EXCEPT ![s] = "reading"]
  /\ topic' = [topic EXCEPT ![s] = NoTopic]

\* Threads of the pool that are inside a handler.
Busy == Cardinality({s \in Sessions : step[s] \notin Resting})
        + MapThenSumSet(LAMBDA s : erasing[s] + purging[s], Sessions)

ThreadFree == Busy < ThreadPoolSize

\* io_context::run() hands a complete packet of s to a free thread.
Dispatch(s) ==
  /\ step[s] = "reading"
  /\ socket[s] \in {"open", "peer_closed"}
  /\ received[s] < MaxPackets[s]
  /\ ThreadFree
  /\ received' = [received EXCEPT ![s] = @ + 1]

-----------------------------------------------------------------------------
(* Connections.                                                            *)

\* accept_connections(): a session is created and its first read is armed.
Accept(s) ==
  /\ step[s] = "none"
  /\ ThreadFree
  /\ socket' = [socket EXCEPT ![s] = "open"]
  /\ step' = [step EXCEPT ![s] = "reading"]
  /\ UNCHANGED <<identityVars, chainVars, sessions, topic_subscribers,
                 sessions_mutex, completionVars, out, received>>

\* The peer closes the connection, or it breaks.
PeerCloses(s) ==
  /\ socket[s] = "open"
  /\ socket' = [socket EXCEPT ![s] = "peer_closed"]
  /\ UNCHANGED <<step, identityVars, chainVars, sessions, topic_subscribers,
                 sessions_mutex, completionVars, out, received>>

\* A packet without effect: its type is not one of the four requests, its
\* payload is malformed, or it is PUB, SUB or UNSUB before CONN.  No answer.
IgnorePacket(s) ==
  /\ Dispatch(s)
  /\ UNCHANGED <<socket, step, identityVars, chainVars, sessions,
                 topic_subscribers, sessions_mutex, completionVars, out>>

\* Mutant of RejectConnect: process_packet() returns without read_header().
RejectConnectAndStop(s) ==
  /\ Dispatch(s)
  /\ socket' = [socket EXCEPT ![s] = "closed"]
  /\ step' = [step EXCEPT ![s] = "ended"]
  /\ UNCHANGED <<identityVars, chainVars, sessions, topic_subscribers,
                 sessions_mutex, completionVars, out>>

\* handle_connect() with an empty client id closes the socket; the read that
\* process_packet() arms next fails.
RejectConnect(s) ==
  /\ Dispatch(s)
  /\ socket' = [socket EXCEPT ![s] = "closed"]
  /\ UNCHANGED <<step, identityVars, chainVars, sessions, topic_subscribers,
                 sessions_mutex, completionVars, out>>

\* handle_connect(): client_id_ is being assigned.
ReceiveConnect(s, c) ==
  /\ Dispatch(s)
  /\ step' = [step EXCEPT ![s] = "connecting"]
  /\ new_id' = [new_id EXCEPT ![s] = c]
  /\ UNCHANGED <<socket, identityVars, topic, old, left, sessions,
                 topic_subscribers, sessions_mutex, completionVars, out>>

\* The rest of handle_connect() up to register_session(): CONNACK goes out
\* before the session is registered.
AssignIdentity(s) ==
  /\ step[s] = "connecting"
  /\ client_id' = [client_id EXCEPT ![s] = new_id[s]]
  /\ is_authenticated' = [is_authenticated EXCEPT ![s] = TRUE]
  /\ new_id' = [new_id EXCEPT ![s] = NoClient]
  /\ Send(s, "CONNACK", s)
  /\ step' = [step EXCEPT ![s] = "registering"]
  /\ UNCHANGED <<socket, topic, old, left, sessions, topic_subscribers,
                 sessions_mutex, completionVars, received>>

\* register_session(): sessions_mutex_ is taken and the id looked up.
LookUpClient(s) ==
  /\ step[s] = "registering"
  /\ sessions_mutex = NoSession
  /\ sessions_mutex' = s
  /\ old' = [old EXCEPT ![s] = sessions[client_id[s]]]
  /\ step' = [step EXCEPT ![s] = IF sessions[client_id[s]] = NoSession
                                 THEN "storing" ELSE "purging_old"]
  /\ UNCHANGED <<socket, identityVars, new_id, topic, left, sessions,
                 topic_subscribers, completionVars, out, received>>

\* register_session(): the old session loses its subscriptions.
PurgeOld(s) ==
  /\ step[s] = "purging_old"
  /\ topic_subscribers' = RemoveEverywhere(old[s])
  /\ step' = [step EXCEPT ![s] = "storing"]
  /\ UNCHANGED <<socket, identityVars, chainVars, sessions, sessions_mutex,
                 completionVars, out, received>>

\* Mutant of StoreSession: sessions_mutex_ is not released.
StoreSessionAndKeepLock(s) ==
  /\ step[s] = "storing"
  /\ sessions' = [sessions EXCEPT ![client_id[s]] = s]
  /\ old' = [old EXCEPT ![s] = NoSession]
  /\ ReadNext(s)
  /\ UNCHANGED <<socket, identityVars, new_id, left, topic_subscribers,
                 sessions_mutex, completionVars, out, received>>

\* register_session(): the new session replaces the entry; the old one is not
\* closed.  The mutex is released and the next read armed.
StoreSession(s) ==
  /\ step[s] = "storing"
  /\ sessions' = [sessions EXCEPT ![client_id[s]] = s]
  /\ sessions_mutex' = NoSession
  /\ old' = [old EXCEPT ![s] = NoSession]
  /\ ReadNext(s)
  /\ UNCHANGED <<socket, identityVars, new_id, left, topic_subscribers,
                 completionVars, out, received>>

-----------------------------------------------------------------------------
(* Subscribing and publishing.                                             *)

\* handle_subscribe(): Broker::subscribe under topics_mutex_ ...
ReceiveSubscribe(s, t) ==
  /\ Dispatch(s)
  /\ is_authenticated[s]
  /\ topic_subscribers' = AddSubscriber(t, s)
  /\ topic' = [topic EXCEPT ![s] = t]
  /\ step' = [step EXCEPT ![s] = "suback"]
  /\ UNCHANGED <<socket, identityVars, new_id, old, left, sessions,
                 sessions_mutex, completionVars, out>>

\* ... then, the mutex released, send_ack(SUBACK) and the next read.
SendSuback(s) ==
  /\ step[s] = "suback"
  /\ Send(s, "SUBACK", s)
  /\ ReadNext(s)
  /\ UNCHANGED <<socket, identityVars, new_id, old, left, sessions,
                 topic_subscribers, sessions_mutex, completionVars, received>>

\* handle_unsubscribe(): Broker::unsubscribe under topics_mutex_ ...
ReceiveUnsubscribe(s, t) ==
  /\ Dispatch(s)
  /\ is_authenticated[s]
  /\ topic_subscribers' = RemoveSubscriber(t, s)
  /\ topic' = [topic EXCEPT ![s] = t]
  /\ step' = [step EXCEPT ![s] = "unsuback"]
  /\ UNCHANGED <<socket, identityVars, new_id, old, left, sessions,
                 sessions_mutex, completionVars, out>>

\* ... then send_ack(UNSUBACK) and the next read.
SendUnsuback(s) ==
  /\ step[s] = "unsuback"
  /\ Send(s, "UNSUBACK", s)
  /\ ReadNext(s)
  /\ UNCHANGED <<socket, identityVars, new_id, old, left, sessions,
                 topic_subscribers, sessions_mutex, completionVars, received>>

\* handle_publish(): publish() copies the subscribers under topics_mutex_.
ReceivePublish(s, t) ==
  /\ Dispatch(s)
  /\ is_authenticated[s]
  /\ left' = [left EXCEPT ![s] = topic_subscribers[t]]
  /\ topic' = [topic EXCEPT ![s] = t]
  /\ step' = [step EXCEPT ![s] = "fanout"]
  /\ UNCHANGED <<socket, identityVars, new_id, old, sessions,
                 topic_subscribers, sessions_mutex, completionVars, out>>

\* Mutants of FanOut: the loop runs past the end of the copy; it sends the
\* publisher's ack to each subscriber.
FanOutPastEnd(s, r) ==
  /\ step[s] = "fanout"
  /\ left' = [left EXCEPT ![s][r] = @ - 1]
  /\ Send(r, "PUB", s)
  /\ UNCHANGED <<socket, step, identityVars, new_id, topic, old, sessions,
                 topic_subscribers, sessions_mutex, completionVars, received>>

FanOutAck(s, r) ==
  /\ step[s] = "fanout"
  /\ left[s][r] > 0
  /\ left' = [left EXCEPT ![s][r] = @ - 1]
  /\ Send(r, "PUBACK", s)
  /\ UNCHANGED <<socket, step, identityVars, new_id, topic, old, sessions,
                 topic_subscribers, sessions_mutex, completionVars, received>>

\* publish(): one turn of the loop over the copy.  No lock is held.
FanOut(s, r) ==
  /\ step[s] = "fanout"
  /\ left[s][r] > 0
  /\ left' = [left EXCEPT ![s][r] = @ - 1]
  /\ Send(r, "PUB", s)
  /\ UNCHANGED <<socket, step, identityVars, new_id, topic, old, sessions,
                 topic_subscribers, sessions_mutex, completionVars, received>>

\* Mutant of SendPuback: the ack goes out while the loop is still running.
SendPubackEarly(s) ==
  /\ step[s] = "fanout"
  /\ Send(s, "PUBACK", s)
  /\ ReadNext(s)
  /\ UNCHANGED <<socket, identityVars, new_id, old, left, sessions,
                 topic_subscribers, sessions_mutex, completionVars, received>>

\* publish() returns; send_ack(PUBACK) and the next read.
SendPuback(s) ==
  /\ step[s] = "fanout"
  /\ left[s] = EmptyBag
  /\ Send(s, "PUBACK", s)
  /\ ReadNext(s)
  /\ UNCHANGED <<socket, identityVars, new_id, old, left, sessions,
                 topic_subscribers, sessions_mutex, completionVars, received>>

-----------------------------------------------------------------------------
(* Losing a session: remove_session().                                     *)

\* A read fails and the chain of reads ends.  remove_session() returns at once
\* for a session that never sent CONN.
ReadError(s) ==
  /\ step[s] = "reading"
  /\ socket[s] \in {"peer_closed", "closed"}
  /\ ThreadFree
  /\ step' = [step EXCEPT ![s] = IF client_id[s] = NoClient THEN "ended"
                                                          ELSE "erasing"]
  /\ UNCHANGED <<socket, identityVars, chainVars, sessions, topic_subscribers,
                 sessions_mutex, completionVars, out, received>>

\* Mutants of EraseSession: without sessions_mutex_; without the erase.
EraseSessionUnlocked(s) ==
  /\ step[s] = "erasing"
  /\ sessions' = EraseEntry(client_id[s])
  /\ step' = [step EXCEPT ![s] = "purging"]
  /\ UNCHANGED <<socket, identityVars, chainVars, topic_subscribers,
                 sessions_mutex, completionVars, out, received>>

EraseSessionNot(s) ==
  /\ step[s] = "erasing"
  /\ sessions_mutex = NoSession
  /\ step' = [step EXCEPT ![s] = "purging"]
  /\ UNCHANGED <<socket, identityVars, chainVars, sessions, topic_subscribers,
                 sessions_mutex, completionVars, out, received>>

\* The registry part of remove_session(), under sessions_mutex_ ...
EraseSession(s) ==
  /\ step[s] = "erasing"
  /\ sessions_mutex = NoSession
  /\ sessions' = EraseEntry(client_id[s])
  /\ step' = [step EXCEPT ![s] = "purging"]
  /\ UNCHANGED <<socket, identityVars, chainVars, topic_subscribers,
                 sessions_mutex, completionVars, out, received>>

\* Mutant of PurgeSession: the topic table is left alone.
PurgeSessionNot(s) ==
  /\ step[s] = "purging"
  /\ step' = [step EXCEPT ![s] = "ended"]
  /\ UNCHANGED <<socket, identityVars, chainVars, sessions, topic_subscribers,
                 sessions_mutex, completionVars, out, received>>

\* ... and the topic table part, under topics_mutex_.
PurgeSession(s) ==
  /\ step[s] = "purging"
  /\ topic_subscribers' = RemoveEverywhere(s)
  /\ step' = [step EXCEPT ![s] = "ended"]
  /\ UNCHANGED <<socket, identityVars, chainVars, sessions, sessions_mutex,
                 completionVars, out, received>>

\* What remove_session() may read from client_id_ on the thread of a write
\* completion: while handle_connect() is assigning the string that is a data
\* race, and the read yields the old id, the new one, or bytes that are no
\* client's id, the empty string among them.
ReadableIds(s) == IF step[s] = "connecting"
                  THEN {client_id[s], new_id[s], NoClient} ELSE {client_id[s]}

\* The completion handler of an async_write that failed, up to the early return
\* of remove_session().  The write may have been initiated by any session's
\* chain; the handler of one that succeeded does nothing.
WriteFails(s) ==
  /\ socket[s] \in {"peer_closed", "closed"}
  /\ failed[s] < Len(out[s])
  /\ failed[s] < MaxWriteFailures
  /\ ThreadFree
  /\ failed' = [failed EXCEPT ![s] = @ + 1]
  /\ \E c \in ReadableIds(s) :
       erasing' = [erasing EXCEPT ![s] = IF c = NoClient THEN @ ELSE @ + 1]
  /\ UNCHANGED <<socket, step, identityVars, chainVars, sessions,
                 topic_subscribers, sessions_mutex, purging, out, received>>

\* remove_session() called from a write completion: its two parts.
CompletionErase(s) ==
  /\ erasing[s] > 0
  /\ sessions_mutex = NoSession
  /\ \E c \in ReadableIds(s) : sessions' = EraseEntry(c)
  /\ erasing' = [erasing EXCEPT ![s] = @ - 1]
  /\ purging' = [purging EXCEPT ![s] = @ + 1]
  /\ UNCHANGED <<socket, step, identityVars, chainVars, topic_subscribers,
                 sessions_mutex, out, received, failed>>

CompletionPurge(s) ==
  /\ purging[s] > 0
  /\ topic_subscribers' = RemoveEverywhere(s)
  /\ purging' = [purging EXCEPT ![s] = @ - 1]
  /\ UNCHANGED <<socket, step, identityVars, chainVars, sessions,
                 sessions_mutex, erasing, out, received, failed>>

\* Every thread waits in io_context::run(): no handler runs.
Idle ==
  /\ Busy = 0
  /\ UNCHANGED vars

-----------------------------------------------------------------------------
\* The next step of the handler that runs s's chain of reads.
HandlerStep(s) ==
  \/ AssignIdentity(s)
  \/ LookUpClient(s)
  \/ PurgeOld(s)
  \/ StoreSession(s)
  \/ SendSuback(s)
  \/ SendUnsuback(s)
  \/ \E r \in Sessions : FanOut(s, r)
  \/ SendPuback(s)
  \/ EraseSession(s)
  \/ PurgeSession(s)

\* The next step of a handler that runs a failed write's completion.
CompletionStep(s) ==
  \/ CompletionErase(s)
  \/ CompletionPurge(s)

\* A handler starts.
Start(s) ==
  \/ Accept(s)
  \/ IgnorePacket(s)
  \/ RejectConnect(s)
  \/ \E c \in Identity[s] : ReceiveConnect(s, c)
  \/ \E t \in Topics : ReceiveSubscribe(s, t)
  \/ \E t \in Topics : ReceiveUnsubscribe(s, t)
  \/ \E t \in Topics : ReceivePublish(s, t)
  \/ ReadError(s)
  \/ WriteFails(s)

Next ==
  \/ \E s \in Sessions : HandlerStep(s) \/ CompletionStep(s) \/ Start(s) \/ PeerCloses(s)
  \/ Idle

Spec == Init /\ [][Next]_vars

(***************************************************************************)
(* A running thread keeps running, and io_context::run() gets to the       *)
(* failed read of a session.  Peers need not send, close or accept.        *)
(***************************************************************************)
Fairness ==
  \A s \in Sessions :
    /\ WF_vars(HandlerStep(s))
    /\ WF_vars(CompletionStep(s))
    /\ WF_vars(ReadError(s))

FairSpec == Spec /\ Fairness

-----------------------------------------------------------------------------
(* Properties.                                                             *)

\* The peers of the run present one client id per connection.
OneIdentity == \A s \in Sessions : \A c, d \in Identity[s] : c = d

\* Messages of one publishing session reach a subscriber in the order they were
\* published and none reaches it twice, however the fan-outs of several
\* publishers, takeovers and removals interleave (publish, subscribe).
PublisherOrder ==
  \A r \in Sessions : \A i, j \in DOMAIN out[r] :
    /\ i < j
    /\ out[r][i].type = "PUB" /\ out[r][j].type = "PUB"
    /\ out[r][i].from = out[r][j].from
    => out[r][i].seq < out[r][j].seq

\* A session's requests are answered in the order it sent them, each at most
\* once, and only to the session that sent them (send_ack at the end of every
\* handler, read_header after it).
AnswersInOrder ==
  \A s \in Sessions : \A i \in DOMAIN out[s] :
    out[s][i].type \in Acks =>
      /\ out[s][i].from = s
      /\ \A j \in DOMAIN out[s] :
           i < j /\ out[s][j].type \in Acks => out[s][i].seq < out[s][j].seq

\* Once the chain of reads of a session has ended, no topic lists the session:
\* remove_session() ran after the last subscribe(), whatever failed writes did
\* in between.
EndedHoldsNoSubscription ==
  \A s \in Sessions : step[s] = "ended" =>
    \A t \in Topics : topic_subscribers[t][s] = 0

\* ... nor does the registry, provided the session kept to one client id.
EndedNotRegistered ==
  OneIdentity => \A s \in Sessions : step[s] = "ended" =>
    \A c \in ClientIds : sessions[c] # s

\* register_session() uses an iterator it obtained before it purged the topic
\* table: the entry it points at is still there when it is reset and replaced.
RegistrationStable ==
  \A s \in Sessions : step[s] \in {"purging_old", "storing"} =>
    /\ sessions_mutex = s
    /\ sessions[client_id[s]] = old[s]

\* A session that is up, waits for its next packet, sent CONN once and shares
\* its client id with no other session.
Quiet(s) ==
  /\ step[s] = "reading" /\ socket[s] = "open"
  /\ \A r \in Sessions \ {s} : client_id[r] # client_id[s]
  /\ Cardinality({i \in DOMAIN out[s] : out[s][i].type = "CONNACK"}) = 1

\* The last answer that s got about its subscription to t.
Acknowledged(s, t) ==
  \E i \in DOMAIN out[s] :
    /\ out[s][i].type = "SUBACK" /\ out[s][i].topic = t
    /\ \A j \in DOMAIN out[s] :
         j > i => ~(out[s][j].type = "UNSUBACK" /\ out[s][j].topic = t)

\* What the acks told a quiet session is what the topic table says: no other
\* session's removal, takeover or failed write ever costs it a subscription.
AcknowledgedState ==
  OneIdentity => \A s \in Sessions : Quiet(s) =>
    \A t \in Topics : topic_subscribers[t][s] = IF Acknowledged(s, t) THEN 1 ELSE 0

\* The registry knows every quiet session under its client id.
QuietIsRegistered ==
  OneIdentity => \A s \in Sessions : Quiet(s) => sessions[client_id[s]] = s

\* After UNSUBACK a session may still get messages of the topic, because
\* publish() sends to a copy; but at most one from each publisher until it
\* subscribes again.
LateDeliveryBound ==
  \A r \in Sessions : \A i, j, k \in DOMAIN out[r] :
    /\ i < j /\ j < k
    /\ out[r][i].type = "UNSUBACK"
    /\ out[r][j].type = "PUB" /\ out[r][k].type = "PUB"
    /\ out[r][j].topic = out[r][i].topic /\ out[r][k].topic = out[r][i].topic
    /\ out[r][j].from = out[r][k].from
    => \/ \E m \in DOMAIN out[r] :
            m > i /\ out[r][m].type = "SUBACK" /\ out[r][m].topic = out[r][i].topic
       \/ step[r] = "suback" /\ topic[r] = out[r][i].topic

\* No handler blocks for ever: the nested mutexes of register_session() and the
\* separate ones of remove_session() cannot deadlock, and a fan-out ends.
HandlersReturn ==
  \A s \in Sessions :
    /\ step[s] \notin Resting ~> step[s] \in Resting
    /\ erasing[s] + purging[s] > 0 ~> erasing[s] + purging[s] = 0

\* A session whose connection is gone is eventually given up: its chain ends
\* and it is in no topic's list.
DeadPeerForgotten ==
  \A s \in Sessions :
    socket[s] \in {"peer_closed", "closed"} ~>
      /\ step[s] = "ended"
      /\ \A t \in Topics : topic_subscribers[t][s] = 0
      /\ OneIdentity => \A c \in ClientIds : sessions[c] # s

-----------------------------------------------------------------------------
(* What the code's comments and messages say of a client id, and the code  *)
(* does not do.                                                            *)

\* broker.cpp:103 "Client ID already in use, disconnecting old session": two
\* sessions that completed CONN with the same id are not both in service.
OneLiveSessionPerClient ==
  \A r, s \in Sessions :
    /\ client_id[r] = client_id[s] /\ client_id[r] # NoClient
    /\ step[r] = "reading" /\ step[s] = "reading"
    /\ socket[r] = "open" /\ socket[s] = "open"
    => r = s

\* broker.h:43 "client_id -> session": while a session of a client is up and
\* past its registration, the registry has an entry for the client.
LiveClientHasEntry ==
  \A s \in Sessions :
    /\ step[s] = "reading" /\ socket[s] = "open"
    /\ client_id[s] # NoClient
    => sessions[client_id[s]] # NoSession

\* broker.h:43 again: the session an entry leads to is the one of that client.
EntryLeadsToItsClient ==
  \A c \in ClientIds : \A s \in Sessions :
    sessions[c] = s /\ step[s] \in Resting => client_id[s] = c
=============================================================================
