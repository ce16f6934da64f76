------------------------------- MODULE Client -------------------------------
(***************************************************************************)
(* The client library (src/client/src/client.cpp): the program that calls  *)
(* it, the io thread that connect() starts, and the broker at the other    *)
(* end of the connection, which is a BrokerEnd: what every session of      *)
(* Broker is proved to be to its peer.                                     *)
(*                                                                         *)
(* The reads form one chain of handlers.  The io thread runs them in       *)
(* io_context::run(), and so does the program while it is in poll().       *)
(* mutex_ is held across steps only by disconnect() while it joins the io  *)
(* thread; every other critical section is part of one action.             *)
(***************************************************************************)
EXTENDS Naturals, Sequences

CONSTANTS
  Topics,
  MaxCalls,     \* bound: calls that the program makes
  MaxPublished, \* bound: messages that the broker delivers from other clients
  NoTopic

ASSUME ClientAssumption ==
  NoTopic \notin Topics /\ MaxCalls \in Nat /\ MaxPublished \in Nat

VARIABLES
  user,        \* where the program is: see UserSteps
  request,     \* the request that the program is about to send
  leaving,     \* the disconnect() under way is that of ~Client
  connected,   \* connected_
  socket,      \* socket_: "none", "open" or "closed"
  io,          \* io_thread_: "none" when it is not joinable
  stopped,     \* io_context_ is stopped
  handlers,    \* the topics in topic_handlers_
  reading,     \* where the chain of read handlers is: see ReadSteps
  runner,      \* the thread that runs a handler of it
  message,     \* the topic of the message that it handles
  up,          \* both ends of the connection are there
  toBroker, toClient,   \* packets on their way
  subscribed, copied, serving, owed,   \* the broker's end: see BrokerEnd
  calls, published,
  late,        \* history: callbacks for a topic since its handler was erased
  misled,      \* history: connect() returned false and left its thread running
  broken       \* history: the connection was lost

userVars == <<user, request, leaving, calls>>
ioVars == <<connected, io, stopped, handlers>>
chainVars == <<reading, runner, message>>
brokerVars == <<subscribed, copied, serving, owed>>
wireVars == <<socket, up, toBroker, toClient, brokerVars, published, broken>>
vars == <<userVars, ioVars, chainVars, wireVars, late, misled>>

\* Nobody else presents the client's id.  A former connection of its own is no rival:
\* a client that has disconnected never reads again, and so never gets to subscribe.
End == INSTANCE BrokerEnd WITH
         Alone <- TRUE, link <- IF up THEN "up" ELSE "down", sent <- toClient

UserSteps ==
  {"idle",
   "opening", "waiting",    \* connect(): connected_ checked; asleep for 100 ms
   "storing", "erasing",    \* subscribe(), unsubscribe(): connected_ checked
   "sending",               \* at send_packet
   "closing", "joining",    \* disconnect(): connected_ checked; in join()
   "polling",
   "gone", "crashed"}       \* the Client is destroyed; std::terminate

ReadSteps ==
  {"none", "armed",
   "lookup", "callback",    \* handle_publish, before mutex_; before the callback
   "disconnecting"}         \* a read failed; disconnect(), connected_ checked

\* What the client is sent; what it sends is an End!Request.
Packet ==
  [type : {"PUB"}, topic : Topics] \cup
  [type : {"CONNACK", "PUBACK", "SUBACK", "UNSUBACK"}, topic : {NoTopic}]

EndTypeOK ==
  /\ subscribed \subseteq Topics /\ copied \subseteq Topics
  /\ serving \in {"nothing", "CONNACK", "registration", "PUBACK", "SUBACK", "UNSUBACK"}
  /\ owed \in Topics \cup {NoTopic}

TypeOK ==
  /\ user \in UserSteps /\ request \in End!Request /\ leaving \in BOOLEAN
  /\ connected \in BOOLEAN
  /\ socket \in {"none", "open", "closed"}
  /\ io \in {"none", "starting", "running", "finished"}
  /\ stopped \in BOOLEAN
  /\ handlers \subseteq Topics
  /\ reading \in ReadSteps /\ runner \in {"none", "user", "io"}
  /\ message \in Topics \cup {NoTopic}
  /\ up \in BOOLEAN
  /\ toBroker \in Seq(End!Request) /\ toClient \in Seq(Packet)
  /\ EndTypeOK
  /\ calls \in 0 .. MaxCalls /\ published \in 0 .. MaxPublished
  /\ late \in [Topics -> Nat] /\ misled \in BOOLEAN /\ broken \in BOOLEAN

P(type, topic) == [type |-> type, topic |-> topic]

Init ==
  /\ user = "idle" /\ request = P("CONN", NoTopic) /\ leaving = FALSE /\ calls = 0
  /\ connected = FALSE /\ io = "none" /\ stopped = FALSE /\ handlers = {}
  /\ reading = "none" /\ runner = "none" /\ message = NoTopic
  /\ socket = "none" /\ up = FALSE /\ toBroker = <<>> /\ toClient = <<>>
  /\ subscribed = {} /\ copied = {} /\ serving = "nothing" /\ owed = NoTopic
  /\ published = 0 /\ broken = FALSE
  /\ late = [t \in Topics |-> 0] /\ misled = FALSE

\* The broker knows nothing of the client on a new connection, or once it is gone.
FreshEnd == subscribed' = {} /\ copied' = {} /\ serving' = "nothing" /\ owed' = NoTopic

\* The connection is gone, and what was on it.
HangUp == up' = FALSE /\ toBroker' = <<>> /\ toClient' = <<>> /\ FreshEnd

\* std::terminate: a joinable std::thread is assigned to or destroyed.
Terminate ==
  /\ user' = "crashed" /\ io' = "none" /\ reading' = "none" /\ runner' = "none"
  /\ socket' = "none" /\ HangUp

Call == user = "idle" /\ calls < MaxCalls /\ calls' = calls + 1

-----------------------------------------------------------------------------
(* connect(), which does nothing when connected_ is set.                   *)

Connect ==
  /\ Call /\ ~connected
  /\ user' = "opening"
  /\ UNCHANGED <<request, leaving, ioVars, chainVars, wireVars, late, misled>>

\* A new socket replaces the old one; the broker is not there, or CONN not sent.
OpenFails ==
  /\ user = "opening"
  /\ user' = "idle" /\ socket' = "closed" /\ HangUp
  /\ UNCHANGED <<request, leaving, calls, ioVars, chainVars, published, broken, late, misled>>

\* CONN is sent and io_thread_ assigned a new thread.
Open ==
  /\ user = "opening"
  /\ \/ /\ io = "none"
        /\ user' = "waiting" /\ io' = "starting"
        /\ socket' = "open" /\ up' = TRUE /\ FreshEnd
        /\ toBroker' = <<P("CONN", NoTopic)>> /\ toClient' = <<>>
        /\ UNCHANGED <<reading, runner>>
     \/ io # "none" /\ Terminate
  /\ UNCHANGED <<request, leaving, calls, connected, stopped, handlers, message,
                 published, broken, late, misled>>

\* 100 ms later, whatever has happened meanwhile.
ConnectReturns ==
  /\ user = "waiting"
  /\ user' = "idle"
  /\ misled' = (misled \/ ~connected)
  /\ UNCHANGED <<request, leaving, calls, ioVars, chainVars, wireVars, late>>

-----------------------------------------------------------------------------
(* subscribe(), unsubscribe(), publish(): nothing unless connected_.       *)

Subscribe(t) ==
  /\ Call /\ connected
  /\ user' = "storing" /\ request' = P("SUB", t)
  /\ UNCHANGED <<leaving, ioVars, chainVars, wireVars, late, misled>>

\* Mutant of StoreHandler: the topic was moved into the payload before.
StoreHandlerMoved ==
  /\ user = "storing"
  /\ user' = "sending"
  /\ handlers' = handlers \cup {NoTopic}
  /\ late' = [late EXCEPT ![request.topic] = 0]
  /\ UNCHANGED <<request, leaving, calls, connected, io, stopped, chainVars, wireVars, misled>>

\* Mutant of StoreHandler: SUB is sent first, and the handler stored afterwards.
StoreHandlerLast ==
  /\ user = "storing"
  /\ user' = "sending"
  /\ UNCHANGED <<handlers, late, request, leaving, calls, connected, io, stopped,
                 chainVars, wireVars, misled>>

StoreHandler ==
  /\ user = "storing"
  /\ user' = "sending"
  /\ handlers' = handlers \cup {request.topic}
  /\ late' = [late EXCEPT ![request.topic] = 0]
  /\ UNCHANGED <<request, leaving, calls, connected, io, stopped, chainVars, wireVars, misled>>

Unsubscribe(t) ==
  /\ Call /\ connected
  /\ user' = "erasing" /\ request' = P("UNSUB", t)
  /\ UNCHANGED <<leaving, ioVars, chainVars, wireVars, late, misled>>

\* Mutant of EraseHandler: the handler stays.
EraseHandlerNot ==
  /\ user = "erasing"
  /\ user' = "sending"
  /\ UNCHANGED <<handlers, request, leaving, calls, connected, io, stopped, chainVars,
                 wireVars, late, misled>>

EraseHandler ==
  /\ user = "erasing"
  /\ user' = "sending"
  /\ handlers' = handlers \ {request.topic}
  /\ UNCHANGED <<request, leaving, calls, connected, io, stopped, chainVars, wireVars,
                 late, misled>>

Publish(t) ==
  /\ Call /\ connected
  /\ user' = "sending" /\ request' = P("PUB", t)
  /\ UNCHANGED <<leaving, ioVars, chainVars, wireVars, late, misled>>

\* send_packet: false when the socket is closed, an exception when it is broken.
SendPacket ==
  /\ user = "sending"
  /\ user' = "idle"
  /\ toBroker' = IF up THEN Append(toBroker, request) ELSE toBroker
  /\ UNCHANGED <<request, leaving, calls, ioVars, chainVars, socket, up, toClient,
                 brokerVars, published, broken, late, misled>>

-----------------------------------------------------------------------------
(* disconnect(), poll() and ~Client.                                       *)

\* disconnect() returns at once unless connected_.
Disconnect ==
  /\ Call /\ connected
  /\ user' = "closing"
  /\ UNCHANGED <<request, leaving, ioVars, chainVars, wireVars, late, misled>>

\* ~Client: disconnect(), then the destructor of io_thread_.
Destroy ==
  /\ Call
  /\ leaving' = TRUE
  /\ \/ connected /\ user' = "closing" /\ UNCHANGED <<io, reading, runner, socket, up,
                                                      toBroker, toClient, brokerVars>>
     \/ ~connected /\ io # "none" /\ Terminate
     \/ /\ ~connected /\ io = "none"
        /\ user' = "gone" /\ socket' = "none" /\ HangUp
        /\ UNCHANGED <<io, reading, runner>>
  /\ UNCHANGED <<request, connected, stopped, handlers, message, published, broken,
                 late, misled>>

\* Mutant of Shut: without io_context_.stop().
ShutNoStop ==
  /\ connected' = FALSE /\ socket' = "closed" /\ HangUp
  /\ UNCHANGED stopped

\* What disconnect() does under mutex_ before it joins.
Shut ==
  /\ connected' = FALSE /\ socket' = "closed" /\ HangUp
  /\ stopped' = TRUE

\* Mutant of LockAndShut: the io thread is left to itself.
LockAndShutDetached ==
  /\ user = "closing" \/ (reading = "disconnecting" /\ runner = "user" /\ user = "polling")
  /\ user' = IF leaving THEN "gone" ELSE "idle"
  /\ Shut
  /\ UNCHANGED <<request, leaving, calls, io, handlers, chainVars, published, broken,
                 late, misled>>

\* disconnect() of the program, or of a handler that runs in its poll().
LockAndShut ==
  /\ user = "closing" \/ (reading = "disconnecting" /\ runner = "user" /\ user = "polling")
  /\ user' = "joining"
  /\ Shut
  /\ UNCHANGED <<request, leaving, calls, io, handlers, chainVars, published, broken,
                 late, misled>>

\* Mutant of Joined: the thread is left joinable.
JoinedNot ==
  /\ user = "joining" /\ io \in {"none", "finished"}
  /\ handlers' = {}
  /\ user' = IF leaving THEN "gone" ELSE "idle"
  /\ reading' = "none" /\ runner' = "none"
  /\ UNCHANGED <<io, request, leaving, calls, connected, stopped, message, wireVars,
                 late, misled>>

\* join() returns; the handlers are cleared and mutex_ is released.
Joined ==
  /\ user = "joining" /\ io \in {"none", "finished"}
  /\ io' = "none" /\ handlers' = {}
  /\ user' = IF leaving THEN "gone" ELSE "idle"
  /\ reading' = "none" /\ runner' = "none"
  /\ UNCHANGED <<request, leaving, calls, connected, stopped, message, wireVars,
                 late, misled>>

\* poll() stops an io_context that has nothing to do.
Poll ==
  /\ Call /\ ~stopped
  /\ \/ reading = "none" /\ stopped' = TRUE /\ UNCHANGED user
     \/ reading # "none" /\ user' = "polling" /\ UNCHANGED stopped
  /\ UNCHANGED <<request, leaving, connected, io, handlers, chainVars, wireVars, late, misled>>

PollReturns ==
  /\ user = "polling" /\ runner # "user"
  /\ user' = "idle"
  /\ UNCHANGED <<request, leaving, calls, ioVars, chainVars, wireVars, late, misled>>

-----------------------------------------------------------------------------
(* The io thread and the chain of reads.                                   *)

ReadNext ==
  /\ reading' = (IF socket = "open" THEN "armed" ELSE "none")
  /\ runner' = "none"

\* start_read()
IoStarts ==
  /\ io = "starting"
  /\ io' = "running" /\ ReadNext
  /\ UNCHANGED <<userVars, connected, stopped, handlers, message, wireVars, late, misled>>

\* run() returns when it is stopped, and stops when nothing is left to do.
IoEnds ==
  /\ io = "running" /\ runner # "io"
  /\ stopped \/ reading = "none"
  /\ io' = "finished" /\ stopped' = TRUE
  /\ UNCHANGED <<userVars, connected, handlers, chainVars, wireVars, late, misled>>

CanRun(r) ==
  /\ reading = "armed" /\ ~stopped
  /\ \/ r = "io" /\ io = "running"
     \/ r = "user" /\ user = "polling"

CanReceive(r, p) ==
  /\ CanRun(r) /\ socket = "open"
  /\ toClient # <<>> /\ p = Head(toClient) /\ toClient' = Tail(toClient)

HandleConnack(r) ==
  /\ CanReceive(r, P("CONNACK", NoTopic))
  /\ connected' = TRUE
  /\ UNCHANGED <<userVars, io, stopped, handlers, chainVars, socket, up, toBroker,
                 brokerVars, published, broken, late, misled>>

\* The other acknowledgements are only shown.
HandleAck(r) ==
  /\ \E a \in {"PUBACK", "SUBACK", "UNSUBACK"} : CanReceive(r, P(a, NoTopic))
  /\ UNCHANGED <<userVars, ioVars, chainVars, socket, up, toBroker, brokerVars,
                 published, broken, late, misled>>

HandlePublish(r) ==
  \E t \in Topics :
    /\ CanReceive(r, P("PUB", t))
    /\ reading' = "lookup" /\ runner' = r /\ message' = t
    /\ UNCHANGED <<userVars, ioVars, socket, up, toBroker, brokerVars, published, broken,
                   late, misled>>

\* Mutant of LookUp: a callback that is no longer registered is found all the same.
LookUpStale ==
  /\ reading = "lookup" /\ user # "joining"
  /\ reading' = "callback"
  /\ UNCHANGED <<runner, userVars, ioVars, message, wireVars, late, misled>>

\* The callback is copied under mutex_, which disconnect() holds in join().
LookUp ==
  /\ reading = "lookup" /\ user # "joining"
  /\ \/ message \in handlers /\ reading' = "callback" /\ UNCHANGED runner
     \/ message \notin handlers /\ ReadNext
  /\ UNCHANGED <<userVars, ioVars, message, wireVars, late, misled>>

\* Mutant of Callback: process_packet without the read_header() at its end.
CallbackStop ==
  /\ reading = "callback"
  /\ reading' = "none" /\ runner' = "none"
  /\ late' = [late EXCEPT ![message] = IF message \in handlers THEN 0 ELSE @ + 1]
  /\ UNCHANGED <<userVars, ioVars, message, wireVars, misled>>

Callback ==
  /\ reading = "callback"
  /\ late' = [late EXCEPT ![message] = IF message \in handlers THEN 0 ELSE @ + 1]
  /\ ReadNext
  /\ UNCHANGED <<userVars, ioVars, message, wireVars, misled>>

\* A read fails; disconnect() does nothing unless connected_.
ReadFails(r) ==
  /\ CanRun(r)
  /\ socket # "open" \/ (~up /\ toClient = <<>>)
  /\ \/ connected /\ reading' = "disconnecting" /\ runner' = r
     \/ ~connected /\ reading' = "none" /\ UNCHANGED runner
  /\ UNCHANGED <<userVars, ioVars, message, wireVars, late, misled>>

\* disconnect() on the io thread: joining itself throws, which releases mutex_,
\* skips the rest and ends the thread; io_thread_ stays joinable.
IoDisconnects ==
  /\ reading = "disconnecting" /\ runner = "io" /\ user # "joining"
  /\ Shut
  /\ io' = "finished" /\ reading' = "none" /\ runner' = "none"
  /\ UNCHANGED <<userVars, handlers, message, published, broken, late, misled>>

-----------------------------------------------------------------------------
(* The broker and the network.                                             *)

BrokerTakes ==
  /\ toBroker # <<>>
  /\ toBroker' = Tail(toBroker)
  /\ UNCHANGED <<userVars, ioVars, chainVars, socket, up, published, broken, late, misled>>
  /\ End!Take(Head(toBroker))

\* A PUB whose message is empty is neither published nor acknowledged.  Any PUB may be
\* one of these: messages are left out of the model.
BrokerIgnores ==
  /\ toBroker # <<>> /\ Head(toBroker).type = "PUB"
  /\ toBroker' = Tail(toBroker)
  /\ UNCHANGED <<userVars, ioVars, chainVars, socket, up, published, broken, late, misled>>
  /\ End!Ignore

BrokerServes ==
  /\ UNCHANGED <<userVars, ioVars, chainVars, socket, up, toBroker, published, broken,
                 late, misled>>
  /\ End!DeliverOwn \/ End!Answer \/ End!TakeOver \/ End!Registered

OtherPublishes(t) ==
  /\ UNCHANGED <<userVars, ioVars, chainVars, socket, up, toBroker, published, broken,
                 late, misled>>
  /\ End!Accept(t)

BrokerDelivers(t) ==
  /\ published < MaxPublished
  /\ published' = published + 1
  /\ UNCHANGED <<userVars, ioVars, chainVars, socket, up, toBroker, broken, late, misled>>
  /\ End!Deliver(t)

\* What the broker sent before may still be read, or not.
ConnectionLost ==
  /\ up
  /\ up' = FALSE /\ broken' = TRUE /\ toBroker' = <<>> /\ FreshEnd
  /\ toClient' \in {toClient, <<>>}
  /\ UNCHANGED <<userVars, ioVars, chainVars, socket, published, late, misled>>

BrokerStep ==
  \/ BrokerTakes \/ BrokerIgnores \/ BrokerServes
  \/ \E t \in Topics : OtherPublishes(t) \/ BrokerDelivers(t)

-----------------------------------------------------------------------------
HandlerStep ==
  \/ \E r \in {"io", "user"} :
       HandleConnack(r) \/ HandleAck(r) \/ HandlePublish(r) \/ ReadFails(r)
  \/ LookUp \/ Callback \/ IoDisconnects

\* The steps of a call that the program is in.
InCall ==
  \/ OpenFails \/ Open \/ ConnectReturns
  \/ StoreHandler \/ EraseHandler \/ SendPacket
  \/ LockAndShut \/ Joined \/ PollReturns

NewCall ==
  \/ Connect \/ Disconnect \/ Destroy \/ Poll
  \/ \E t \in Topics : Subscribe(t) \/ Unsubscribe(t) \/ Publish(t)

Next ==
  \/ NewCall \/ InCall
  \/ IoStarts \/ IoEnds \/ HandlerStep
  \/ BrokerStep \/ ConnectionLost

Spec == Init /\ [][Next]_vars

\* Threads that can go on do, and the broker serves requests; nobody has to call, to
\* publish, or to lose a connection.
Fairness ==
  /\ WF_vars(InCall)
  /\ WF_vars(IoStarts) /\ WF_vars(IoEnds) /\ WF_vars(HandlerStep)
  /\ WF_vars(BrokerTakes \/ BrokerIgnores) /\ WF_vars(BrokerServes)

FairSpec == Spec /\ Fairness

-----------------------------------------------------------------------------
\* The process ends by std::terminate only if connect() returned false while it left
\* a thread behind, or the connection was lost and the io thread gave up joining
\* itself: client.cpp:46 and the destructor of io_thread_ meet a joinable thread.
CrashOnlyAfter == user = "crashed" => misled \/ broken

\* The subscriptions s after the requests q: the last one for a topic decides.
After(s, q) ==
  {t \in s : \A i \in DOMAIN q : q[i] # P("UNSUB", t)} \cup
  {t \in Topics : \E i \in DOMAIN q :
     /\ q[i] = P("SUB", t)
     /\ \A j \in DOMAIN q : j > i => q[j] # P("UNSUB", t)}

\* As long as the connection is up, the handlers are those of the subscriptions that
\* the broker will have once it has handled what is on its way and about to be sent:
\* no message of a subscribed topic goes without a handler, and no handler without a
\* subscription (client.cpp:105, 129).
HandlersMatch ==
  up => handlers = IF user = "sending"
                   THEN End!Apply(After(subscribed, toBroker), request)
                   ELSE After(subscribed, toBroker)

\* Once unsubscribe() has erased a handler, at most one callback, whose copy was
\* taken before, is still made.
OneLateCallback == \A t \in Topics : late[t] <= 1

\* After a disconnect(), on whichever thread, no handler runs once the program is out
\* of the call.
SilentOnceStopped == stopped /\ user # "joining" => runner = "none"

\* disconnect() returns, unless the io thread waits for the mutex that disconnect()
\* holds while it joins that thread (client.cpp:84, 325, 70).
DisconnectReturnsOrIoWaits ==
  user = "joining" ~>
    \/ user # "joining"
    \/ runner = "io" /\ reading \in {"lookup", "disconnecting"}

\* A message of a topic with a handler reaches the handler, unless the program
\* unsubscribes first or the connection ends.
MessageReachesHandler ==
  \A t \in Topics :
    (up /\ connected /\ t \in handlers /\ \E i \in DOMAIN toClient : toClient[i] = P("PUB", t))
      ~> (~up \/ t \notin handlers \/ (reading = "callback" /\ message = t))

\* README: disconnect() is the last call, after which the program goes on.
DisconnectReturns == user = "joining" ~> user # "joining"
=============================================================================
