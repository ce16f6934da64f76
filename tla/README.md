# A verification project for TinyMQ

TinyMQ is a small publish/subscribe broker in C++ on boost.asio, with a client
library. This directory holds TLA+ models of it, TLC configurations that check
them on small instances, and TLAPS proofs of what matters most for every
instance. Paths below are those of the repository, `src/` being its root.

## 1. The system

| component | source | state it keeps | operations |
|---|---|---|---|
| registry and topic table | `src/src/broker.cpp`, `broker.h` | `sessions_` (client id to session) under `sessions_mutex_`; `topic_subscribers_` (topic to vector of sessions) under `topics_mutex_` | `accept_connections`, `register_session`, `remove_session`, `subscribe`, `unsubscribe`, `publish` |
| session | `src/src/session.cpp`, `session.h` | `socket_`, `client_id_`, `is_authenticated_`, `read_buffer_` | the chain `read_header`, `read_payload`, `process_packet`; four packet handlers; `send_packet` and its completion |
| packet codec | `src/src/packet.cpp`, `packet.h` | none | `serialize`, `deserialize`, length fields of 8 and 16 bits |
| broker lifecycle | `broker.cpp` (`start`, `stop`), `main.cpp` | `running_`, `acceptor_`, `threads_`, `io_context_`, `g_broker` | `main`, `start`, `stop`, `~Broker`, `signal_handler`, the threads of the pool |
| client library | `src/client/src/client.cpp`, `client.h` | `connected_`, `topic_handlers_` under `mutex_`, `io_thread_` | `connect`, `disconnect`, `subscribe`, `unsubscribe`, `publish`, `poll`, the read chain |
| ESP32 bridge | `src/client/src/esp32-client.cpp` | the client, the current device's socket and buffer | `main`: connects, accepts one device after the other, publishes each line of JSON with `Client::publish` |
| log output, former CLI, JSON library | `terminal_ui.h`, `old_main.bk`, `json.hpp` | none | none that matter here |

How they interact. A pool of threads calls `io_context_.run()`. Each session
arms one read at a time, so its packets are handled one after another on
whichever thread is free; the handlers call the broker, which takes its mutexes.
Three things run beside a session's chain: the chains of other sessions, whose
`publish()` writes to this session's socket; the completion handlers of writes
to it, which call `remove_session()` when a write failed; and the takeover by a
new session with the same client id. Client and broker talk over TCP in packets
(CONN, PUB, SUB, UNSUB and their acks).

What is hard. `publish()` sends to a copy of the subscribers after it unlocked;
`remove_session()` erases by client id, in two separate critical sections;
`register_session()` holds one mutex while it takes the other and keeps an
iterator meanwhile; a removal may be triggered twice, from a read and from a
write, while the session is still handling a packet; connections break at any
moment; `client_id_` is read on one thread while it is assigned on another.
`send_packet()` gives `async_write` a reference to a vector that is gone when it
returns, and two of them may write to one socket at once. `stop()` runs in a
signal handler, on top of whatever the thread was doing, `start()` and `stop()`
included. The client's `disconnect()` joins the io thread while it holds the mutex
that thread's handlers take, and is called by those handlers too; `connect()` goes
by what is there after 100 ms.
`PROJECT.json` lists each of these hazards at its line.

What makes each component correct.

- Registry and topic table: what a client was told by SUBACK and UNSUBACK is what
  the table says; a lost session leaves nothing behind; a client's entry leads to
  its current session; the two mutexes never block each other.
- Session: answers come in the order of requests, one each; messages of one
  publisher come in order and once.
- Codec: what is serialized is what the other side reads.
- Lifecycle: `stop()` returns, joins every thread once, and none runs after it.
- Client: `disconnect()` returns from whichever thread called it; no thread is
  left joinable; handlers and subscriptions agree.
- Bridge: every line that a device sent reaches the broker, once and in order, and is
  published there.

Not all of this holds of the code. Where it does not, the properties of section 3
say how far it holds, or a run of its own shows where it fails.

## 2. The modules

| module | what it is | proofs |
|---|---|---|
| `Broker` | the registry, the topic table and the sessions' handlers | `TableProofs` (types, the tables), `BrokerProofs` (order of messages and answers), `AckProofs` (what acknowledgements tell) |
| `PubSub` | what the broker promises its peers together: the abstract specification of `Broker` | |
| `BrokerEnd` | what one session is to its own peer: a second abstract specification of `Broker`, and the broker that `Client` runs against | |
| `BrokerRefinement` | the mappings from `Broker` to `PubSub` and from each of its sessions to `BrokerEnd` | `RefinementProofs` |
| `BrokerInvariant` | the inductive invariant of `Broker`, in named parts | |
| `Codec` | packets and their bytes, the payload of PUB, as operators | `WireProofs` |
| `Wire` | one direction of a connection, byte by byte: `send_packet`, `async_write`, `read_header`, `read_payload` | `WireProofs` |
| `Client` | the client library: the program and the io thread, with `BrokerEnd` at the other end | `ClientProofs` |
| `Bridge` | the ESP32 bridge, on top of `Client` | `BridgeProofs` |
| `Relay` | what the bridge promises the devices: the abstract specification of `Bridge` | `BridgeProofs` |
| `Lifecycle` | `main()`, `start()`, `stop()`, the pool, signals | `LifecycleProofs` |
| `MCBroker`, `MCWire`, `MCBridge` | constants for TLC | |

What is composed. `Wire` is built on `Codec`, and `Bridge` on `Client`: a step of the
bridge inside a call is a step of `Client`, with its io thread and broker beside it.
`Client` and `Broker` meet in `BrokerEnd`: its actions are the broker's part of `Client`,
and `ServesPeers` proves that every session of `Broker` implements it while its
connection is up. What `Client` shows therefore holds against this broker, with
whatever other sessions do, and not against one made up for it: a message of
somebody else may come between a request and its answer and after the UNSUBACK,
a client's own message comes before its PUBACK, and a takeover may empty the
subscriptions of whoever sent CONN before.

Two things are assumed at that meeting point. `Client` takes `Alone` to be TRUE: no
other connection presents its id. Its own former connection may, and the broker may hear
late that it is closed, but there is nothing to harm: nothing restarts the client's
`io_context_`, so that a client which was connected before reads nothing on a second
connection, is never told CONNACK, and never subscribes. And a lost
connection is one step on both sides, where the broker in truth learns of it later;
`BrokerEnd` says nothing of a session after that.

`Wire` and `Lifecycle` are models of their own, which meet the others at what one assumes
of the other: `Broker` hands packets over whole, which `Wire` shows of every packet
that one write takes and whose length fits; `Lifecycle` has handlers that lock the mutexes
in the one order that `Broker` has them in.

### Broker

State. `socket`, `client_id` and `is_authenticated` are the members of
`Session`; `sessions`, `topic_subscribers` and `sessions_mutex` those of
`Broker`. A vector of subscribers is the bag of its entries (its order shows only
as the order in which the loop of `publish()` serves different subscribers,
which is left open). `step[s]` says where the chain of read handlers of `s` is;
`new_id`, `topic`, `old` and `left` are the locals of the handler that runs
(the id of the CONN, the topic, `old_session`, the copy of the subscribers).
`erasing` and `purging` count the handlers of failed writes that are before the
first and the second critical section of `remove_session()`. `out[s]` is the
history of what was handed to `async_write` for `s`; `received` numbers a
session's packets.

Atomicity. An action is what one thread does up to the next point where another
one can make a difference. A critical section of `topics_mutex_` calls nothing
that blocks and is one action. `sessions_mutex_` is held by `register_session()`
across three (lookup, purge, store), so it is a variable, and every other user
waits for it. Sends are outside all locks and are actions of their own; the loop
of `publish()` takes one action per subscriber.

| action | code |
|---|---|
| `Accept` | `broker.cpp:77-93` |
| `PeerCloses` | the peer (external) |
| `IgnorePacket` | `process_packet` with an unknown type, and the early returns of the handlers |
| `RejectConnect` | `session.cpp:114-117` |
| `ReceiveConnect`, `AssignIdentity` | `handle_connect`; two actions because the assignment of `client_id_` races with `remove_session` |
| `LookUpClient`, `PurgeOld`, `StoreSession` | `register_session` |
| `ReceiveSubscribe`, `SendSuback` | `handle_subscribe` and `Broker::subscribe` |
| `ReceiveUnsubscribe`, `SendUnsuback` | `handle_unsubscribe` and `Broker::unsubscribe` |
| `ReceivePublish`, `FanOut`, `SendPuback` | `handle_publish` and `Broker::publish` |
| `ReadError`, `EraseSession`, `PurgeSession` | a failed read and `remove_session` |
| `WriteFails`, `CompletionErase`, `CompletionPurge` | a failed write and `remove_session` |
| `Idle` | every thread waits for work |

The data race on `client_id_` is a choice: while `handle_connect()` is assigning
it, `remove_session()` on another thread reads the old id, the new one, or
something that is nobody's id (`ReadableIds`).

Abstractions. Packets arrive and leave whole. A write may be reported failed
once its connection is gone, and never otherwise. Payloads are not modelled:
`from` and `seq` identify a message. An entry of `topic_subscribers_` with an
empty vector is the same as none.

### PubSub

Subscriptions are a set of pairs. A PUB fixes its recipients when it is taken;
each gets it once, and PUBACK comes after the last. A subscription ends for
three reasons only: UNSUB, a CONN with an id that the session also presents, or
a lost connection. `BrokerRefinement` maps `step` to the request being served,
the bag `left[s]` to the recipients still to be served, and the tables to the
relation; registry, mutexes and removal handlers disappear.

### BrokerEnd

The same broker, seen from one connection (`link`): what the peer is subscribed to,
`serving`, the request taken from it by the answer that is due, `owed`, its own message
that it has still to get, `copied`, the topics of messages that others have in their
copies for it, and `sent`. `Take` a request; `DeliverOwn` and `Answer` it; `Accept` and
`Deliver` a message of somebody else; `TakeOver`, `Registered` end the handling of CONN.
A request with an empty payload, or an empty message, gets no answer (`Ignore`).
`copied` is a set, so that two publishers of one topic are one element which `Deliver`
keeps or removes. Who the others are and how many does not show. `BrokerRefinement` maps a session to it
through the mapping of `PubSub`: `TopicsOf`, `CopiedFor`, `OwedTo` and `SentTo` are its part
of the relation, of everybody's recipients and of `out`.

### Codec and Wire

`Codec` has the constructor of `Packet` (the length cut to 16 bits), `serialize`,
`deserialize`, the payload that `Client::publish` and `Broker::publish` build and the
way `handle_publish` takes it apart. A byte has `Base` values, so that length fields
count to `Base * Base - 1` and `Base - 1`; the code's `Base` is 256.

`Wire` is one direction of a connection. `stream` is every byte ever put on it, `pos`
how far the reader has come, `sent` the calls of `send_packet` with what each has
still to write, `got` what was handed to `process_packet`.

| action | code |
|---|---|
| `Send` | `send_packet`, up to the return of `async_write`, which tries a first write |
| `WriteRest` | the rest of that write, by whichever thread is free: its bytes come from the freed vector |
| `ReadHeader`, `ReadPayload` | the completion handlers of the two reads |
| `Quiet` | nobody sends and the reader waits |

The first write takes what the socket buffers have room for (`Room`), at most
`MaxTransfer` bytes, or nothing while another write of the socket is not finished.
Undefined behaviour is a value of its own: a byte of freed memory is `Freed`, and a
reader whose header has one is "astray" and reads no further, because anything may
follow. The other side uses the same framing, so the module stands for both
directions. Connections do not break in it: that is in `Broker` and `Client`.

### Client

`user` says where the program is (idle, or at which point of which call), `reading`
where the chain of read handlers is and `runner` which thread runs it: the io
thread, or the program itself while it is in `poll()`. `connected`, `socket`, `io`,
`stopped` and `handlers` are the members of `Client`; `up`, `toBroker` and `toClient` are the
connection, `subscribed`, `copied`, `serving` and `owed` the broker (`BrokerEnd`), which
begins anew with each connection (`FreshEnd`).

| action | code |
|---|---|
| `Connect`, `OpenFails`, `Open`, `ConnectReturns` | `connect()`: the check, resolve/connect/CONN, the new thread, the 100 ms |
| `Subscribe`, `StoreHandler`, `Unsubscribe`, `EraseHandler`, `Publish`, `SendPacket` | the three requests: the check of `connected_`, the handlers under `mutex_`, the write |
| `Disconnect`, `LockAndShut`, `Joined`, `Destroy` | `disconnect()` and `~Client` |
| `Poll`, `PollReturns` | `poll()` |
| `IoStarts`, `IoEnds` | `start_read()` and `run()` in the io thread |
| `HandleConnack`, `HandleAck`, `HandlePublish`, `LookUp`, `Callback` | `process_packet` and its handlers |
| `ReadFails`, `IoDisconnects` | a failed read, which calls `disconnect()` on the io thread |
| `BrokerTakes`, `BrokerIgnores`, `BrokerServes`, `OtherPublishes`, `BrokerDelivers` | the broker: actions of `BrokerEnd`, with `toBroker` as what it reads and `toClient` as what it sends; any PUB may have an empty message and be ignored (`session.cpp:131`) |
| `ConnectionLost` | external: the network |

`mutex_` needs no variable: the only one to hold it across steps is `disconnect()`
while it joins, which is `user = "joining"`. A `std::thread` that is assigned to or
destroyed while joinable ends the process ("crashed"); one that joins itself throws,
which releases the mutex, skips the rest of `disconnect()` and ends the io thread.
`connected_` is a plain `bool` that two threads use; it is read and written at one
point each. `close()` and `io_context_.stop()` are one action: nothing on the other
thread tells them apart, since a handler that begins in between finds a closed
socket. Callbacks do not call the client.

### Bridge

`at` is where `main()` is; `Devices` is what each device sends, a line being a topic,
`Bad` (no JSON, or without topic and data) or `Cut` (no newline at the end). What the
lengths of a line do to it goes by its topic: `Empty` lines have empty data, `Long` ones a
topic of more than 255 bytes, `Oversized` ones make a payload of more than 65535 bytes.
`lines`, `reached` and `forwarded` are the histories that the properties compare: the
lines taken from devices, the messages that the broker read, and what it made of each.
The bridge subscribes to nothing, so that no message comes back. The result of `publish()`
is ignored, as in the code.

| action | code |
|---|---|
| `CallConnect`, `LeaveConnect`, `Listen` | `client.connect()` and the acceptor |
| `AcceptDevice`, `ReadLine`, `DeviceEnds` | the two loops |
| `CallPublish`, `PublishReturns`, `Leave` | `client.publish()`; the way out and `~Client` |
| `BrokerConnects`, `BrokerAnswers` | the broker takes CONN; its acks |
| `BrokerPublishes` | `Session::handle_publish`: a message is published (`BrokerTakes`), or dropped without PUBACK because it is empty (`BrokerIgnores`, `session.cpp:131`); `Made` says which, and under which topic |
| `BrokerLosesStep` | the header of an oversized packet has its length modulo 2^16 (`packet.cpp:11`), and the broker takes the bytes beyond for packets |

After `BrokerLosesStep` the broker is not followed any further (`inStep`): what it reads
then is any bytes of the line, and the properties say nothing of it. `Wire` has the bytes.

`Relay` takes lines and gives them their outcomes (`Outcome`), each time that of the next
line, until it closes for good. `Bridge` maps to it with `lines`, `forwarded`, `Made`, and
"open" as long as a connection is there or still to come and the broker is in step.

### Lifecycle

`main` is where `main()` is. `stop()` can be under way in three frames at once
(`Frames`): called by `main()` or `~Broker` ("program"), by the signal handler on the
main thread ("handler"), which suspends `main()`, and by the signal handler on a
thread of the pool ("stray"), which suspends that thread; `step[f]` is where each is.
`pool[i]` is what thread i does, `joinable` the elements of `threads_` that are,
`accept` whether `async_accept` is armed or its handler runs.

| action | code |
|---|---|
| `StartBroker`, `AcceptConnections`, `SpawnThread`, `AllSpawned`, `NameEndpoint` | `start()` |
| `SpawnFails`, and `NameEndpoint` on a closed acceptor | an exception out of `start()`: `~Broker`, and the catch of `main()` |
| `StartPrinting`, `EndPrinting`, `Enter`, `StopReturns`, `ForgetBroker`, `DestroyBroker`, `ReturnFailure` | `main()` |
| `Signal`, `SignalMessage`, `MessageHangs` | `signal_handler` |
| `CheckRunning`, `ShutDown`, `JoinThread`, `JoinThrows`, `AllJoined`, `ClearTables` | `stop()` |
| `TakeHandler`, `HandlerLocks`, `HandlerPrints`, `HandlerReturns`, `HandlerThrows`, `RunReturns` | the lambda of a thread, with a handler in `run()` |

Every handler logs, so it takes the lock of `std::cout` (`console`), and most do so inside
of a critical section of `sessions_mutex_`, of `topics_mutex_`, or of the first with the
second inside (`register_session`): `needs` is what a handler has still to lock, `held` who
holds each mutex. A handler here is one such section with at most one message; what a
handler of asio does in several is several in a row. `register_session` prints only before
and after it has both mutexes, where the model lets it wait for the console with both: more
waiting than the code has, never less.

A thread that a signal interrupts keeps what it holds, and others then wait for it. When
the frame on top of it joins one of those, nobody goes on any more, and the two liveness
properties say no more than that this is the only reason. `Waits(i, j)` is who waits for
whom (in `join()`, for the console, for a mutex), and `HeldUp` a circle of threads, each
waiting for another of the circle, with the join of an interrupting frame in it; a circle
without one, as handlers that lock the two mutexes in opposite orders would make, breaks
`SignalStopsPool`. Another reason is `Hung`: the handler's message calls `localtime()` and
allocates, and waits for itself if it interrupted either (`MessageHangs`). The
circle needs little: one signal on the main thread and, while its handler runs, one on a
thread of the pool that is in a critical section which another thread waits for.

`running_` is a plain `bool`; each access is taken to be one step. SIGINT and SIGTERM are
one signal. A signal that arrives while the handler is on the main thread goes to a thread of
the pool, because the first one is blocked there meanwhile.

The operators whose comment begins with "Mutant of" are not used by the model.
Each is the operation after it with a plausible bug; putting it in the place of
that operation makes a property fail, which shows that the property depends on
the code it is about. `PROJECT.json` says which breaks which.

## 3. What TLC checks

| run | instance | what it shows |
|---|---|---|
| `takeover` | two sessions with one client id, 3 packets each, 1 topic, 2 threads, 1 failed write each; symmetric sessions | `PublisherOrder`, `AnswersInOrder`, `LateDeliveryBound` on what is sent; `EndedHoldsNoSubscription`, `EndedNotRegistered`, `RegistrationStable` on the tables |
| `reconnecting` | sessions s1 and s2 of client c (2 and 1 packets), s3 of client d (2), 1 failed write each | `AcknowledgedState`, `QuietIsRegistered`: c's reconnection costs d nothing; `ServesEachPeer`, of a session that is alone with its id and of two that are not |
| `refinement` | s1 may present ids c and d (3 packets), s2 presents c (2), 1 failed write each | `IInv` and `ImplementsPubSub` |
| `liveness` | two sessions with one client id, 2 packets each, 1 failed write each | `HandlersReturn`, `DeadPeerForgotten` |
| `wire` | bytes of 3 values; 6 kinds of packet around the limits of the length fields and of one transfer, 3 packets, room for 14 bytes | `InStep`: a damaged packet harms only what follows; `HandedOverIntact`: which publications survive the layout; `DeserializeAgrees`; `CleanArrives` |
| `client` | 4 calls, 2 topics, 2 messages of others, connections that may break | `CrashOnlyAfter`, `HandlersMatch`, `OneLateCallback`, `SilentOnceStopped`, `DisconnectReturnsOrIoWaits`, `MessageReachesHandler` |
| `bridge` | two devices, 6 lines with topic and data, of which one has empty data, one a long topic and one an oversized payload, a bad one and one cut off | `NothingLostWhileUp`, `FirstLinesForwarded`, `ImplementsRelay`, `LineForwarded` |
| `lifecycle` | 2 threads, 2 signals, 2 exceptions out of handlers | `CrashOnlyBySignal`, `CleanExit`, `KeepsAccepting`, `ClearedAfterHandlers`, `EnterEnds`, `SignalStopsPool` |

Four runs show what the code does not do, against its own words:

| run | the code says | TLC finds |
|---|---|---|
| `old_stays_up` | "Client ID already in use, disconnecting old session" (`broker.cpp:103`) | both sessions of the id in service: nothing closes the old one |
| `stale_removal` | "client_id -> session" (`broker.h:43`) | the old session's `remove_session()` erases the new session's entry |
| `second_name` | the same | after CONN c, CONN d on one connection, c's entry leads to a session whose id is d |
| `client_disconnect` | `disconnect()` is the last call of a program, which then goes on (`src/client/README.md:82-83`) | a message arrives while `disconnect()` holds `mutex_` in `join()`: its handler waits for the mutex, and `disconnect()` for the handler |

Bounds. `MaxPackets` is the number of packets read from each session and
`MaxWriteFailures` that of failed writes reported for it; both are guards.
Three packets are the least with which a session can connect, subscribe and
unsubscribe while another connects and publishes twice; with two sessions on one
id there is takeover, a second takeover by the first session, re-subscription
after a takeover, a stale removal and a failed write in any interleaving. Two
threads are the least that interleave; the chains of two sessions and one
write completion compete for them. A third session is needed only for a
bystander.

`wire`: with `Base` 3 a packet of 9 payload bytes is one too long for its length field
and a topic of 3 one too long for its length byte; the buffer holds the largest packet
that fits, `MaxTransfer` is one less than that packet, and three calls of `send_packet`
let one be cut, a second one overlap it and a third one follow. `client`: 4 calls are
connect, subscribe, unsubscribe, disconnect, or two connects with something between
them; the broken connection and the poll come in anywhere; `MaxPublished` bounds the
messages of others that are delivered, and 2 are the least for one before and one after
an unsubscribe. `bridge`: 8 calls are connect, six lines and
the destructor; a good line comes after each kind of special one. `lifecycle`: two signals are the least that have `stop()` in two frames
besides that of `main()`; two threads are the least of which one can join the other, or wait for a mutex that the
other holds;
two exceptions empty the pool. What is proved (section 4) does not depend on any of
the bounds.

Deadlock is checked in the runs of `Broker` and `Wire`; `Idle` and `Quiet` let them wait
when nothing is under way, so a deadlock would be one with handlers that cannot go on.
The other three really stop (the process ends, a call blocks for ever), so there
deadlock is not an error; what must not stop is said by their liveness properties.

Fairness. A thread that is inside a handler goes on (`HandlerStep`,
`CompletionStep`): threads are scheduled by the system, and no handler waits for
a peer. A failed read is eventually delivered (`ReadError`) because it completes
and `io_context::run()` serves its queue. Nothing is assumed of peers: they need
not connect, send or close, and no packet need arrive. `Wire`: reads whose bytes are
there complete. `Client` and `Bridge`: a thread inside a call or a handler goes on
when it can, and the broker takes each request and serves it (`HandlersReturn` is why it
may be assumed to); nobody has to call, publish or lose a
connection, and devices need not send. `Lifecycle`: the same for `main()`, frames and
pool, and who waits for the console or a mutex gets it if it comes free again and again
(strong fairness of each thread: the main thread with the frames on it, and each thread of
the pool with the stray frame on it; without contention for a lock it says no more than weak
fairness). Nobody has to press Enter, to signal or to connect, and no message need hang.

Preconditions. `EndedNotRegistered`, `AcknowledgedState` and `QuietIsRegistered`
hold for connections that keep to one client id; `second_name` shows what happens
otherwise. `Quiet` in the last two means: up, between packets, connected once and
alone with its id, which is what a client that behaves sees at rest. In `Bridge`,
`NothingLostWhileUp` is about the way to the broker, while the connection is up and no
payload was oversized; what happens to a line there is `FirstLinesForwarded`. A line with
empty data is lost at the broker though nothing failed, and one with a long topic is published
under another: that is what the code does, and the properties say that it happens to
exactly those lines. `EnterEnds` and `SignalStopsPool` hold up to `HeldUp` and `Hung`.

## 4. What is proved

For all values of the constants that satisfy `BrokerAssumption` (the sentinels
are outside their sets, each connection presents ids of `ClientIds`, the bounds
are numbers; `ThreadPoolSize` may be 0):

| theorem | statement |
|---|---|
| `TypeCorrect` | `Spec => []TypeOK` |
| `RegistrationSafe` | `Spec => []RegistrationStable` |
| `EndedForgotten` | `Spec => []EndedHoldsNoSubscription` |
| `EndedUnregistered` | `Spec => []EndedNotRegistered` |
| `Invariance` | `Spec => []IInv` |
| `MessageOrder` | `Spec => []PublisherOrder` |
| `AnswerOrder` | `Spec => []AnswersInOrder` |
| `Implements` | `Spec => ImplementsPubSub` |
| `ServesPeers` | `Spec => ServesEachPeer` |
| `AcksTellTheTable` | `Spec => []AcknowledgedState` |
| `QuietRegistered` | `Spec => []QuietIsRegistered` |
| `LateDeliveryBounded` | `Spec => []LateDeliveryBound` |

The argument. `TypeOK` is not inductive: `register_session()` indexes the
registry with `client_id_`, which must be known to be a client's id
(`IdentityInv`). The inductive invariant `IInv` has these parts, each with a step
lemma of one case per action:

- `LinkInv`: only a session whose connection is lost is ever removed;
- `IdentityInv`: only connected sessions are registered, subscribed or removed,
  and under ids their peer presents;
- `MutexInv`: `sessions_mutex_` is held exactly from the lookup to the store, and
  the looked-up entry is unchanged meanwhile;
- `LocalsInv`: a handler's locals are gone when it returns;
- `TopicInv`: no duplicates in a vector of subscribers nor in a copy of it, and no
  entry of an ended session;
- `RegistryInv`: with one id per connection, a session past its erase is nowhere
  in the registry;
- `SequenceInv`: every packet already sent numbers a request already taken, and a
  message still to be delivered, or an answer still owed, has a higher number
  than all sent before. This is why order survives any interleaving: `FanOut`
  decreases a count that `TopicInv` bounds by 1.

`Implements` uses `TypeOK` and `TablesInv`: each action is shown to be one step of
`PubSub` or none, by lemmas that say how each part of the mapping changes.
`TopicInv` is what makes a turn of the loop the removal of a recipient, `MutexInv`
and `IdentityInv` what makes `PurgeOld` a takeover between sessions of one client
id, `LinkInv` what makes a purge the forgetting of a lost connection.

`ServesPeers` is proved on top of that, from steps of `PubSub` instead of steps of
`Broker`: each of them is a step of `BrokerEnd` for every session, or none. `ViewInv` is what it needs
of the mapped state (a session with recipients is serving a publication and knows its topic,
one not yet accepted has no subscription and is owed nothing), and `RequestInv` that the copies of
`publish()` hold subscribers only. The same step is a different one for different
peers: a turn of the loop is `DeliverOwn` for the publisher, `Deliver` for the subscriber,
and nothing for the rest; a CONN is `Registered` for its sender and `TakeOver` for those
that share its id.

`AcksTellTheTable`, `QuietRegistered` and `LateDeliveryBounded` rest on `AckInv`, inductive on
top of `TypeOK` and `TablesInv`. `NameInv`: a session has a name exactly when CONNACK was
sent to it, so that whoever sent CONN once is registering for the first time and is not its
own old session. `EntryInv`, `ToldInv`: what the two properties say at rest, said of every
point of the handlers (`Told`: a SUBACK that is due counts as given); they hold for a session
that is up and alone with its id because a removal needs a lost connection and a takeover an
equal id. `OffInv`: after the last UNSUBACK for a topic the session is not in its list, and a
publisher that sent it a message since has none left for it, since a vector has no duplicates
and the copies were taken before.

For the other modules, under their own assumptions, for any `Base`, packets, room, topics,
calls, messages, devices, size of the pool, signals and exceptions:

| theorem | statement |
|---|---|
| `DeserializeInverts` | `Deserialize(Serialize(MakePacket(t, p)))` has type t and payload p if p fits the length field |
| `PublicationRoundTrip` | which publications `SplitPublish` gives back |
| `WireInvariance`, `WireTypeCorrect`, `StaysInStep`, `DeserializeMatchesReads`, `IntactExactlyWhenItFits` | `WireInv`, `TypeOK`, `InStep`, `DeserializeAgrees`, `HandedOverIntact` |
| `ClientInvariance`, `ClientTypeCorrect`, `TerminateHasCause`, `HandlersAreSubscriptions`, `AtMostOneLateCallback`, `StoppedIsSilent` | `ClientInv`, `TypeOK`, `CrashOnlyAfter`, `HandlersMatch`, `OneLateCallback`, `SilentOnceStopped` |
| `BridgeUsesClient`, `BridgeTypeCorrect`, `BridgeTerminateHasCause` | `BridgeSpec => Spec`, `BridgeTypeOK`, `CrashOnlyAfter` |
| `LinesInvariance`, `NoLineLost`, `NoGapInLines` | `LinesInv`, `NothingLostWhileUp`, `FirstLinesForwarded` |
| `RelayImplemented` | `BridgeSpec => ImplementsRelay` |
| `LifecycleInvariance`, `LifecycleTypeCorrect`, `TerminateNeedsSignal`, `ExitIsClean`, `AcceptIsRenewed`, `TablesOutliveHandlers` | `LifeInv`, `TypeOK`, `CrashOnlyBySignal`, `CleanExit`, `KeepsAccepting`, `ClearedAfterHandlers` |

`WireInv` says, of the packets before the first one that is not clean, where each
begins in the stream and which bytes stand there, that the next one begins where the
last ends, and at which of these places the reader is. Clean packets leave nothing to
write, so that `WriteRest` only ever adds behind them; this is what makes the damage
of one packet harmless to those before it. `DeserializeAgrees` and `HandedOverIntact`
then follow from the round trips of `Codec`.

`ClientInv` is `TypeOK` with `ThreadInv` (what each point of the program's calls says of
the io thread, the reads and the connection, and the other way round), `BlameInv` (a
thread left joinable while `connected_` is off, or `connected_` on without a connection,
has a cause in the history), `LateInv` (no callback was late yet for a topic with a
handler, or with a callback under way), `ServiceInv` (a CONN is the first request of a
connection and is served before anything is subscribed) and `HandlersMatch`. `ServiceInv`
is what makes the takeover of `BrokerEnd`, at the end of every CONN, harmless to a client that is
alone with its id: there is nothing yet to lose. `HandlersMatch` is inductive with the
point between the check and the write (`user = "sending"`) named, because appending a
request to what is on its way is the same as applying it after. `OneLateCallback` rests
on the chain of reads being one: a callback for an erased topic can only be the one
whose copy was taken before.

`BridgeUsesClient` maps each step of the bridge to a step of `Client` or none, so what is
proved of `Client` holds for the bridge without a second proof.

`LinesInv` has two parts. `WayInv` is the way of the lines to the broker: while the
connection is up and in step, they are those that reached it, those on their way and the
one in hand (`NothingLostWhileUp`), and at any time those that reached it are the first of
them (`ReachedFirst`); it needs that no line is read before the one connection is there,
that `publish()` is under way for the last line, and that `connected_` is on while the
connection is up. `Fates` says of every message that reached the broker that it was
published, published under a cut topic, or dropped, by its own lengths alone. The two give
`FirstLinesForwarded`. `RelayImplemented` needs besides that what is closed stays closed
(`StaysClosed`): `connect()` is called once, and a broker out of step stays so. What is
on its way is read off `toBroker` by a recursive function, `PubTopics`; that it
distributes over `Append` and `Tail` is proved by induction on Nat as a statement about sets,
from the well-foundedness of `<` (`WFMin`, `NatClosed`), which needs no operator parameter.

`LifeInv` says that a thread that is not joinable any more has finished (`PoolInv`), what
is behind each step of a frame of `stop()` (`FrameInv`) and of `main()` (`MainInv`), that
whoever cleared `running_` is still joining, has cleared the tables, or left a thread that
makes `~Broker` terminate (`StopInv`), that this last case needs a signal at a bad time or
on a thread of the pool (`CalmInv`), and that `async_accept` is armed or its handler runs
while `running_` is set and nothing was thrown (`AcceptInv`).

Only model-checked are the liveness properties (`HandlersReturn`, `DeadPeerForgotten`,
`CleanArrives`, `DisconnectReturnsOrIoWaits`, `MessageReachesHandler`, `LineForwarded`,
`EnterEnds`, `SignalStopsPool`), because liveness under fairness is out of the prover's
reach. Every invariant, every action property and the three refinements of the passing
runs are proved.

## 5. Not modelled, and what is left

Not modelled:

- Log output (`terminal_ui.h`), except that it takes the lock of `std::cout`.
- The former command line client (`old_main.bk`), which belongs to no build target.
- The JSON library: `json.hpp` and `json_fwd.hpp` are vendored third-party code, and
  25,713 of the repository's 27,104 lines. The bridge uses `json::parse` and
  `operator[]`, of which only matters whether they yield a topic and data.
- What the broker makes of the bridge's packets once an oversized one has put its reader
  out of step (`inStep` in `Bridge`); `Wire` has such a stream byte by byte.
- Locks of the C library other than those of the signal handler's message: `localtime()` and
  `malloc()` in other threads block nobody for long.
- A `socket_.close()` that races with a write on the same socket from another thread,
  which is undefined in asio; the models let such a write fail or not.
- What the optimizer may make of the data races on `running_` and `connected_`; each
  access is one step. The race on `client_id_`, whose value is a string, is modelled.
- Arguments of `main()`: parsed once, before anything else runs.
- Memory: the empty vectors that the purges leave in `topic_subscribers_`, and
  sessions kept alive by handlers.

What is left. A system of `Broker` and several `Client`s over `Wire` is beyond TLC at the
bounds where anything happens; `Client` and `Broker` meet in `BrokerEnd` instead, by proof,
and `Wire` and `Lifecycle` at the assumptions named in section 2. A bound on the growth of `topic_subscribers_` needs empty vectors in the model.
The pool that exceptions shrink (`Lifecycle`) and the handlers that need its threads
(`Broker`) could be composed. No operation of a modelled component is missing.

The files: `*.cfg` are the runs of section 3; run one with
`tlc -config Takeover.cfg MCBroker` (`Wire.cfg MCWire`, `Client.cfg Client`,
`Bridge.cfg MCBridge`, `Lifecycle.cfg Lifecycle`); check the proofs with `tlapm` on
`TableProofs.tla`, `BrokerProofs.tla`, `RefinementProofs.tla`, `AckProofs.tla`, `WireProofs.tla`,
`ClientProofs.tla`, `BridgeProofs.tla` and `LifecycleProofs.tla`.
