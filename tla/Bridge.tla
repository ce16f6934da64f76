------------------------------- MODULE Bridge -------------------------------
(***************************************************************************)
(* The bridge (src/client/src/esp32-client.cpp): devices connect one after *)
(* the other and send lines, each of which the bridge publishes through    *)
(* the client library.  Every step that it takes inside of a call is a     *)
(* step of Client, whose io thread and broker run beside it; the bridge    *)
(* subscribes to nothing, so that no message comes back.                   *)
(***************************************************************************)
EXTENDS Client, SequencesExt

CONSTANTS
  Devices,   \* what each device sends: topics, for the lines that name them, ...
  Bad,       \* ... lines that are not JSON, or without topic and data, and
  Cut,       \* a last line without its newline
  Empty,     \* the topics whose lines have empty data, ...
  Long,      \* ... whose name is longer than 255 bytes, ...
  Oversized, \* ... and whose line makes a payload of more than 65535 bytes
  Misread,   \* another topic, under which a line is published by mistake
  Dropped    \* no topic: the line is not published

ASSUME BridgeAssumption ==
  /\ Devices \in Seq(Seq(Topics \cup {Bad, Cut}))
  /\ Bad \notin Topics /\ Cut \notin Topics /\ Bad # Cut
  /\ Empty \subseteq Topics /\ Long \subseteq Topics /\ Oversized \subseteq Topics
  /\ Misread \notin Topics /\ Dropped \notin Topics /\ Misread # Dropped

VARIABLES
  at,         \* where main() is: see BridgeSteps
  device,     \* the number of devices accepted
  left,       \* what the current device has not sent yet
  lines,      \* history: the topics of the lines taken for publishing
  inStep,     \* the broker's reader is at the head of a packet when it takes it for one
  reached,    \* history: the topics of the messages that the broker took until then
  forwarded   \* history: what became of each of them: see Made

historyVars == <<inStep, reached, forwarded>>
bridgeVars == <<at, device, left, lines, historyVars>>
allVars == <<vars, bridgeVars>>

BridgeSteps ==
  {"start", "connecting", "listening",
   "accepting", "reading",
   "publishing", "sending",   \* before client.publish(), and in it
   "leaving"}                 \* main() returns, and ~Client runs

BridgeTypeOK ==
  /\ TypeOK
  /\ at \in BridgeSteps
  /\ device \in 0 .. Len(Devices)
  /\ left \in Seq(Topics \cup {Bad, Cut})
  /\ lines \in Seq(Topics) /\ inStep \in BOOLEAN
  /\ reached \in Seq(Topics) /\ forwarded \in Seq(Topics \cup {Misread, Dropped})

BridgeInit ==
  /\ Init
  /\ at = "start" /\ device = 0 /\ left = <<>> /\ lines = <<>>
  /\ inStep = TRUE /\ reached = <<>> /\ forwarded = <<>>

-----------------------------------------------------------------------------
CallConnect ==
  /\ at = "start" /\ Connect
  /\ at' = "connecting"
  /\ UNCHANGED <<device, left, lines, historyVars>>

\* connect() returns; false ends main() with 1.
LeaveConnect ==
  /\ at = "connecting"
  /\ \/ OpenFails /\ at' = "leaving"
     \/ Open /\ UNCHANGED at
     \/ ConnectReturns /\ at' = IF connected THEN "listening" ELSE "leaving"
  /\ UNCHANGED <<device, left, lines, historyVars>>

\* The acceptor is bound, or its constructor throws.
Listen ==
  /\ at = "listening"
  /\ at' \in {"accepting", "leaving"}
  /\ UNCHANGED <<vars, device, left, lines, historyVars>>

\* The next device, with a buffer of its own; or accept() throws.
AcceptDevice ==
  /\ at = "accepting"
  /\ \/ /\ device < Len(Devices)
        /\ device' = device + 1 /\ left' = Devices[device + 1] /\ at' = "reading"
     \/ at' = "leaving" /\ UNCHANGED <<device, left>>
  /\ UNCHANGED <<vars, lines, historyVars>>

\* Mutant of ReadLine: a line that is not JSON is published under its own text.
ReadLineUnparsed ==
  /\ at = "reading"
  /\ left # <<>> /\ Head(left) # Cut
  /\ left' = Tail(left)
  /\ at' = "publishing" /\ lines' = Append(lines, Head(left))
  /\ UNCHANGED <<vars, device, historyVars>>

\* Mutant of ReadLine: the line in the buffer is lost when another one follows.
ReadLineSkip ==
  /\ at = "reading"
  /\ left # <<>> /\ Head(left) # Cut
  /\ left' = Tail(left)
  /\ \/ Head(left) = Bad /\ UNCHANGED <<at, lines>>
     \/ /\ Head(left) # Bad
        /\ at' = IF Len(left) > 1 THEN "reading" ELSE "publishing"
        /\ lines' = Append(lines, Head(left))
  /\ UNCHANGED <<vars, device, historyVars>>

\* read_until and the parser: a line that cannot be parsed is only reported.
ReadLine ==
  /\ at = "reading"
  /\ left # <<>> /\ Head(left) # Cut
  /\ left' = Tail(left)
  /\ \/ Head(left) = Bad /\ UNCHANGED <<at, lines>>
     \/ Head(left) # Bad /\ at' = "publishing" /\ lines' = Append(lines, Head(left))
  /\ UNCHANGED <<vars, device, historyVars>>

\* The device closes or loses its connection, with or without having sent it all.
DeviceEnds ==
  /\ at = "reading"
  /\ at' = "accepting" /\ left' = <<>>
  /\ UNCHANGED <<vars, device, lines, historyVars>>

\* publish(), whose result nothing looks at.
CallPublish ==
  /\ at = "publishing"
  /\ \/ connected /\ Publish(Last(lines)) /\ at' = "sending"
     \/ ~connected /\ at' = "reading" /\ UNCHANGED vars
  /\ UNCHANGED <<device, left, lines, historyVars>>

\* Mutant of PublishReturns: it is called again.
PublishReturnsAgain ==
  /\ at = "sending" /\ SendPacket
  /\ at' = "publishing"
  /\ UNCHANGED <<device, left, lines, historyVars>>

PublishReturns ==
  /\ at = "sending" /\ SendPacket
  /\ at' = "reading"
  /\ UNCHANGED <<device, left, lines, historyVars>>

\* The destructor of client, at the return or on the way to the catch.
Leave ==
  /\ at = "leaving"
  /\ Destroy \/ LockAndShut \/ Joined
  /\ UNCHANGED bridgeVars

Main ==
  \/ CallConnect \/ LeaveConnect \/ Listen \/ AcceptDevice
  \/ ReadLine \/ DeviceEnds \/ CallPublish \/ PublishReturns
  \/ Leave

IoThread ==
  /\ IoStarts \/ IoEnds \/ HandleConnack("io") \/ HandleAck("io") \/ ReadFails("io")
       \/ IoDisconnects
  /\ UNCHANGED bridgeVars

-----------------------------------------------------------------------------
(* The broker's end, which reads what the bridge sends.                    *)

\* What becomes of the line of topic t: a topic of more than 255 bytes is cut to the
\* rest of its length, and otherwise a message without data is dropped.
Made(t) == IF t \in Long THEN Misread ELSE IF t \in Empty THEN Dropped ELSE t

BrokerConnects ==
  /\ inStep /\ BrokerTakes /\ Head(toBroker).type # "PUB"
  /\ UNCHANGED bridgeVars

\* Mutant of BrokerPublishes: a message without data is published too.
BrokerPublishesAll ==
  /\ inStep /\ BrokerTakes /\ Head(toBroker).type = "PUB"
  /\ Head(toBroker).topic \notin Oversized
  /\ reached' = Append(reached, Head(toBroker).topic)
  /\ forwarded' = Append(forwarded, Head(toBroker).topic)
  /\ UNCHANGED <<at, device, left, lines, inStep>>

BrokerPublishes ==
  /\ inStep /\ toBroker # <<>> /\ Head(toBroker).type = "PUB"
  /\ LET t == Head(toBroker).topic IN
       /\ t \notin Oversized
       /\ \/ Made(t) # Dropped /\ BrokerTakes
          \/ Made(t) = Dropped /\ BrokerIgnores
       /\ reached' = Append(reached, t) /\ forwarded' = Append(forwarded, Made(t))
  /\ UNCHANGED <<at, device, left, lines, inStep>>

\* A payload of more than 65535 bytes: its length is cut to 16 bits in the header, and
\* the bytes beyond are taken for packets.  The broker is not followed any further.
BrokerLosesStep ==
  /\ inStep
  /\ BrokerTakes \/ BrokerIgnores
  /\ Head(toBroker).type = "PUB" /\ Head(toBroker).topic \in Oversized
  /\ inStep' = FALSE
  /\ UNCHANGED <<at, device, left, lines, reached, forwarded>>

BrokerGets == BrokerConnects \/ BrokerPublishes \/ BrokerLosesStep

BrokerAnswers == BrokerServes /\ UNCHANGED bridgeVars

Lost == ConnectionLost /\ UNCHANGED bridgeVars

BridgeNext == Main \/ IoThread \/ BrokerGets \/ BrokerAnswers \/ Lost

BridgeSpec == BridgeInit /\ [][BridgeNext]_allVars

\* main() goes on with what it has to do; devices do what they like.
BridgeFairSpec ==
  /\ BridgeSpec
  /\ WF_allVars(LeaveConnect) /\ WF_allVars(CallPublish) /\ WF_allVars(PublishReturns)
  /\ WF_allVars(Leave) /\ WF_allVars(IoThread)
  /\ WF_allVars(BrokerGets) /\ WF_allVars(BrokerAnswers)

-----------------------------------------------------------------------------
\* The topics of the messages among the packets q.
PubTopics(q) ==
  LET f[n \in 0 .. Len(q)] ==
        IF n = 0 THEN <<>>
        ELSE IF q[n].type = "PUB" THEN Append(f[n - 1], q[n].topic) ELSE f[n - 1]
  IN f[Len(q)]

\* The line that is read and not sent.
InHand == IF at \in {"publishing", "sending"} THEN <<Last(lines)>> ELSE <<>>

\* As long as the connection is up and no payload was too long for its length, every
\* line taken for publishing has got to the broker or is on its way there, once and in
\* order: none is lost before the broker, whose session may still drop it.
NothingLostWhileUp ==
  up /\ inStep => lines = reached \o PubTopics(toBroker) \o InHand

\* Whatever happens, up to the first payload that is too long the broker gets the first
\* of the lines, and each of them has its own fate: published under its topic, under
\* another one if its name is longer than 255 bytes, or dropped if it has no data
\* (session.cpp:131).  Once the connection is lost the bridge goes on reading lines, and
\* all of them are dropped (esp32-client.cpp:45 ignores the result): none gets to the
\* broker after one that did not.
FirstLinesForwarded ==
  /\ IsPrefix(reached, lines)
  /\ forwarded = [i \in DOMAIN reached |-> Made(reached[i])]

\* A line may still have its fate: the connection is there or to come, and in step.
MayForward == inStep /\ (up \/ at \in {"start", "connecting"})

RL == INSTANCE Relay WITH taken <- lines, given <- forwarded,
                          Outcome <- [t \in Topics |-> Made(t)], open <- MayForward

\* Whatever the library's threads and the broker do between them, a line has its fate
\* when it is the next one and only before the connection is lost: connect() is called
\* once, so that nothing is published on a later connection (esp32-client.cpp:19, 45).
ImplementsRelay == RL!Spec

\* A line taken for publishing has its fate at the broker, unless the connection is
\* lost, main() ends, or a payload is too long for its length.
LineForwarded ==
  \A n \in 1 .. MaxCalls :
    (Len(lines) >= n) ~> (Len(forwarded) >= n \/ broken \/ ~inStep \/ at = "leaving")
=============================================================================
